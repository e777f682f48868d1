-------------------------- MODULE HydraCloseProofs --------------------------
(***************************************************************************)
(* Proof that `close' keeps its promise (CloseDelivers), for every number  *)
(* of control threads, heads, messages on the websocket and attempts.      *)
(***************************************************************************)
EXTENDS HydraHeadProofs, FiniteSetTheorems

-----------------------------------------------------------------------------
(* A client that believes the head to be open.                             *)

\* A message after which the client believes it.
Opening(m) == m.tag = "HeadIsOpen" \/ (m.tag = "Greetings" /\ m.st = "Open")

\* The head is open, or the client is about to be told that it is closed; the
\* deadline does not pass before.
OpenInv ==
  /\ OnWire("HeadIsClosed") => head.st = "Closed" /\ ~head.ready
  /\ \A i \in DOMAIN wire : Opening(wire[i]) =>
       head.st = "Open" \/ \E j \in DOMAIN wire : j > i /\ wire[j].tag = "HeadIsClosed"
  /\ conn /\ status = "Open" /\ ~OnWire("Greetings") => head.st = "Open" \/ OnWire("HeadIsClosed")

\* The node says something: it comes behind the other messages, and who waits
\* for it misses it only without a connection.
LEMMA Told ==
  ASSUME TypeOK, WireInv, NEW tag, NEW of, Emit(tag, of)
  PROVE  /\ \A i \in DOMAIN wire : i \in DOMAIN wire' /\ wire'[i] = wire[i] /\ i \in Nat
         /\ \A i \in DOMAIN wire' : \/ i \in DOMAIN wire /\ wire'[i] = wire[i]
                                    \/ conn /\ wire'[i].tag = tag /\ \A j \in DOMAIN wire : j < i
         /\ \A x : (OnWire(x) => OnWire(x)') /\ (OnWire(x)' => OnWire(x) \/ x = tag)
         /\ conn => OnWire(tag)' /\ \A i \in DOMAIN wire : \E j \in DOMAIN wire' : j > i /\ wire'[j].tag = tag
         /\ \A t \in Thread : Active(t) /\ t \notin missed' => t \notin missed /\ conn
<1>1. CASE conn
  <2> DEFINE m == Msg(tag, of)
             n == Len(wire) + 1
  <2>1. wire' = Append(wire, m) /\ missed' = missed /\ m.tag = tag
    BY <1>1, Says
  <2> HIDE DEF m
  <2>2. /\ DOMAIN wire = 1..Len(wire) /\ DOMAIN wire' = 1..n /\ Len(wire) \in Nat
        /\ \A i \in DOMAIN wire : wire'[i] = wire[i]
        /\ wire'[n] = m
        /\ \A x : OnWire(x)' <=> OnWire(x) \/ m.tag = x
    BY <2>1, Pushed
  <2>3. \A i \in DOMAIN wire' : i \in DOMAIN wire \/ i = n
    BY <2>2
  <2>4. n \in DOMAIN wire' /\ \A i \in DOMAIN wire : i < n /\ i \in DOMAIN wire' /\ i \in Nat /\ n > i
    BY <2>2
  <2> HIDE DEF n
  <2> QED BY <1>1, <2>1, <2>2, <2>3, <2>4
<1>2. CASE ~conn
  <2>1. /\ wire' = wire /\ wire = <<>>
        /\ \A t \in Thread : Active(t) => t \in missed'
    BY <1>2, Says
  <2>2. DOMAIN wire = {} /\ DOMAIN wire' = {} /\ \A x : ~OnWire(x) /\ ~OnWire(x)'
    BY <2>1 DEF OnWire
  <2> QED BY <1>2, <2>1, <2>2
<1> QED BY <1>1, <1>2

\* What says nothing of an open head or a closure.
LEMMA OpenOther ==
  ASSUME TypeOK, WireInv, OpenInv, NEW tag, NEW of, Emit(tag, of), conn' = conn, status' = status,
         tag \notin {"HeadIsOpen", "Greetings", "HeadIsClosed"},
         \/ head'.st = head.st /\ head'.ready = head.ready
         \/ ~OnWire("HeadIsClosed") /\ head.st # "Open"
  PROVE  OpenInv'
<1>1. /\ \A i \in DOMAIN wire : i \in DOMAIN wire' /\ wire'[i] = wire[i] /\ i \in Nat
      /\ \A i \in DOMAIN wire' : (i \in DOMAIN wire /\ wire'[i] = wire[i]) \/ wire'[i].tag = tag
      /\ \A x : (OnWire(x) => OnWire(x)') /\ (OnWire(x)' => OnWire(x) \/ x = tag)
  BY Told
<1>2. \A i \in DOMAIN wire' : Opening(wire'[i]) => i \in DOMAIN wire /\ Opening(wire[i])
  BY <1>1 DEF Opening
<1>3. CASE head'.st = head.st /\ head'.ready = head.ready
  <2>1. OnWire("HeadIsClosed")' => head'.st = "Closed" /\ ~head'.ready
    BY <1>1, <1>3 DEF OpenInv
  <2>2. \A i \in DOMAIN wire' : Opening(wire'[i]) =>
          head'.st = "Open" \/ \E j \in DOMAIN wire' : j > i /\ wire'[j].tag = "HeadIsClosed"
    BY <1>1, <1>2, <1>3 DEF OpenInv
  <2>3. conn /\ status = "Open" /\ ~OnWire("Greetings")' => head'.st = "Open" \/ OnWire("HeadIsClosed")'
    BY <1>1, <1>3 DEF OpenInv
  <2> QED BY <2>1, <2>2, <2>3 DEF OpenInv, Opening
<1>4. CASE ~OnWire("HeadIsClosed") /\ head.st # "Open"
  <2>1. ~OnWire("HeadIsClosed")'
    BY <1>1, <1>4
  <2>2. \A i \in DOMAIN wire' : ~Opening(wire'[i])
    BY <1>2, <1>4 DEF OpenInv, OnWire
  <2>3. ~(conn /\ status = "Open" /\ ~OnWire("Greetings")')
    BY <1>1, <1>4 DEF OpenInv
  <2> QED BY <2>1, <2>2, <2>3 DEF OpenInv, Opening
<1> QED BY <1>3, <1>4

\* The client takes a message.
LEMMA OpenMessage ==
  ASSUME TypeOK, WireInv, OpenInv, OnMessage
  PROVE  OpenInv'
<1> DEFINE m == Head(wire)
<1>1. wire # <<>> /\ wire' = Tail(wire) /\ head' = head /\ conn' = conn /\ status' = StatusAfter(m)
  BY DEF OnMessage, headVars
<1>2. /\ m = wire[1] /\ 1 \in DOMAIN wire /\ DOMAIN wire \subseteq Nat
      /\ \A i \in DOMAIN wire' : i \in Nat /\ i >= 1 /\ i + 1 \in DOMAIN wire /\ wire'[i] = wire[i + 1]
      /\ \A i \in DOMAIN wire : i > 1 => i - 1 \in DOMAIN wire'
      /\ \A i \in DOMAIN wire : i = 1 \/ i > 1
      /\ \A tag : OnWire(tag) <=> m.tag = tag \/ OnWire(tag)'
  BY <1>1, Popped
<1> HIDE DEF m
<1>3. ASSUME NEW i \in DOMAIN wire, NEW j \in DOMAIN wire, j > i, wire[j].tag = "HeadIsClosed"
      PROVE  j - 1 \in DOMAIN wire' /\ wire'[j - 1].tag = "HeadIsClosed"
  <2>1. i \in Nat /\ j \in Nat /\ i >= 1 /\ j > 1
    BY <1>2, <1>3
  <2>2. j - 1 \in DOMAIN wire'
    BY <1>2, <2>1
  <2>3. wire'[j - 1] = wire[j - 1 + 1] /\ j - 1 + 1 = j
    BY <1>2, <2>1, <2>2
  <2> QED BY <1>3, <2>2, <2>3
<1>4. OnWire("HeadIsClosed")' => head.st = "Closed" /\ ~head.ready
  BY <1>2 DEF OpenInv
<1>5. ASSUME NEW i \in DOMAIN wire', Opening(wire'[i]), head.st # "Open"
      PROVE  \E j \in DOMAIN wire' : j > i /\ wire'[j].tag = "HeadIsClosed"
  <2>1. i + 1 \in DOMAIN wire /\ Opening(wire[i + 1]) /\ i \in Nat
    BY <1>2, <1>5
  <2>2. PICK j \in DOMAIN wire : j > i + 1 /\ wire[j].tag = "HeadIsClosed"
    BY <1>5, <2>1 DEF OpenInv
  <2>3. j - 1 \in DOMAIN wire' /\ wire'[j - 1].tag = "HeadIsClosed"
    BY <1>3, <2>1, <2>2
  <2>4. j - 1 > i
    BY <1>2, <2>1, <2>2
  <2> QED BY <2>3, <2>4
<1>6. ASSUME conn, status' = "Open", ~OnWire("Greetings")', head.st # "Open" PROVE OnWire("HeadIsClosed")'
  <2>1. CASE Opening(m)
    <3>1. PICK j \in DOMAIN wire : j > 1 /\ wire[j].tag = "HeadIsClosed"
      BY <1>2, <1>6, <2>1 DEF OpenInv
    <3> QED BY <1>2, <1>3, <3>1 DEF OnWire
  <2>2. CASE ~Opening(m)
    <3>1. status = "Open" /\ m.tag \notin {"Greetings", "HeadIsClosed"}
      BY <1>1, <1>6, <2>2 DEF StatusAfter, Opening
    <3> QED BY <1>2, <1>6, <3>1 DEF OpenInv
  <2> QED BY <2>1, <2>2
<1> QED BY <1>1, <1>4, <1>5, <1>6 DEF OpenInv, Opening

LEMMA OpenStep ==
  ASSUME TypeOK, WireInv, OpenInv, [Next]_vars
  PROVE  OpenInv'
<1>1. CASE UNCHANGED vars
  BY <1>1 DEF vars, headVars, sockVars, clientVars, OpenInv, OnWire
<1>2. CASE Next
  <2>0. ASSUME conn' = conn, status' = status, head' = head, wire' = wire PROVE OpenInv'
    BY <2>0 DEF OpenInv, OnWire
  <2>1. CASE Observes
    <3>1. PICK do \in DOMAIN Observed, of \in Party \cup {"none"} : Observe(do, of)
      BY <2>1 DEF Observes
    <3>2. conn' = conn /\ status' = status
      BY <3>1, ObserveIs
    <3>3. CASE do = "init"
      <4>1. wire = <<>> /\ Emit("HeadIsOpen", of) /\ head'.st = "Open"
        BY <3>1, <3>3, ObserveIs DEF Prompt
      <4>2. ~OnWire("HeadIsClosed")'
        BY <4>1, Told, EmptyWire
      <4> QED BY <4>1, <4>2 DEF OpenInv
    <3>4. CASE do = "close"
      <4>1. head.st = "Open" /\ Emit("HeadIsClosed", of) /\ head'.st = "Closed" /\ ~head'.ready
        BY <3>1, <3>4, ObserveIs DEF WireInv
      <4>2. CASE ~conn
        <5>1. wire' = <<>>
          BY <4>1, <4>2, Says
        <5>2. DOMAIN wire' = {} /\ ~OnWire("HeadIsClosed")'
          BY <5>1 DEF OnWire
        <5> QED BY <3>2, <4>2, <5>2 DEF OpenInv
      <4>3. CASE conn
        <5>1. /\ \A i \in DOMAIN wire' : \/ i \in DOMAIN wire /\ wire'[i] = wire[i]
                                         \/ wire'[i].tag = "HeadIsClosed"
              /\ OnWire("HeadIsClosed")'
              /\ \A i \in DOMAIN wire : \E j \in DOMAIN wire' : j > i /\ wire'[j].tag = "HeadIsClosed"
          BY <4>1, <4>3, Told
        <5>2. \A i \in DOMAIN wire' : Opening(wire'[i]) => i \in DOMAIN wire
          BY <5>1 DEF Opening
        <5> QED BY <4>1, <5>1, <5>2 DEF OpenInv, Opening
      <4> QED BY <4>2, <4>3
    <3>5. CASE do = "fanout"
      <4>1. head.st = "Closed" /\ head.ready /\ Emit("HeadIsFinalized", of)
        BY <3>1, <3>5, ObserveIs
      <4>2. ~OnWire("HeadIsClosed")
        BY <4>1 DEF OpenInv
      <4> QED BY <3>2, <4>1, <4>2, OpenOther
    <3>6. CASE do = "recover"
      BY <3>1, <3>2, <3>6, ObserveIs, OpenOther
    <3> QED BY <3>3, <3>4, <3>5, <3>6, ObservedType
  <2>2. CASE Deadline
    <3>1. wire = <<>> /\ head.st = "Closed" /\ Emit("ReadyToFanout", "none") /\ conn' = conn /\ status' = status
      BY <2>2 DEF Deadline, Prompt, clientVars
    <3>2. ~OnWire("HeadIsClosed")
      BY <3>1, EmptyWire
    <3> QED BY <3>1, <3>2, OpenOther
  <2>3. ASSUME NEW x \in txs, Fail(x) PROVE OpenInv'
    BY <2>3, OpenOther DEF Fail, clientVars
  <2>4. ASSUME NEW x \in txs, Expire(x) PROVE OpenInv'
    BY <2>0, <2>4 DEF Expire, sockVars, clientVars
  <2>5. ASSUME NEW p \in Party, NEW s \in Stages, DepositMoves(p, s) PROVE OpenInv'
    <3>1. head' = head /\ conn' = conn /\ status' = status /\ \E of : Emit(s[3], of)
      BY <2>5 DEF DepositMoves, clientVars
    <3> QED BY <3>1, OpenOther, StagesType
  <2>6. CASE PeerDeposits
    BY <2>0, <2>6 DEF PeerDeposits, sockVars, clientVars
  <2>7. CASE Snapshot
    BY <2>7, OpenOther DEF Snapshot, headVars, clientVars
  <2>8. CASE OnOpen
    <3> DEFINE m == Msg("Greetings", "none")
    <3>1. wire = <<>> /\ wire' = <<m>> /\ m.tag = "Greetings" /\ m.st = head'.st
      BY <2>8 DEF OnOpen, WireInv, Msg
    <3> HIDE DEF m
    <3>2. DOMAIN wire' = {1} /\ wire'[1] = m /\ \A tag : OnWire(tag)' <=> m.tag = tag
      BY <3>1, OneMessage
    <3>3. ~OnWire("HeadIsClosed")' /\ OnWire("Greetings")'
      BY <3>1, <3>2
    <3> QED BY <3>1, <3>2, <3>3 DEF OpenInv, Opening
  <2>9. CASE OnClose \/ ClientRestart
    <3>1. ~conn' /\ wire' = <<>>
      BY <2>9 DEF OnClose, ClientRestart
    <3>2. DOMAIN wire' = {} /\ \A x : ~OnWire(x)'
      BY <3>1 DEF OnWire
    <3> QED BY <3>1, <3>2 DEF OpenInv
  <2>10. ASSUME NEW t \in Thread, Acts(t) PROVE OpenInv'
    <3>1. head' = head /\ conn' = conn /\ status' = status
      BY <2>10, ActsFrame
    <3>2. CASE Send(t)
      <4>1. Silent \/ Emit("CommandFailed", "none") \/ Emit("RejectedInputBecauseUnsynced", "none")
        BY <3>2 DEF Send
      <4>2. CASE Silent
        BY <2>0, <3>1, <4>2 DEF Silent
      <4> QED BY <3>1, <4>1, <4>2, OpenOther
    <3> QED BY <2>0, <2>10, <3>1, <3>2, ActsFrame
  <2> QED BY <1>2, <2>1, <2>2, <2>3, <2>4, <2>5, <2>6, <2>7, <2>8, <2>9, <2>10, Steps, OpenMessage
<1> QED BY <1>1, <1>2

-----------------------------------------------------------------------------
(* A close that is given alone stays alone, as long as nobody begins.      *)

Given(t) == thr[t].cmd = "close" /\ thr[t].sure

\* What the message that is taken makes of a thread.
LEMMA Hears ==
  ASSUME TypeOK, OnMessage, NEW t \in Thread
  PROVE  /\ thr'[t].cmd = thr[t].cmd /\ thr'[t].pc = thr[t].pc /\ thr'[t].do = thr[t].do
         /\ thr'[t].no = thr[t].no /\ thr'[t].try = thr[t].try /\ thr'[t].sure = thr[t].sure /\ thr'[t].lost = thr[t].lost
         /\ thr'[t].seen = IF Head(wire).tag \in Listens(t)
                           THEN Append(thr[t].seen, [tag |-> Head(wire).tag, of |-> Head(wire).of]) ELSE thr[t].seen
<1> DEFINE m == Head(wire)
           e == [tag |-> m.tag, of |-> m.of]
           mx == thr[t].mixed \/ m.of = "peer"
<1>1. thr'[t] = IF m.tag \in Listens(t) THEN [thr[t] EXCEPT !.seen = Append(@, e), !.mixed = mx] ELSE thr[t]
  BY DEF OnMessage
<1>2. thr[t] \in Job
  BY DEF TypeOK
<1>3. /\ thr'[t].cmd = thr[t].cmd /\ thr'[t].pc = thr[t].pc /\ thr'[t].do = thr[t].do
      /\ thr'[t].no = thr[t].no /\ thr'[t].try = thr[t].try /\ thr'[t].sure = thr[t].sure /\ thr'[t].lost = thr[t].lost
      /\ thr'[t].seen = IF m.tag \in Listens(t) THEN Append(thr[t].seen, e) ELSE thr[t].seen
  <2> HIDE DEF m, e, mx
  <2> QED BY <1>1, <1>2 DEF Job
<1> QED BY <1>3

\* A thread that does not act.
LEMMA Passive ==
  ASSUME TypeOK, Next, NEW t \in Thread, ~ClientRestart, ~Acts(t)
  PROVE  /\ thr'[t].cmd = thr[t].cmd /\ thr'[t].pc = thr[t].pc /\ thr'[t].do = thr[t].do
         /\ thr'[t].no = thr[t].no /\ thr'[t].try = thr[t].try /\ (thr'[t].sure => thr[t].sure)
<1>1. CASE OnMessage
  BY <1>1, Hears
<1>2. CASE ~OnMessage
  BY <1>2, OthersSame
<1> QED BY <1>1, <1>2

\* A thread that acts has a command, and keeps it or is done with it.
LEMMA ActsKeeps ==
  ASSUME TypeOK, NEW t \in Thread, Acts(t), \A c \in Command : ~Begin(t, c)
  PROVE  /\ Active(t)
         /\ thr'[t].cmd = "none" \/ (thr'[t].cmd = thr[t].cmd /\ thr'[t].sure = thr[t].sure)
<1>0. thr[t] \in Job /\ thr \in [Thread -> Job]
  BY DEF TypeOK
<1> DEFINE Keeps == thr'[t].cmd = "none" \/ (thr'[t].cmd = thr[t].cmd /\ thr'[t].sure = thr[t].sure)
<1>1. ASSUME NEW r, thr' = [thr EXCEPT ![t] = Done(r)] PROVE Keeps
  <2>1. thr'[t] = Done(r)
    BY <1>0, <1>1
  <2>2. Done(r).cmd = "none"
    BY DEF Done, New
  <2> QED BY <2>1, <2>2
<1>2. ASSUME NEW r, Reply(t, r) PROVE Keeps
  BY <1>1, <1>2 DEF Reply
<1>3. ASSUME NEW p, Goto(t, p) PROVE Keeps
  BY <1>0, <1>3 DEF Goto, Job
<1>4. CASE Send(t)
  <2>1. PICK lost \in {0, 1} : Sent(t, lost)
    BY <1>4 DEF Send
  <2>2. Keeps
    BY <1>0, <2>1 DEF Sent, Job
  <2> QED BY <1>4, <2>2 DEF Send, At, Active
<1>5. CASE DepositSubmit(t)
  <2>1. Keeps
    BY <1>0, <1>2, <1>5 DEF DepositSubmit, Job
  <2> QED BY <1>5, <2>1 DEF DepositSubmit, At, Active
<1>6. CASE RecoverDelete(t)
  <2>1. Keeps
    BY <1>0, <1>2, <1>6 DEF RecoverDelete, Job
  <2> QED BY <1>6, <2>1 DEF RecoverDelete, At, Active
<1>7. CASE RecoverCommits(t)
  <2>1. Keeps
    BY <1>0, <1>2, <1>7 DEF RecoverCommits, Job
  <2> QED BY <1>7, <2>1 DEF RecoverCommits, At, Active
<1>8. CASE CloseAgain(t)
  <2>1. Keeps
    BY <1>0, <1>2, <1>8 DEF CloseAgain, Job
  <2> QED BY <1>8, <2>1 DEF CloseAgain, At, Active
<1>9. CASE CloseDone(t) \/ FanoutReady(t) \/ DepositDraft(t) \/ DepositSubmitted(t)
  <2> HIDE DEF Keeps
  <2>1. Keeps
    BY <1>2, <1>3, <1>9 DEF CloseDone, FanoutReady, DepositDraft, DepositSubmitted
  <2> QED BY <1>9, <2>1 DEF CloseDone, FanoutReady, DepositDraft, DepositSubmitted, At, Active, Keeps
<1>10. CASE FanoutLooks(t)
  <2>1. Keeps
    BY <1>0, <1>2, <1>10 DEF FanoutLooks, Job
  <2> QED BY <1>10, <2>1 DEF FanoutLooks, At, Active
<1>11. CASE FanoutMarks(t)
  <2>1. Keeps
    BY <1>0, <1>11 DEF FanoutMarks, Job
  <2> QED BY <1>11, <2>1 DEF FanoutMarks, At, Active
<1>12. CASE FanoutDone(t) \/ InitDone(t) \/ RecoverDone(t) \/ Raises(t) \/ DepositTimesOut(t)
  <2> HIDE DEF Keeps
  <2>1. Keeps
    BY <1>2, <1>12 DEF FanoutDone, InitDone, RecoverDone, Raises, DepositTimesOut, Concludes
  <2> QED BY <1>12, <2>1 DEF FanoutDone, InitDone, RecoverDone, Raises, DepositTimesOut, At, Active, Keeps
<1>13. CASE DepositAssign(t)
  BY <1>1, <1>13 DEF DepositAssign, At, Active
<1>14. CASE DepositGet(t)
  <2>1. Keeps
    BY <1>0, <1>2, <1>14 DEF DepositGet, Job
  <2> QED BY <1>14, <2>1 DEF DepositGet, At, Active
<1>15. CASE DepositStage(t)
  <2>1. CASE Expired(t)
    BY <1>0, <1>15, <2>1 DEF DepositStage, Expired, Job, At, Active
  <2>2. CASE thr' = [thr EXCEPT ![t].pc = "get", ![t].seen = <<>>]
    BY <1>0, <1>15, <2>2 DEF DepositStage, Job, At, Active
  <2>3. CASE NextStage(t)
    <3> DEFINE s == SubSeq(thr[t].seen, First(t) + 1, Len(thr[t].seen))
    <3>1. thr' = [thr EXCEPT ![t].seen = s, ![t].try = @ + 1]
      BY <2>3 DEF NextStage
    <3> HIDE DEF s
    <3>2. Keeps
      BY <1>0, <3>1 DEF Job
    <3> QED BY <1>15, <3>2 DEF DepositStage, At, Active
  <2> QED BY <1>15, <2>1, <2>2, <2>3 DEF DepositStage
<1> QED BY <1>4, <1>5, <1>6, <1>7, <1>8, <1>9, <1>10, <1>11, <1>12, <1>13, <1>14, <1>15 DEF Acts

\* It posts transactions of its own.
LEMMA ActsTxs ==
  ASSUME TypeOK, NEW t \in Thread, Acts(t)
  PROVE  /\ txs' = txs \/ \E x : x.by = t /\ txs' = txs \cup {x} /\ (x.do = "recover" => RecoverDelete(t))
         /\ (\E c \in Command : Begin(t, c)) => txs' = txs
<1> USE DEF Reply, Goto, Local, headVars, Concludes
<1>1. CASE DepositAssign(t) \/ CloseAgain(t) \/ CloseDone(t) \/ FanoutLooks(t) \/ FanoutReady(t) \/ FanoutMarks(t)
           \/ FanoutDone(t) \/ Raises(t) \/ InitDone(t)
  <2>1. txs' = txs
    BY <1>1 DEF DepositAssign, CloseAgain, CloseDone, FanoutLooks, FanoutReady, FanoutMarks, FanoutDone, Raises, InitDone
  <2> QED BY <2>1
<1>2. CASE DepositDraft(t) \/ DepositSubmit(t) \/ DepositSubmitted(t) \/ DepositStage(t) \/ DepositTimesOut(t)
           \/ DepositGet(t) \/ RecoverCommits(t) \/ RecoverDone(t)
  <2>1. txs' = txs
    BY <1>2 DEF DepositDraft, DepositSubmit, DepositSubmitted, DepositStage, Expired, NextStage, DepositTimesOut, DepositGet,
                RecoverCommits, RecoverDone
  <2> QED BY <2>1
<1>3. ASSUME NEW c \in Command, Begin(t, c) PROVE txs' = txs
  BY <1>3 DEF Begin
<1>4. ASSUME NEW do, NEW of PROVE Tx(do, t, of).by = t /\ Tx(do, t, of).do = do
  BY DEF Tx
<1> HIDE DEF Reply, Goto, Local, headVars, Concludes
<1>5. CASE Send(t)
  <2>1. thr[t].do # "recover"
    BY DEF TypeOK, Job
  <2> QED BY <1>3, <1>4, <1>5, <2>1 DEF Send
<1>6. CASE RecoverDelete(t)
  BY <1>3, <1>4, <1>6 DEF RecoverDelete, Reply, headVars
<1> QED BY <1>1, <1>2, <1>3, <1>5, <1>6 DEF Acts

\* Other steps post nothing.
LEMMA TxsStep ==
  ASSUME TypeOK, Next, \A t \in Thread : ~Acts(t)
  PROVE  txs' = txs \/ \E x \in txs : txs' = txs \ {x}
<1>1. CASE Observes \/ Deadline \/ PeerDeposits \/ Snapshot \/ OnOpen \/ OnClose \/ OnMessage \/ ClientRestart
  BY <1>1 DEF Observes, Deadline, PeerDeposits, Snapshot, OnOpen, OnClose, OnMessage, ClientRestart, headVars
<1>2. ASSUME NEW x \in txs, Fail(x) \/ Expire(x) PROVE txs' = txs \ {x}
  BY <1>2 DEF Fail, Expire
<1>3. ASSUME NEW p \in Party, NEW s \in Stages, DepositMoves(p, s) PROVE txs' = txs
  BY <1>3 DEF DepositMoves
<1> QED BY <1>1, <1>2, <1>3, Steps

\* No other command is at work, and the transactions are its own inputs.
Solo(t) == /\ \A u \in Thread \ {t} : ~Active(u)
           /\ \A x \in txs : x.by = t /\ x.do # "recover"

SoloInv == IsFiniteSet(txs) /\ \A t \in Thread : Given(t) => Solo(t)

\* A thread with a close is at work.
LEMMA GivenActive ==
  ASSUME TypeOK, NEW t \in Thread, thr[t].cmd = "close"
  PROVE  thr[t].pc \in {"send", "wait", "look", "ready", "mark"} /\ Active(t)
<1>1. thr[t].pc \in Places["close"]
  BY DEF TypeOK
<1> QED BY <1>1, PlacesAre DEF Active

\* Another command ends the certainty of a close.
LEMMA BeginsOther ==
  ASSUME TypeOK, NEW u \in Thread, NEW c \in Command, Begin(u, c), NEW t \in Thread, t # u
  PROVE  ~Given(t)'
<1> DEFINE b == thr[t].sure /\ thr[t].cmd # "close"
<1>1. thr'[t] = [thr[t] EXCEPT !.sure = b] /\ thr[t] \in Job
  BY DEF Begin, TypeOK
<1>2. thr'[t].sure = b /\ thr'[t].cmd = thr[t].cmd
  <2> HIDE DEF b
  <2> QED BY <1>1 DEF Job
<1> QED BY <1>2 DEF Given

\* What a command is when it begins.
LEMMA Begins ==
  ASSUME TypeOK, NEW t \in Thread, NEW c \in Command, Begin(t, c), Given(t)'
  PROVE  /\ c = "close" /\ Sure("close") /\ head' = head /\ txs' = txs /\ wire' = wire /\ missed' = missed
         /\ thr'[t].no = head.no /\ thr'[t].pc = "send" /\ thr'[t].do = "close" /\ thr'[t].seen = <<>>
         /\ thr'[t].try = 1 /\ thr'[t].lost = 0
<1> DEFINE s == IF c = "fanout" /\ ready THEN log ELSE <<>>
           b == Sure(c)
           d == IF c = "init" THEN "init" ELSE "close"
           p == CASE c = "fanout" -> "look" [] c = "deposit" -> "commit" [] c = "recover" -> "commits"
                  [] OTHER -> "send"
<1>1. thr'[t] = [New EXCEPT !.cmd = c, !.no = head.no, !.sure = b, !.pc = p, !.do = d, !.seen = s]
  BY DEF Begin
<1>2. /\ thr'[t].cmd = c /\ thr'[t].no = head.no /\ thr'[t].sure = b /\ thr'[t].pc = p
      /\ thr'[t].do = d /\ thr'[t].seen = s /\ thr'[t].try = 1 /\ thr'[t].lost = 0
  <2> HIDE DEF s, b, p, d
  <2> QED BY <1>1 DEF New
<1>3. c = "close" /\ b
  BY <1>2 DEF Given
<1>4. head' = head /\ txs' = txs /\ wire' = wire /\ missed' = missed
  BY <1>3 DEF Begin, headVars, sockVars
<1> QED BY <1>2, <1>3, <1>4

LEMMA SoloStep ==
  ASSUME TypeOK, SoloInv, [Next]_vars
  PROVE  SoloInv'
<1>1. CASE UNCHANGED vars
  BY <1>1 DEF vars, headVars, SoloInv, Given, Solo, Active
<1>2. CASE Next
  <2>1. IsFiniteSet(txs')
    <3>1. \A x : IsFiniteSet(txs \cup {x}) /\ IsFiniteSet(txs \ {x})
      BY FS_AddElement, FS_RemoveElement DEF SoloInv
    <3>2. txs' = txs \/ \E x : txs' = txs \cup {x} \/ txs' = txs \ {x}
      BY <1>2, ActsTxs, TxsStep
    <3> QED BY <3>1, <3>2 DEF SoloInv
  <2>2. ASSUME NEW t \in Thread, Given(t)' PROVE Solo(t)'
    <3>1. CASE ClientRestart
      <4>1. thr'[t] = IF Active(t) THEN Done("dead") ELSE thr[t]
        BY <3>1 DEF ClientRestart
      <4>2. Done("dead").cmd = "none"
        BY DEF Done, New
      <4> QED BY <2>2, <4>1, <4>2, GivenActive DEF Given
    <3>2. ASSUME NEW c \in Command, Begin(t, c) PROVE Solo(t)'
      <4>1. Sure("close") /\ txs' = txs
        BY <2>2, <3>2, Begins
      <4>2. txs = {} /\ \A u \in Thread : ~Active(u)
        BY <4>1 DEF Sure, Alone
      <4>3. ASSUME NEW u \in Thread \ {t} PROVE thr'[u].pc = thr[u].pc
        <5> DEFINE b == thr[u].sure /\ thr[u].cmd # "close"
        <5>1. thr'[u] = [thr[u] EXCEPT !.sure = b] /\ thr[u] \in Job
          BY <3>2 DEF Begin, TypeOK
        <5> HIDE DEF b
        <5> QED BY <5>1 DEF Job
      <4> QED BY <4>1, <4>2, <4>3 DEF Solo, Active
    <3>3. CASE ~ClientRestart /\ \A c \in Command : ~Begin(t, c)
      <4>1. Given(t)
        BY <1>2, <2>2, <3>3, ActsKeeps, Passive DEF Given
      <4>2. Solo(t)
        BY <4>1 DEF SoloInv
      <4>3. ASSUME NEW u \in Thread \ {t} PROVE ~Acts(u)
        BY <2>2, <4>2, <4>3, ActsKeeps, BeginsOther DEF Solo
      <4>4. ASSUME NEW u \in Thread \ {t} PROVE thr'[u].pc = thr[u].pc
        BY <1>2, <3>3, <4>3, Passive
      <4>5. \A x \in txs' : x.by = t /\ x.do # "recover"
        <5>1. CASE Acts(t)
          <6>1. ~RecoverDelete(t)
            BY <4>1, GivenActive DEF Given, RecoverDelete, At
          <6> QED BY <4>2, <5>1, <6>1, ActsTxs DEF Solo
        <5>2. CASE ~Acts(t)
          BY <1>2, <4>2, <4>3, <5>2, TxsStep DEF Solo
        <5> QED BY <5>1, <5>2
      <4> QED BY <4>2, <4>4, <4>5 DEF Solo, Active
    <3> QED BY <3>1, <3>2, <3>3
  <2> QED BY <2>1, <2>2 DEF SoloInv
<1> QED BY <1>1, <1>2

-----------------------------------------------------------------------------
(* The thread of a close.                                                  *)

\* Between its first Close and the answer.
Attempting(t) == thr[t].pc \in {"send", "wait"} /\ thr[t].do = "close"

\* A close that the node refuses comes after the news that the head is closed.
SeenOrdered(t) == \A i \in DOMAIN thr[t].seen : thr[t].seen[i].tag = "CommandFailed" =>
                    \E j \in DOMAIN thr[t].seen : j < i /\ thr[t].seen[j].tag = "HeadIsClosed"

WireOrdered(t) == \A i \in DOMAIN wire : wire[i].tag = "CommandFailed" =>
                    Saw(t, "HeadIsClosed") \/ \E j \in DOMAIN wire : j < i /\ wire[j].tag = "HeadIsClosed"

\* How often Close was sent.
Made(t) == IF thr[t].pc = "send" THEN thr[t].try - 1 ELSE thr[t].try

\* Without an answer, each of them is under way or came to nothing.
Counted(t) == /\ \A x \in txs : x.do = "close" /\ x.try <= Made(t)
              /\ Answered(t) \/ thr[t].lost + Cardinality(txs) >= Made(t)

Tries(t) == Attempting(t) => /\ head.st = "Closed" <=> Saw(t, "HeadIsClosed") \/ OnWire("HeadIsClosed")
                             /\ SeenOrdered(t) /\ WireOrdered(t) /\ Counted(t)

\* The head is the one the command was given for, and its deadline to come.
Sees(t) == /\ Attempting(t) \/ thr[t].pc = "look" => /\ head.no = thr[t].no /\ head.st # "Idle" /\ ~head.ready
                                                     /\ thr[t].pc = "look" => head.st = "Closed"
           /\ thr[t].do \in {"close", "fanout"} /\ (thr[t].pc \in {"ready", "mark"} => thr[t].do = "fanout")

Refused(t) == OnWire("CommandFailed") \/ (thr[t].pc \in {"send", "wait"} /\ Saw(t, "CommandFailed"))

\* The fan-out is not refused, and is under way or came to nothing.
Fans(t) ==
  thr[t].do = "fanout" /\ ~Gone(thr[t].no) =>
    /\ head.st = "Closed" /\ (thr[t].pc = "wait" => head.ready)
    /\ head.ready => ~Refused(t)
    /\ thr[t].pc = "ready" /\ head.ready => Saw(t, "ReadyToFanout") \/ OnWire("ReadyToFanout")
    /\ thr[t].pc = "wait" => \/ thr[t].lost >= 1 \/ txs # {}
                             \/ Saw(t, "PostTxOnChainFailed") \/ OnWire("PostTxOnChainFailed")

Delivers(t) == Tries(t) /\ Sees(t) /\ Fans(t)

CloseInv(t) == Given(t) /\ t \notin missed => Delivers(t)

\* The head is as it was, and the thread; transactions vanish only with a word.
LEMMA Quiet ==
  ASSUME NEW t \in Thread, Delivers(t), head' = head, thr'[t] = thr[t],
         \A x : OnWire(x) => OnWire(x)',
         OnWire("HeadIsClosed")' => OnWire("HeadIsClosed"), OnWire("CommandFailed")' => OnWire("CommandFailed"),
         WireOrdered(t) => WireOrdered(t)',
         txs' = txs \/ (txs' \subseteq txs /\ OnWire("PostTxOnChainFailed")')
  PROVE  Delivers(t)'
<1>1. (\A x : Saw(t, x)' <=> Saw(t, x)) /\ (Attempting(t)' <=> Attempting(t)) /\ Made(t)' = Made(t)
      /\ (SeenOrdered(t)' <=> SeenOrdered(t)) /\ (Gone(thr[t].no)' <=> Gone(thr[t].no))
  BY DEF Saw, Attempting, Made, SeenOrdered, Gone
<1>2. (Answered(t) => Answered(t)') /\ (OnWire("PostTxOnChainFailed")' => Answered(t)')
  BY <1>1 DEF Answered, Answers, Refusals
<1>3. Counted(t) => Counted(t)'
  <2>1. CASE txs' = txs
    BY <1>1, <1>2, <2>1 DEF Counted
  <2>2. CASE txs' \subseteq txs /\ OnWire("PostTxOnChainFailed")'
    BY <1>1, <1>2, <2>2 DEF Counted
  <2> QED BY <2>1, <2>2
<1>4. Tries(t)'
  BY <1>1, <1>3 DEF Delivers, Tries
<1>5. Sees(t)'
  BY <1>1 DEF Delivers, Sees
<1>6. Fans(t)'
  <2>1. Refused(t)' => Refused(t)
    BY <1>1 DEF Refused
  <2> QED BY <1>1, <2>1 DEF Delivers, Fans
<1> QED BY <1>4, <1>5, <1>6 DEF Delivers

\* News that is neither of a closure nor of a refused command.
LEMMA NewsKept ==
  ASSUME TypeOK, WireInv, NEW t \in Thread, Delivers(t), head' = head, thr' = thr, NEW tag, NEW of, Emit(tag, of),
         tag \notin {"HeadIsClosed", "CommandFailed"}, Active(t), t \notin missed',
         txs' = txs \/ (txs' \subseteq txs /\ tag = "PostTxOnChainFailed")
  PROVE  Delivers(t)'
<1>1. /\ \A i \in DOMAIN wire : i \in DOMAIN wire' /\ wire'[i] = wire[i]
      /\ \A i \in DOMAIN wire' : \/ i \in DOMAIN wire /\ wire'[i] = wire[i]
                                 \/ wire'[i].tag = tag
      /\ \A x : (OnWire(x) => OnWire(x)') /\ (OnWire(x)' => OnWire(x) \/ x = tag)
      /\ conn /\ OnWire(tag)'
  BY Told
<1>2. WireOrdered(t) => WireOrdered(t)'
  BY <1>1 DEF WireOrdered, Saw
<1>3. txs' = txs \/ (txs' \subseteq txs /\ OnWire("PostTxOnChainFailed")')
  BY <1>1
<1> QED BY <1>1, <1>2, <1>3, Quiet

\* A transaction is observed.
LEMMA ObservedKept ==
  ASSUME HeadInv, NEW t \in Thread, Solo(t), Delivers(t), Observes, Active(t), t \notin missed'
  PROVE  Delivers(t)'
<1>0. TypeOK /\ WireInv /\ head.no \in Nat /\ thr[t].no \in Nat /\ thr[t].no <= head.no
  BY DEF HeadInv, ThreadsInv, ThreadInv, TypeOK, Job
<1>1. PICK do \in DOMAIN Observed, of \in Party \cup {"none"} :
        /\ Observe(do, of)
        /\ (txs' = txs /\ do # "recover") \/ \E x \in txs : x.do = do /\ txs' = txs \ {x}
  BY DEF Observes
<1>2. thr' = thr /\ txs' \subseteq txs
  BY <1>0, <1>1, ObserveIs
<1>3. (\A x : Saw(t, x)' <=> Saw(t, x)) /\ (Attempting(t)' <=> Attempting(t)) /\ Made(t)' = Made(t)
      /\ (SeenOrdered(t)' <=> SeenOrdered(t))
  BY <1>2 DEF Saw, Attempting, Made, SeenOrdered
<1>4. CASE do = "init"
  <2>1. head.st = "Idle" /\ head'.no = head.no + 1
    BY <1>0, <1>1, <1>4, ObserveIs
  <2>2. ~Attempting(t)' /\ thr'[t].pc # "look"
    BY <1>2, <1>3, <2>1 DEF Delivers, Sees
  <2>3. Gone(thr[t].no)'
    BY <1>0, <1>2, <2>1 DEF Gone
  <2> QED BY <1>2, <2>2, <2>3 DEF Delivers, Tries, Sees, Fans
<1>5. CASE do = "close"
  <2>1. /\ head.st = "Open" /\ Emit("HeadIsClosed", of)
        /\ head'.no = head.no /\ head'.st = "Closed" /\ ~head'.ready
    BY <1>0, <1>1, <1>5, ObserveIs DEF WireInv
  <2>2. /\ \A i \in DOMAIN wire : i \in DOMAIN wire' /\ wire'[i] = wire[i]
        /\ \A i \in DOMAIN wire' : \/ i \in DOMAIN wire /\ wire'[i] = wire[i]
                                   \/ wire'[i].tag = "HeadIsClosed"
        /\ OnWire("HeadIsClosed")'
    BY <1>0, <2>1, Told
  <2>3. Answered(t)'
    BY <2>2 DEF Answered, Answers, Observed
  <2>4. WireOrdered(t) => WireOrdered(t)'
    BY <1>3, <2>2 DEF WireOrdered
  <2>5. Counted(t) => Counted(t)'
    BY <1>2, <1>3, <2>3 DEF Counted
  <2>6. Tries(t)'
    BY <1>3, <2>1, <2>2, <2>4, <2>5 DEF Delivers, Tries
  <2>7. Sees(t)'
    BY <1>2, <1>3, <2>1 DEF Delivers, Sees
  <2>8. thr[t].do = "fanout" => Gone(thr[t].no)'
    BY <1>2, <2>1 DEF Delivers, Fans, Gone
  <2> QED BY <1>2, <2>6, <2>7, <2>8 DEF Delivers, Fans
<1>6. CASE do = "fanout"
  <2>1. head.st = "Closed" /\ head.ready /\ head'.st = "Idle"
    BY <1>0, <1>1, <1>6, ObserveIs
  <2>2. ~Attempting(t)' /\ thr'[t].pc # "look"
    BY <1>2, <1>3, <2>1 DEF Delivers, Sees
  <2>3. Gone(thr[t].no)'
    BY <2>1 DEF Gone
  <2> QED BY <1>2, <2>2, <2>3 DEF Delivers, Tries, Sees, Fans
<1>7. do # "recover"
  BY <1>1 DEF Solo
<1> QED BY <1>4, <1>5, <1>6, <1>7, ObservedType

\* The deadline passes.
LEMMA DeadlineKept ==
  ASSUME HeadInv, NEW t \in Thread, Delivers(t), Deadline, Active(t), t \notin missed'
  PROVE  Delivers(t)'
<1>0. TypeOK /\ WireInv
  BY DEF HeadInv
<1>1. /\ head.st = "Closed" /\ Prompt /\ Emit("ReadyToFanout", "none") /\ thr' = thr /\ txs' = txs
      /\ head'.st = "Closed" /\ head'.no = head.no /\ head'.ready
  BY <1>0 DEF Deadline, TypeOK
<1>2. wire = <<>> /\ thr[t].pc \notin {"send", "look", "mark", "delete"} /\ ~Returns(t)
  BY <1>1 DEF Prompt
<1>3. (\A x : ~OnWire(x)) /\ (\A x : OnWire(x)' => x = "ReadyToFanout") /\ OnWire("ReadyToFanout")'
  BY <1>0, <1>1, <1>2, Told, EmptyWire
<1>4. \A x : Saw(t, x) => x \notin Awaited(t)
  BY <1>0, <1>2, Prompted
<1>5. ~Attempting(t)
  <2> SUFFICES ASSUME Attempting(t) PROVE FALSE
    OBVIOUS
  <2>1. Saw(t, "HeadIsClosed")
    BY <1>1, <1>3 DEF Delivers, Tries
  <2>2. At(t, "wait") /\ thr[t].do = "close"
    BY <1>2 DEF Attempting, At
  <2>3. "HeadIsClosed" \in Awaited(t)
    BY <2>2 DEF Awaited, At, Answers, Observed
  <2> QED BY <1>4, <2>1, <2>3
<1>6. Tries(t)' /\ Sees(t)'
  BY <1>1, <1>2, <1>5 DEF Delivers, Tries, Sees, Attempting
<1>7. Fans(t)'
  <2> SUFFICES ASSUME thr[t].do = "fanout", ~Gone(thr[t].no)'
               PROVE  /\ ~Refused(t)'
                      /\ thr[t].pc = "wait" => \/ thr[t].lost >= 1 \/ txs # {} \/ Saw(t, "PostTxOnChainFailed")'
    BY <1>1, <1>3 DEF Fans
  <2>1. ~Gone(thr[t].no)
    BY <1>1 DEF Gone
  <2>2. ~Refused(t)'
    <3>1. ASSUME thr[t].pc = "wait" PROVE ~Saw(t, "CommandFailed")
      <4>1. "CommandFailed" \in Awaited(t)
        BY <3>1 DEF Awaited, At, Answers, Observed, Refusals
      <4> QED BY <1>4, <4>1
    <3>2. ~OnWire("CommandFailed")'
      BY <1>3
    <3> QED BY <1>1, <1>2, <3>1, <3>2 DEF Refused, Saw
  <2>3. Saw(t, "PostTxOnChainFailed")' <=> Saw(t, "PostTxOnChainFailed")
    BY <1>1 DEF Saw
  <2> QED BY <1>3, <2>1, <2>2, <2>3 DEF Delivers, Fans
<1> QED BY <1>6, <1>7 DEF Delivers

\* A transaction expires.
LEMMA ExpireKept ==
  ASSUME HeadInv, NEW t \in Thread, IsFiniteSet(txs), Solo(t), Delivers(t), NEW y \in txs, Expire(y)
  PROVE  Delivers(t)'
<1>0. TypeOK /\ thr[t] \in Job /\ thr \in [Thread -> Job] /\ thr[t].lost \in Nat /\ thr[t].try \in Nat
  BY DEF HeadInv, TypeOK, Job
<1>1. head' = head /\ wire' = wire /\ txs' = txs \ {y} /\ y.by = t /\ thr' = [thr EXCEPT ![t].lost = @ + 1]
  BY DEF Expire, sockVars, Solo
<1>2. /\ thr'[t].pc = thr[t].pc /\ thr'[t].do = thr[t].do /\ thr'[t].no = thr[t].no /\ thr'[t].seen = thr[t].seen
      /\ thr'[t].try = thr[t].try /\ thr'[t].lost = thr[t].lost + 1
  BY <1>0, <1>1 DEF Job
<1>3. (\A x : Saw(t, x)' <=> Saw(t, x)) /\ (\A x : OnWire(x)' <=> OnWire(x)) /\ (Attempting(t)' <=> Attempting(t))
      /\ Made(t)' = Made(t) /\ (SeenOrdered(t)' <=> SeenOrdered(t)) /\ (Gone(thr[t].no)' <=> Gone(thr[t].no))
  BY <1>1, <1>2 DEF Saw, OnWire, Attempting, Made, SeenOrdered, Gone
<1>4. (WireOrdered(t)' <=> WireOrdered(t)) /\ (Answered(t)' <=> Answered(t)) /\ (Refused(t)' <=> Refused(t))
  BY <1>1, <1>2, <1>3 DEF WireOrdered, Answered, Refused
<1>5. Cardinality(txs) \in Nat /\ Cardinality(txs') = Cardinality(txs) - 1
  BY <1>1, FS_RemoveElement, FS_CardinalityType
<1>6. Counted(t) => Counted(t)'
  <2>1. Made(t) \in Int
    BY <1>0 DEF Made
  <2>2. thr'[t].lost + Cardinality(txs') = thr[t].lost + Cardinality(txs)
    BY <1>0, <1>2, <1>5
  <2> QED BY <1>1, <1>3, <1>4, <2>2 DEF Counted
<1>7. Tries(t)' /\ Sees(t)'
  BY <1>1, <1>2, <1>3, <1>4, <1>6 DEF Delivers, Tries, Sees
<1>8. Fans(t)'
  <2>1. thr'[t].lost >= 1
    BY <1>0, <1>2
  <2> QED BY <1>1, <1>2, <1>3, <1>4, <2>1 DEF Delivers, Fans
<1> QED BY <1>7, <1>8 DEF Delivers

\* What a thread has seen after a message.
LEMMA SeenNow ==
  ASSUME TypeOK, OnMessage, NEW t \in Thread
  PROVE  LET s == thr[t].seen
             m == Head(wire)
             n == Len(thr[t].seen) + 1
         IN /\ \A i \in DOMAIN s : i \in DOMAIN thr'[t].seen /\ thr'[t].seen[i] = s[i] /\ i < n
            /\ \A i \in DOMAIN thr'[t].seen : \/ i \in DOMAIN s /\ thr'[t].seen[i] = s[i]
                                              \/ i = n /\ m.tag \in Listens(t) /\ thr'[t].seen[i].tag = m.tag
            /\ \A x : Saw(t, x)' <=> Saw(t, x) \/ (m.tag = x /\ m.tag \in Listens(t))
<1> DEFINE s == thr[t].seen
           m == Head(wire)
           e == [tag |-> m.tag, of |-> m.of]
           n == Len(thr[t].seen) + 1
<1>1. s \in Seq(Event) /\ Len(s) \in Nat /\ DOMAIN s = 1..Len(s)
  BY DEF TypeOK, Job
<1>2. thr'[t].seen = IF m.tag \in Listens(t) THEN Append(s, e) ELSE s
  BY Hears
<1>3. e.tag = m.tag
  OBVIOUS
<1>4. \A i \in DOMAIN s : i < n
  BY <1>1
<1>5. CASE m.tag \notin Listens(t)
  <2>1. thr'[t].seen = s
    BY <1>2, <1>5
  <2> QED BY <1>4, <1>5, <2>1 DEF Saw
<1>6. CASE m.tag \in Listens(t)
  <2>1. thr'[t].seen = Append(s, e)
    BY <1>2, <1>6
  <2> HIDE DEF e, m, s
  <2>2. DOMAIN thr'[t].seen = 1..(Len(s) + 1) /\ (\A i \in DOMAIN s : thr'[t].seen[i] = s[i]) /\ thr'[t].seen[Len(s) + 1] = e
    BY <1>1, <2>1
  <2>3. /\ \A i \in DOMAIN thr'[t].seen : i \in DOMAIN s \/ i = Len(s) + 1
        /\ \A i \in DOMAIN s : i \in DOMAIN thr'[t].seen
        /\ Len(s) + 1 \in DOMAIN thr'[t].seen
    BY <1>1, <2>2
  <2>4. n = Len(s) + 1
    BY DEF s
  <2> HIDE DEF n
  <2>5. /\ \A i \in DOMAIN s : i \in DOMAIN thr'[t].seen /\ thr'[t].seen[i] = s[i] /\ i < n
        /\ \A i \in DOMAIN thr'[t].seen : \/ i \in DOMAIN s /\ thr'[t].seen[i] = s[i]
                                          \/ i = n /\ m.tag \in Listens(t) /\ thr'[t].seen[i].tag = m.tag
    BY <1>3, <1>4, <1>6, <2>2, <2>3, <2>4
  <2>6. ASSUME NEW x PROVE Saw(t, x)' <=> Saw(t, x) \/ m.tag = x
    <3>1. Saw(t, x) <=> \E i \in DOMAIN s : s[i].tag = x
      BY DEF Saw, s
    <3> QED BY <1>3, <2>2, <2>3, <3>1 DEF Saw
  <2> QED BY <1>6, <2>5, <2>6 DEF s, m, n
<1> QED BY <1>5, <1>6

\* The client takes a message.
LEMMA MessageKept ==
  ASSUME HeadInv, NEW t \in Thread, thr[t].cmd = "close", Delivers(t), OnMessage
  PROVE  Delivers(t)'
<1> DEFINE m == Head(wire)
           s == thr[t].seen
           n == Len(thr[t].seen) + 1
<1>0. TypeOK
  BY DEF HeadInv
<1>1. wire # <<>> /\ wire' = Tail(wire) /\ head' = head /\ txs' = txs
  BY DEF OnMessage, headVars
<1>2. /\ m = wire[1] /\ 1 \in DOMAIN wire /\ DOMAIN wire \subseteq Nat
      /\ \A i \in DOMAIN wire' : i \in Nat /\ i >= 1 /\ i + 1 \in DOMAIN wire /\ wire'[i] = wire[i + 1]
      /\ \A i \in DOMAIN wire : i > 1 => i - 1 \in DOMAIN wire'
      /\ \A i \in DOMAIN wire : i = 1 \/ i > 1
      /\ \A tag : OnWire(tag) <=> m.tag = tag \/ OnWire(tag)'
  BY <1>0, <1>1, Popped
<1>3. /\ thr'[t].pc = thr[t].pc /\ thr'[t].do = thr[t].do
      /\ thr'[t].no = thr[t].no /\ thr'[t].try = thr[t].try /\ thr'[t].lost = thr[t].lost
  BY <1>0, Hears
<1>4. /\ \A i \in DOMAIN s : i \in DOMAIN thr'[t].seen /\ thr'[t].seen[i] = s[i] /\ i < n
      /\ \A i \in DOMAIN thr'[t].seen : \/ i \in DOMAIN s /\ thr'[t].seen[i] = s[i]
                                        \/ i = n /\ m.tag \in Listens(t) /\ thr'[t].seen[i].tag = m.tag
      /\ \A x : Saw(t, x)' <=> Saw(t, x) \/ (m.tag = x /\ m.tag \in Listens(t))
  BY <1>0, SeenNow
<1> HIDE DEF m, n
<1>5. (Attempting(t)' <=> Attempting(t)) /\ Made(t)' = Made(t) /\ (Gone(thr[t].no)' <=> Gone(thr[t].no))
  BY <1>1, <1>3 DEF Attempting, Made, Gone
<1>6. ASSUME NEW x, x \in Listens(t) PROVE Saw(t, x)' \/ OnWire(x)' <=> Saw(t, x) \/ OnWire(x)
  BY <1>2, <1>4, <1>6
<1>7. ASSUME Attempting(t)
      PROVE  /\ head'.st = "Closed" <=> Saw(t, "HeadIsClosed")' \/ OnWire("HeadIsClosed")'
             /\ SeenOrdered(t)' /\ WireOrdered(t)' /\ Counted(t)'
  <2>1. "HeadIsClosed" \in Listens(t) /\ Answers("close") \subseteq Listens(t)
    BY <1>7 DEF Attempting, Listens, Answers, Observed
  <2>2. /\ head.st = "Closed" <=> Saw(t, "HeadIsClosed") \/ OnWire("HeadIsClosed")
        /\ SeenOrdered(t) /\ WireOrdered(t) /\ Counted(t)
    BY <1>7 DEF Delivers, Tries
  <2>3. head'.st = "Closed" <=> Saw(t, "HeadIsClosed")' \/ OnWire("HeadIsClosed")'
    BY <1>1, <1>6, <2>1, <2>2
  <2>4. SeenOrdered(t)'
    <3> SUFFICES ASSUME NEW i \in DOMAIN thr'[t].seen, thr'[t].seen[i].tag = "CommandFailed"
                 PROVE  \E j \in DOMAIN thr'[t].seen : j < i /\ thr'[t].seen[j].tag = "HeadIsClosed"
      BY DEF SeenOrdered
    <3>1. CASE i \in DOMAIN s /\ thr'[t].seen[i] = s[i]
      BY <1>4, <2>2, <3>1 DEF SeenOrdered
    <3>2. CASE i = n /\ thr'[t].seen[i].tag = m.tag
      <4>1. Saw(t, "HeadIsClosed")
        <5>1. ASSUME NEW j \in DOMAIN wire, j < 1 PROVE FALSE
          BY <1>2, <5>1
        <5> QED BY <1>2, <2>2, <3>2, <5>1 DEF WireOrdered
      <4> QED BY <1>4, <3>2, <4>1 DEF Saw
    <3> QED BY <1>4, <3>1, <3>2
  <2>5. WireOrdered(t)'
    <3> SUFFICES ASSUME NEW i \in DOMAIN wire', wire'[i].tag = "CommandFailed", ~Saw(t, "HeadIsClosed")'
                 PROVE  \E j \in DOMAIN wire' : j < i /\ wire'[j].tag = "HeadIsClosed"
      BY DEF WireOrdered
    <3>1. i \in Nat /\ i + 1 \in DOMAIN wire /\ wire[i + 1].tag = "CommandFailed" /\ ~Saw(t, "HeadIsClosed")
      BY <1>2, <1>4
    <3>2. PICK j \in DOMAIN wire : j < i + 1 /\ wire[j].tag = "HeadIsClosed"
      BY <2>2, <3>1 DEF WireOrdered
    <3>3. j # 1
      BY <1>2, <1>4, <2>1, <3>2
    <3>4. j \in Nat /\ j > 1 /\ j - 1 \in DOMAIN wire'
      BY <1>2, <3>3
    <3>5. wire'[j - 1] = wire[j - 1 + 1] /\ j - 1 + 1 = j /\ j - 1 < i
      BY <1>2, <3>1, <3>2, <3>4
    <3> QED BY <3>2, <3>4, <3>5
  <2>6. Answered(t) => Answered(t)'
    BY <1>6, <2>1 DEF Answered
  <2>7. Counted(t)'
    BY <1>1, <1>3, <1>5, <2>2, <2>6 DEF Counted
  <2> QED BY <2>2, <2>3, <2>4, <2>5, <2>7
<1>8. Tries(t)'
  BY <1>5, <1>7 DEF Tries
<1>9. Sees(t)'
  BY <1>1, <1>3, <1>5 DEF Delivers, Sees
<1>10. Fans(t)'
  <2> SUFFICES ASSUME thr[t].do = "fanout", ~Gone(thr[t].no)
               PROVE  /\ head.ready => ~Refused(t)'
                      /\ thr[t].pc = "ready" /\ head.ready => Saw(t, "ReadyToFanout")' \/ OnWire("ReadyToFanout")'
                      /\ thr[t].pc = "wait" => \/ thr[t].lost >= 1 \/ txs # {}
                                               \/ Saw(t, "PostTxOnChainFailed")' \/ OnWire("PostTxOnChainFailed")'
    BY <1>1, <1>3, <1>5 DEF Delivers, Fans
  <2>1. Refused(t)' => Refused(t)
    BY <1>2, <1>3, <1>4 DEF Refused
  <2>2. thr[t].pc = "ready" => "ReadyToFanout" \in Listens(t)
    BY DEF Listens
  <2>3. thr[t].pc = "wait" => "PostTxOnChainFailed" \in Listens(t)
    BY DEF Listens, Answers, Observed, Refusals
  <2> QED BY <1>6, <2>1, <2>2, <2>3 DEF Delivers, Fans
<1> QED BY <1>8, <1>9, <1>10 DEF Delivers

\* The command comes in.
LEMMA BeginKept ==
  ASSUME HeadInv, OpenInv, NEW t \in Thread, NEW c \in Command, Begin(t, c), Given(t)'
  PROVE  Delivers(t)'
<1>1. /\ Sure("close") /\ head' = head /\ txs' = txs /\ wire' = wire
      /\ thr'[t].no = head.no /\ thr'[t].pc = "send" /\ thr'[t].do = "close" /\ thr'[t].seen = <<>>
      /\ thr'[t].try = 1 /\ thr'[t].lost = 0
  BY Begins DEF HeadInv
<1>2. conn /\ ~OnWire("Greetings") /\ status = "Open" /\ Alone
  BY <1>1 DEF Sure, OnWire
<1>3. txs = {} /\ ~OnWire("CommandFailed")
  BY <1>2 DEF Alone, OnWire, Refusals
<1>4. \A x : OnWire(x)' <=> OnWire(x)
  BY <1>1 DEF OnWire
<1>5. \A x : ~Saw(t, x)'
  BY <1>1 DEF Saw
<1>6. /\ head.st = "Open" \/ OnWire("HeadIsClosed")
      /\ OnWire("HeadIsClosed") => head.st = "Closed" /\ ~head.ready
      /\ head.ready => head.st = "Closed"
  BY <1>2 DEF OpenInv, HeadInv, WireInv
<1>7. SeenOrdered(t)' /\ WireOrdered(t)'
  <2>1. ~OnWire("CommandFailed")'
    BY <1>3, <1>4
  <2> QED BY <1>5, <2>1 DEF SeenOrdered, WireOrdered, Saw, OnWire
<1>8. Counted(t)'
  <2>1. Cardinality(txs') = 0 /\ Made(t)' = 0
    BY <1>1, <1>3, FS_EmptySet DEF Made
  <2> QED BY <1>1, <1>3, <2>1 DEF Counted
<1>9. Tries(t)'
  BY <1>1, <1>4, <1>5, <1>6, <1>7, <1>8 DEF Tries
<1>10. Sees(t)'
  BY <1>1, <1>6 DEF Sees
<1> QED BY <1>1, <1>9, <1>10 DEF Delivers, Fans

\* Close is sent.
LEMMA SendCloseKept ==
  ASSUME HeadInv, IsFiniteSet(txs), NEW t \in Thread, Delivers(t), Send(t), thr[t].do = "close"
  PROVE  Delivers(t)'
<1>0. TypeOK /\ WireInv /\ thr[t] \in Job /\ thr \in [Thread -> Job] /\ thr[t].lost \in Nat /\ thr[t].try \in Nat
      /\ head.st \in {"Idle", "Open", "Closed"}
  BY DEF HeadInv, TypeOK, Job, State
<1>1. At(t, "send") /\ conn /\ head' = head
  BY DEF Send
<1>2. PICK lost \in {0, 1} : Sent(t, lost)
  BY DEF Send
<1>3. /\ thr'[t].pc = "wait" /\ thr'[t].do = thr[t].do /\ thr'[t].no = thr[t].no /\ thr'[t].seen = thr[t].seen
      /\ thr'[t].try = thr[t].try /\ thr'[t].lost = thr[t].lost + lost
  BY <1>0, <1>2 DEF Sent, Job
<1>4. /\ head.st = "Closed" <=> Saw(t, "HeadIsClosed") \/ OnWire("HeadIsClosed")
      /\ SeenOrdered(t) /\ WireOrdered(t) /\ Counted(t)
      /\ head.no = thr[t].no /\ head.st # "Idle" /\ ~head.ready
  BY <1>1 DEF Delivers, Tries, Sees, Attempting, At
<1>5. (\A x : Saw(t, x)' <=> Saw(t, x)) /\ SeenOrdered(t)'
  BY <1>3, <1>4 DEF Saw, SeenOrdered
<1>6. Made(t) = thr[t].try - 1 /\ Made(t)' = thr[t].try
  BY <1>1, <1>3 DEF Made, At
<1>7. Sees(t)'
  BY <1>1, <1>3, <1>4 DEF Sees
<1>8. Fans(t)'
  BY <1>3 DEF Fans
<1>9. CASE Accepts("close", "none") /\ Silent /\ txs' = txs \cup {Tx("close", t, "none")}
  <2> DEFINE y == Tx("close", t, "none")
  <2>1. wire' = wire
    BY <1>9 DEF Silent
  <2>2. (\A x : OnWire(x)' <=> OnWire(x)) /\ WireOrdered(t)'
    BY <1>4, <1>5, <2>1 DEF OnWire, WireOrdered
  <2>3. y.do = "close" /\ y.try = thr[t].try
    BY DEF Tx
  <2> HIDE DEF y
  <2>4. \A x \in txs : x.do = "close" /\ x.try <= thr[t].try - 1
    BY <1>4, <1>6 DEF Counted
  <2>5. y \notin txs
    BY <1>0, <2>3, <2>4
  <2>6. txs' = txs \cup {y} /\ Cardinality(txs) \in Nat /\ Cardinality(txs') = Cardinality(txs) + 1
    BY <1>9, <2>5, FS_AddElement, FS_CardinalityType DEF y
  <2>7. \A x \in txs : x.try \in Nat
    BY <1>0 DEF TypeOK, Transaction
  <2>8. \A x \in txs' : x.do = "close" /\ x.try <= thr[t].try
    BY <1>0, <2>3, <2>4, <2>6, <2>7
  <2>9. Answered(t)' \/ thr'[t].lost + Cardinality(txs') >= thr[t].try
    <3>1. CASE Answered(t)
      BY <1>5, <2>2, <3>1 DEF Answered
    <3>2. CASE thr[t].lost + Cardinality(txs) >= thr[t].try - 1
      BY <1>0, <1>3, <2>6, <3>2
    <3> QED BY <1>4, <1>6, <3>1, <3>2 DEF Counted
  <2>10. Counted(t)'
    BY <1>6, <2>8, <2>9 DEF Counted
  <2>11. Tries(t)'
    BY <1>1, <1>4, <1>5, <2>2, <2>10 DEF Tries
  <2> QED BY <1>7, <1>8, <2>11 DEF Delivers
<1>10. ASSUME NEW tag \in {"CommandFailed", "RejectedInputBecauseUnsynced"}, Emit(tag, "none"), txs' = txs,
              tag = "CommandFailed" => head.st = "Closed"
       PROVE  Delivers(t)'
  <2>1. /\ \A i \in DOMAIN wire : i \in DOMAIN wire' /\ wire'[i] = wire[i]
        /\ \A i \in DOMAIN wire' : \/ i \in DOMAIN wire /\ wire'[i] = wire[i]
                                   \/ wire'[i].tag = tag /\ \A j \in DOMAIN wire : j < i
        /\ \A x : (OnWire(x) => OnWire(x)') /\ (OnWire(x)' => OnWire(x) \/ x = tag)
        /\ OnWire(tag)'
    BY <1>0, <1>1, <1>10, Told
  <2>2. Answered(t)'
    BY <2>1 DEF Answered, Answers, Refusals
  <2>3. WireOrdered(t)'
    <3> SUFFICES ASSUME NEW i \in DOMAIN wire', wire'[i].tag = "CommandFailed", ~Saw(t, "HeadIsClosed")'
                 PROVE  \E j \in DOMAIN wire' : j < i /\ wire'[j].tag = "HeadIsClosed"
      BY DEF WireOrdered
    <3>1. ~Saw(t, "HeadIsClosed")
      BY <1>5
    <3>2. CASE i \in DOMAIN wire /\ wire'[i] = wire[i]
      BY <1>4, <2>1, <3>1, <3>2 DEF WireOrdered
    <3>3. CASE wire'[i].tag = tag /\ \A j \in DOMAIN wire : j < i
      BY <1>4, <1>10, <2>1, <3>1, <3>3 DEF OnWire
    <3> QED BY <2>1, <3>2, <3>3
  <2>4. \A x \in txs : x.do = "close" /\ x.try <= thr[t].try
    <3>1. \A x \in txs : x.try \in Nat
      BY <1>0 DEF TypeOK, Transaction
    <3> QED BY <1>0, <1>4, <1>6, <3>1 DEF Counted
  <2>5. Counted(t)'
    BY <1>6, <1>10, <2>2, <2>4 DEF Counted
  <2>6. Tries(t)'
    BY <1>1, <1>4, <1>5, <1>10, <2>1, <2>3, <2>5 DEF Tries
  <2> QED BY <1>7, <1>8, <2>6 DEF Delivers
<1>11. ~Accepts("close", "none") => head.st = "Closed"
  BY <1>0, <1>4 DEF Accepts
<1> QED BY <1>9, <1>10, <1>11 DEF Send

\* Fanout is sent.
LEMMA SendFanoutKept ==
  ASSUME HeadInv, NEW t \in Thread, thr[t].cmd = "close", t \notin missed, Delivers(t), Send(t), thr[t].do = "fanout"
  PROVE  Delivers(t)'
<1>0. TypeOK /\ WireInv /\ thr[t] \in Job /\ thr \in [Thread -> Job] /\ thr[t].lost \in Nat
  BY DEF HeadInv, TypeOK, Job
<1>1. At(t, "send") /\ conn /\ head' = head
  BY DEF Send
<1>2. PICK lost \in {0, 1} : Sent(t, lost)
  BY DEF Send
<1>3. /\ thr'[t].pc = "wait" /\ thr'[t].do = "fanout" /\ thr'[t].no = thr[t].no /\ thr'[t].seen = thr[t].seen
      /\ thr'[t].lost = thr[t].lost + lost
  BY <1>0, <1>2 DEF Sent, Job
<1>4. Tries(t)' /\ Sees(t)'
  BY <1>3 DEF Tries, Sees, Attempting
<1>5. ASSUME ~Gone(thr[t].no)
      PROVE  /\ head.st = "Closed" /\ head.ready /\ ~Refused(t)'
             /\ thr'[t].lost >= 1 \/ txs' # {}
  <2>1. head.ready
    <3>1. Trusted(t) /\ ThreadInv(t)
      BY DEF Trusted, Knowing, HeadInv, ThreadsInv
    <3> QED BY <1>1, <1>5, <3>1 DEF ThreadInv, Timely, Ready, At
  <2>2. head.st = "Closed" /\ ~OnWire("CommandFailed") /\ ~Saw(t, "CommandFailed")
    BY <1>1, <1>5, <2>1 DEF Delivers, Fans, Refused, At
  <2>3. Accepts("fanout", "none")
    BY <2>1, <2>2 DEF Accepts
  <2>4. \/ Silent /\ txs' = txs \cup {Tx("fanout", t, "none")}
        \/ Emit("RejectedInputBecauseUnsynced", "none") /\ Sent(t, 1)
    BY <2>3 DEF Send
  <2>5. ~Saw(t, "CommandFailed")'
    BY <1>3, <2>2 DEF Saw
  <2>6. CASE Silent /\ txs' = txs \cup {Tx("fanout", t, "none")}
    <3>1. ~OnWire("CommandFailed")'
      BY <2>2, <2>6 DEF Silent, OnWire
    <3> QED BY <2>1, <2>2, <2>5, <2>6, <3>1 DEF Refused
  <2>7. CASE Emit("RejectedInputBecauseUnsynced", "none") /\ Sent(t, 1)
    <3>1. ~OnWire("CommandFailed")'
      BY <1>0, <2>2, <2>7, Told
    <3>2. thr'[t].lost = thr[t].lost + 1
      BY <1>0, <2>7 DEF Sent, Job
    <3>3. thr'[t].lost >= 1
      BY <1>0, <3>2
    <3> QED BY <2>1, <2>2, <2>5, <3>1, <3>3 DEF Refused
  <2> QED BY <2>4, <2>6, <2>7
<1>6. Fans(t)'
  BY <1>1, <1>3, <1>5 DEF Fans, Gone
<1> QED BY <1>4, <1>6 DEF Delivers

\* The other steps of its own, up to the reply.
LEMMA OwnKept ==
  ASSUME HeadInv, NEW t \in Thread, thr[t].cmd = "close", t \notin missed, Delivers(t),
         head' = head, wire' = wire, txs' = txs,
         \/ CloseAgain(t) /\ thr' = [thr EXCEPT ![t].pc = "send", ![t].try = @ + 1]
         \/ CloseDone(t) /\ Tag(t) = "HeadIsClosed" /\ Goto(t, "look")
         \/ FanoutLooks(t) /\ head.st # "Idle"
         \/ At(t, "ready") /\ Returns(t) /\ Tag(t) = "ReadyToFanout" /\ Goto(t, "mark")
         \/ FanoutMarks(t)
  PROVE  Delivers(t)'
<1>0. TypeOK /\ WireInv /\ thr[t] \in Job /\ thr \in [Thread -> Job] /\ thr[t].try \in Nat
  BY DEF HeadInv, TypeOK, Job
<1>1. \A x : OnWire(x)' <=> OnWire(x)
  BY DEF OnWire
<1>2. CASE CloseAgain(t) /\ thr' = [thr EXCEPT ![t].pc = "send", ![t].try = @ + 1]
  <2>1. At(t, "wait") /\ thr[t].do = "close" /\ Attempting(t)
    BY <1>2 DEF CloseAgain, Attempting, At
  <2>2. /\ thr'[t].pc = "send" /\ thr'[t].do = "close" /\ thr'[t].no = thr[t].no /\ thr'[t].seen = thr[t].seen
        /\ thr'[t].lost = thr[t].lost /\ thr'[t].try = thr[t].try + 1
    BY <1>0, <1>2, <2>1 DEF Job
  <2>3. (\A x : Saw(t, x)' <=> Saw(t, x)) /\ (SeenOrdered(t) => SeenOrdered(t)')
    BY <2>2 DEF Saw, SeenOrdered
  <2>4. Made(t)' = Made(t)
    BY <1>0, <2>1, <2>2 DEF Made, At
  <2>5. (WireOrdered(t) => WireOrdered(t)') /\ (Answered(t) => Answered(t)')
    BY <1>1, <2>3 DEF WireOrdered, Answered
  <2>6. Counted(t) => Counted(t)'
    BY <2>2, <2>4, <2>5 DEF Counted
  <2>7. Tries(t)'
    BY <1>1, <2>1, <2>3, <2>5, <2>6 DEF Delivers, Tries
  <2>8. Sees(t)'
    BY <2>1, <2>2 DEF Delivers, Sees
  <2> QED BY <2>2, <2>7, <2>8 DEF Delivers, Fans
<1>3. CASE CloseDone(t) /\ Tag(t) = "HeadIsClosed" /\ Goto(t, "look")
  <2>1. At(t, "wait") /\ thr[t].do = "close" /\ Attempting(t) /\ Returns(t)
    BY <1>3 DEF CloseDone, Attempting, At
  <2>2. thr'[t].pc = "look" /\ thr'[t].do = "close" /\ thr'[t].no = thr[t].no
    BY <1>0, <1>3, <2>1 DEF Goto, Job
  <2>3. Saw(t, "HeadIsClosed")
    BY <1>0, <1>3, <2>1, FirstFound DEF Saw, Tag
  <2>4. head.st = "Closed" /\ head.no = thr[t].no /\ ~head.ready
    BY <2>1, <2>3 DEF Delivers, Tries, Sees
  <2> QED BY <2>2, <2>4 DEF Delivers, Tries, Sees, Fans, Attempting
<1>4. CASE FanoutLooks(t) /\ head.st # "Idle"
  <2>1. At(t, "look")
    BY <1>4 DEF FanoutLooks
  <2>2. head.st = "Closed" /\ head.no = thr[t].no /\ ~head.ready
    BY <2>1 DEF Delivers, Sees, At
  <2>3. thr'[t].pc = "ready" /\ thr'[t].do = "fanout"
    BY <1>0, <1>4, <2>2 DEF FanoutLooks, Job
  <2> QED BY <2>2, <2>3 DEF Delivers, Tries, Sees, Fans, Attempting
<1>5. CASE At(t, "ready") /\ Returns(t) /\ Tag(t) = "ReadyToFanout" /\ Goto(t, "mark")
  <2>1. thr'[t].pc = "mark" /\ thr'[t].do = thr[t].do /\ thr'[t].no = thr[t].no
    BY <1>0, <1>5 DEF Goto, Job
  <2>2. Refused(t)' => Refused(t)
    BY <1>1, <2>1 DEF Refused
  <2>3. Fans(t)'
    BY <2>1, <2>2 DEF Delivers, Fans, Gone
  <2> QED BY <1>5, <2>1, <2>3 DEF Delivers, Tries, Sees, Attempting, At
<1>6. CASE FanoutMarks(t)
  <2>0. At(t, "mark") /\ thr' = [thr EXCEPT ![t].pc = "send", ![t].seen = <<>>]
    BY <1>6 DEF FanoutMarks
  <2>1. thr'[t].pc = "send" /\ thr'[t].do = thr[t].do /\ thr'[t].no = thr[t].no /\ thr'[t].seen = <<>>
    BY <1>0, <2>0 DEF Job
  <2>2. Refused(t)' => Refused(t)
    BY <1>1, <2>1 DEF Refused, Saw
  <2>3. Fans(t)'
    BY <2>1, <2>2 DEF Delivers, Fans, Gone
  <2> QED BY <2>0, <2>1, <2>3 DEF Delivers, Tries, Sees, Attempting, At
<1> QED BY <1>2, <1>3, <1>4, <1>5, <1>6

\* A step of the thread.
LEMMA ActsKept ==
  ASSUME HeadInv, OpenInv, SoloInv, NEW t \in Thread, CloseInv(t), Acts(t), Given(t)', t \notin missed'
  PROVE  Delivers(t)'
<1>0. TypeOK /\ thr \in [Thread -> Job]
  BY DEF HeadInv, TypeOK
<1>1. ASSUME NEW c \in Command, Begin(t, c) PROVE Delivers(t)'
  BY <1>1, BeginKept
<1>2. CASE \A c \in Command : ~Begin(t, c)
  <2>1. Given(t) /\ thr[t].pc \in {"send", "wait", "look", "ready", "mark"} /\ IsFiniteSet(txs)
    BY <1>0, <1>2, ActsKeeps, GivenActive DEF Given, SoloInv
  <2>2. ASSUME NEW r PROVE ~Reply(t, r)
    <3> SUFFICES ASSUME Reply(t, r) PROVE FALSE
      OBVIOUS
    <3>1. thr'[t] = Done(r)
      BY <1>0 DEF Reply
    <3>2. Done(r).cmd = "none"
      BY DEF Done, New
    <3> QED BY <3>1, <3>2 DEF Given
  <2>3. ASSUME missed' = missed PROVE thr[t].cmd = "close" /\ t \notin missed /\ Delivers(t)
    BY <2>1, <2>3 DEF CloseInv, Given
  <2>4. CASE Send(t)
    <3>1. missed' = missed
      BY <2>4 DEF Send, Silent, Emit
    <3>2. thr[t].do \in {"close", "fanout"}
      BY <2>3, <3>1 DEF Delivers, Sees
    <3> QED BY <2>1, <2>3, <2>4, <3>1, <3>2, SendCloseKept, SendFanoutKept
  <2>5. CASE CloseAgain(t)
    <3>1. thr' = [thr EXCEPT ![t].pc = "send", ![t].try = @ + 1] /\ Local
      BY <2>2, <2>5 DEF CloseAgain
    <3> QED BY <2>3, <2>5, <3>1, OwnKept DEF Local, headVars, sockVars
  <2>6. CASE CloseDone(t)
    <3>1. Tag(t) = "HeadIsClosed" /\ Goto(t, "look")
      BY <2>2, <2>6 DEF CloseDone
    <3> QED BY <2>3, <2>6, <3>1, OwnKept DEF Goto, Local, headVars, sockVars
  <2>7. CASE FanoutLooks(t)
    <3>1. head.st # "Idle" /\ Local
      BY <2>2, <2>7 DEF FanoutLooks
    <3> QED BY <2>3, <2>7, <3>1, OwnKept DEF Local, headVars, sockVars
  <2>8. CASE FanoutReady(t)
    <3>1. At(t, "ready") /\ Returns(t) /\ Tag(t) = "ReadyToFanout" /\ Goto(t, "mark")
      BY <2>2, <2>8 DEF FanoutReady
    <3> QED BY <2>3, <3>1, OwnKept DEF Goto, Local, headVars, sockVars
  <2>9. CASE FanoutMarks(t)
    BY <2>3, <2>9, OwnKept DEF FanoutMarks, Local, headVars, sockVars
  <2>10. ~FanoutDone(t) /\ ~Raises(t) /\ ~InitDone(t) /\ ~RecoverDone(t) /\ ~DepositTimesOut(t)
    BY <2>2 DEF FanoutDone, Raises, InitDone, RecoverDone, DepositTimesOut, Concludes
  <2>11. /\ ~DepositDraft(t) /\ ~DepositSubmit(t) /\ ~DepositSubmitted(t) /\ ~DepositStage(t) /\ ~DepositGet(t)
         /\ ~DepositAssign(t) /\ ~RecoverCommits(t) /\ ~RecoverDelete(t)
    BY <2>1 DEF DepositDraft, DepositSubmit, DepositSubmitted, DepositStage, DepositGet, DepositAssign,
                RecoverCommits, RecoverDelete, At
  <2> QED BY <1>2, <2>4, <2>5, <2>6, <2>7, <2>8, <2>9, <2>10, <2>11 DEF Acts
<1> QED BY <1>1, <1>2

\* Each step keeps what a close relies on.
LEMMA CloseStep ==
  ASSUME HeadInv, OpenInv, SoloInv, NEW t \in Thread, CloseInv(t), [Next]_vars
  PROVE  CloseInv(t)'
<1> SUFFICES ASSUME Given(t)', t \notin missed' PROVE Delivers(t)'
  BY DEF CloseInv
<1>0. TypeOK /\ WireInv /\ thr \in [Thread -> Job]
  BY DEF HeadInv, TypeOK
<1>1. CASE UNCHANGED vars
  <2>1. head' = head /\ thr' = thr /\ wire' = wire /\ missed' = missed /\ txs' = txs
    BY <1>1 DEF vars, headVars, sockVars
  <2>2. Delivers(t)
    BY <2>1 DEF CloseInv, Given
  <2>3. (\A x : OnWire(x)' <=> OnWire(x)) /\ (WireOrdered(t) => WireOrdered(t)')
    BY <2>1 DEF OnWire, WireOrdered, Saw
  <2> QED BY <2>1, <2>2, <2>3, Quiet
<1>2. CASE Acts(t)
  BY <1>2, ActsKept
<1>3. ASSUME Next, ~Acts(t), ~ClientRestart
      PROVE  /\ Given(t) /\ Active(t) /\ thr[t].cmd = "close" /\ Solo(t) /\ IsFiniteSet(txs)
             /\ \A u \in Thread : ~Acts(u)
             /\ t \notin missed => Delivers(t)
  <2>1. Given(t)
    BY <1>0, <1>3, Passive DEF Given
  <2>2. Active(t) /\ Solo(t) /\ IsFiniteSet(txs)
    BY <1>0, <2>1, GivenActive DEF Given, SoloInv
  <2>3. ASSUME NEW u \in Thread \ {t} PROVE ~Acts(u)
    BY <1>0, <2>2, <2>3, ActsKeeps, BeginsOther DEF Solo
  <2> QED BY <1>3, <2>1, <2>2, <2>3 DEF CloseInv, Given
<1>4. ASSUME Next, ~Acts(t), ~ClientRestart, NEW tag, NEW of, Emit(tag, of) PROVE t \notin missed /\ Delivers(t)
  BY <1>0, <1>3, <1>4, Told
<1>5. ~ClientRestart
  <2> SUFFICES ASSUME ClientRestart PROVE FALSE
    OBVIOUS
  <2>1. thr'[t] = IF Active(t) THEN Done("dead") ELSE thr[t]
    BY DEF ClientRestart
  <2>2. Done("dead").cmd = "none"
    BY DEF Done, New
  <2> QED BY <1>0, <2>1, <2>2, GivenActive DEF Given
<1>6. CASE Next /\ ~Acts(t)
  <2>0. Given(t) /\ Active(t) /\ thr[t].cmd = "close" /\ Solo(t) /\ IsFiniteSet(txs) /\ \A u \in Thread : ~Acts(u)
    BY <1>3, <1>5, <1>6
  <2>1. CASE Observes
    <3>1. \E do, of : Emit(Observed[do], of)
      BY <2>1 DEF Observes, Observe
    <3> QED BY <1>4, <1>5, <1>6, <2>0, <2>1, <3>1, ObservedKept
  <2>2. CASE Deadline
    <3>1. Emit("ReadyToFanout", "none")
      BY <2>2 DEF Deadline
    <3> QED BY <1>4, <1>5, <1>6, <2>0, <2>2, <3>1, DeadlineKept
  <2>3. ASSUME NEW x \in txs, Fail(x) PROVE Delivers(t)'
    <3>1. Emit("PostTxOnChainFailed", "none") /\ head' = head /\ thr' = thr /\ txs' \subseteq txs
      BY <2>3 DEF Fail
    <3> QED BY <1>0, <1>4, <1>5, <1>6, <2>0, <3>1, NewsKept
  <2>4. ASSUME NEW x \in txs, Expire(x) PROVE Delivers(t)'
    <3>1. missed' = missed
      BY <2>4 DEF Expire
    <3> QED BY <1>3, <1>5, <1>6, <2>0, <2>4, <3>1, ExpireKept
  <2>5. ASSUME NEW p \in Party, NEW s \in Stages, DepositMoves(p, s) PROVE Delivers(t)'
    <3>1. head' = head /\ thr' = thr /\ txs' = txs /\ \E of : Emit(s[3], of)
      BY <2>5 DEF DepositMoves
    <3>2. s[3] \notin {"HeadIsClosed", "CommandFailed"}
      BY DEF Stages
    <3> QED BY <1>0, <1>4, <1>5, <1>6, <2>0, <3>1, <3>2, NewsKept
  <2>6. ASSUME head' = head, thr' = thr, txs' = txs, wire' = wire, missed' = missed PROVE Delivers(t)'
    <3>1. (\A x : OnWire(x)' <=> OnWire(x)) /\ (WireOrdered(t) => WireOrdered(t)')
      BY <2>6 DEF OnWire, WireOrdered, Saw
    <3> QED BY <1>3, <1>5, <1>6, <2>6, <3>1, Quiet
  <2>7. CASE PeerDeposits
    BY <2>6, <2>7 DEF PeerDeposits, sockVars
  <2>8. CASE Snapshot
    <3>1. Emit("SnapshotConfirmed", "none") /\ head' = head /\ thr' = thr /\ txs' = txs
      BY <2>8 DEF Snapshot, headVars
    <3> QED BY <1>0, <1>4, <1>5, <1>6, <2>0, <3>1, NewsKept
  <2>9. CASE OnOpen
    <3> DEFINE m == Msg("Greetings", "none")
    <3>1. wire = <<>> /\ wire' = <<m>> /\ m.tag = "Greetings" /\ head' = head /\ thr' = thr /\ txs' = txs /\ missed' = missed
      BY <1>0, <2>9 DEF OnOpen, WireInv, Msg, headVars
    <3> HIDE DEF m
    <3>2. (\A x : OnWire(x)' <=> x = "Greetings") /\ (\A x : ~OnWire(x))
      BY <1>0, <3>1, OneMessage, EmptyWire
    <3>3. WireOrdered(t)'
      BY <3>2 DEF WireOrdered, OnWire
    <3> QED BY <1>3, <1>5, <1>6, <3>1, <3>2, <3>3, Quiet
  <2>10. CASE OnClose
    <3>1. wire = <<>>
      BY <2>0, <2>10 DEF OnClose, Missing
    <3> QED BY <2>6, <2>10, <3>1 DEF OnClose, headVars
  <2>11. CASE OnMessage
    <3>1. missed' = missed
      BY <2>11 DEF OnMessage
    <3> QED BY <1>3, <1>5, <1>6, <2>0, <2>11, <3>1, MessageKept
  <2> QED BY <1>0, <1>5, <1>6, <2>0, <2>1, <2>2, <2>3, <2>4, <2>5, <2>7, <2>8, <2>9, <2>10, <2>11, Steps
<1> QED BY <1>1, <1>2, <1>6

-----------------------------------------------------------------------------
(* The end of a close.                                                     *)

LEMMA CloseInvCorrect == Spec => [](HeadInv /\ SoloInv /\ \A t \in Thread : CloseInv(t))
<1> DEFINE I == OpenInv /\ SoloInv /\ \A t \in Thread : CloseInv(t)
<1>1. Init => I
  <2> SUFFICES ASSUME Init PROVE I
    OBVIOUS
  <2>1. DOMAIN wire = {} /\ (\A x : ~OnWire(x)) /\ status = "unknown" /\ txs = {}
    BY EmptyWire DEF Init
  <2>2. OpenInv
    BY <2>1 DEF OpenInv
  <2>3. ASSUME NEW t \in Thread PROVE ~Given(t)
    <3>1. thr[t] = New
      BY DEF Init
    <3> QED BY <3>1 DEF New, Given
  <2>4. IsFiniteSet(txs)
    BY <2>1, FS_EmptySet
  <2> QED BY <2>2, <2>3, <2>4 DEF SoloInv, CloseInv
<1>2. HeadInv /\ I /\ [Next]_vars => I'
  <2> SUFFICES ASSUME HeadInv, I, [Next]_vars PROVE I'
    OBVIOUS
  <2>1. TypeOK /\ WireInv
    BY DEF HeadInv
  <2>2. OpenInv'
    BY <2>1, OpenStep
  <2>3. SoloInv'
    BY <2>1, SoloStep
  <2>4. ASSUME NEW t \in Thread PROVE CloseInv(t)'
    BY CloseStep
  <2> QED BY <2>2, <2>3, <2>4
<1>3. I => SoloInv /\ \A t \in Thread : CloseInv(t)
  OBVIOUS
<1> HIDE DEF I
<1> QED BY <1>1, <1>2, <1>3, HeadInvCorrect, PTL DEF Spec

\* Nothing that is awaited comes before what wait_for returns.
LEMMA FirstIs ==
  ASSUME TypeOK, NEW t \in Thread, Returns(t)
  PROVE  First(t) \in Found(t) /\ \A j \in Found(t) : First(t) <= j
<1>1. Found(t) \in SUBSET Nat /\ Found(t) # {}
  BY DEF Found, Returns, TypeOK, Job
<1> QED BY <1>1, Least DEF First

\* What has come to an end without a word is counted.
LEMMA Nothing ==
  ASSUME HeadInv, NEW t \in Thread, Solo(t), TimesOut(t), ~UnderWay(t)
  PROVE  /\ txs = {} /\ (\A x : ~OnWire(x)) /\ \A x \in Awaited(t) : ~Saw(t, x)
         /\ ~(At(t, "ready") /\ head.st = "Closed" /\ ~head.ready)
<1>1. wire = <<>> /\ ~(At(t, "ready") /\ head.st = "Closed" /\ ~head.ready)
  BY DEF UnderWay
<1>2. txs = {}
  BY DEF UnderWay, Solo
<1>3. \A x \in Awaited(t) : ~Saw(t, x)
  BY DEF TimesOut, Found, Saw
<1> QED BY <1>1, <1>2, <1>3, EmptyWire

\* How a close may end.
LEMMA EndsWell ==
  ASSUME HeadInv, SoloInv, NEW t \in Thread, CloseInv(t), Next, Ends(t), thr[t].cmd = "close", thr[t].sure, t \notin missed
  PROVE  \/ Gone(thr[t].no)
         \/ thr'[t].reply \in {"RejectedInputBecauseUnsynced", "PostTxOnChainFailed", "exception", "dead"}
         \/ thr'[t].reply = "none" /\ thr[t].lost >= (IF thr[t].do = "close" THEN Attempts ELSE 1)
<1> DEFINE Good == \/ Gone(thr[t].no)
                   \/ thr'[t].reply \in {"RejectedInputBecauseUnsynced", "PostTxOnChainFailed", "exception", "dead"}
                   \/ thr'[t].reply = "none" /\ thr[t].lost >= (IF thr[t].do = "close" THEN Attempts ELSE 1)
<1> SUFFICES Good
  OBVIOUS
<1>0. TypeOK /\ thr \in [Thread -> Job] /\ thr[t] \in Job /\ thr[t].lost \in Nat /\ thr[t].try \in Nat
  BY DEF HeadInv, TypeOK, Job
<1>1. Delivers(t) /\ Solo(t) /\ thr[t].pc \in {"send", "wait", "look", "ready", "mark"} /\ thr'[t].pc = "done"
  BY <1>0, GivenActive DEF CloseInv, SoloInv, Given, Ends
<1>2. Trusted(t) /\ ThreadInv(t)
  BY DEF Trusted, Knowing, HeadInv, ThreadsInv
<1>3. ASSUME NEW p, Goto(t, p), p # "done" PROVE FALSE
  BY <1>0, <1>1, <1>3 DEF Goto, Job
<1>4. ASSUME NEW r, Reply(t, r) PROVE thr'[t].reply = r
  BY <1>4, ReplyThread DEF Reply, headVars
<1>5. ASSUME Returns(t) PROVE Saw(t, Tag(t)) /\ Tag(t) \in Awaited(t)
  BY <1>0, <1>5, FirstFound DEF Saw, Tag
<1>6. CASE Raises(t)
  BY <1>4, <1>6 DEF Raises
<1>7. CASE CloseAgain(t)
  <2>1. At(t, "wait") /\ thr[t].do = "close" /\ TimesOut(t)
    BY <1>7 DEF CloseAgain
  <2>2. thr[t].try = Attempts /\ Reply(t, "none")
    <3>1. ~(thr' = [thr EXCEPT ![t].pc = "send", ![t].try = @ + 1])
      BY <1>0, <1>1 DEF Job
    <3> QED BY <1>7, <3>1 DEF CloseAgain
  <2>3. ~UnderWay(t)
    BY <1>0, <2>1, <2>2 DEF TimesOut
  <2>4. txs = {} /\ (\A x : ~OnWire(x)) /\ \A x \in Awaited(t) : ~Saw(t, x)
    BY <1>1, <2>1, <2>3, Nothing
  <2>5. Awaited(t) = Answers("close")
    BY <2>1 DEF Awaited, At
  <2>6. ~Answered(t)
    BY <2>4, <2>5 DEF Answered
  <2>7. Made(t) = Attempts /\ Cardinality(txs) = 0
    BY <2>1, <2>2, <2>4, FS_EmptySet DEF Made, At
  <2>8. Counted(t)
    BY <1>1, <2>1 DEF Delivers, Tries, Attempting, At
  <2>9. thr[t].lost >= Attempts
    BY <1>0, <2>6, <2>7, <2>8 DEF Counted
  <2> QED BY <1>4, <2>1, <2>2, <2>9
<1>8. CASE CloseDone(t)
  <2>1. At(t, "wait") /\ thr[t].do = "close" /\ Returns(t) /\ Tag(t) # "HeadIsClosed" /\ Reply(t, Tag(t))
    BY <1>3, <1>8 DEF CloseDone
  <2>2. Awaited(t) = Answers("close")
    BY <2>1 DEF Awaited, At
  <2>3. Tag(t) # "CommandFailed"
    <3> SUFFICES ASSUME Tag(t) = "CommandFailed" PROVE FALSE
      OBVIOUS
    <3>1. SeenOrdered(t)
      BY <1>1, <2>1 DEF Delivers, Tries, Attempting, At
    <3>2. First(t) \in Found(t) /\ (\A j \in Found(t) : First(t) <= j) /\ First(t) \in DOMAIN thr[t].seen
      BY <1>0, <2>1, FirstIs, FirstFound
    <3>3. PICK j \in DOMAIN thr[t].seen : j < First(t) /\ thr[t].seen[j].tag = "HeadIsClosed"
      BY <3>1, <3>2 DEF SeenOrdered, Tag
    <3>4. j \in Found(t)
      BY <2>2, <3>3 DEF Found, Answers, Observed
    <3>5. DOMAIN thr[t].seen \subseteq Nat
      BY <1>0 DEF Job
    <3> QED BY <3>2, <3>3, <3>4, <3>5
  <2>4. Tag(t) \in {"RejectedInputBecauseUnsynced", "PostTxOnChainFailed"}
    BY <1>5, <2>1, <2>2, <2>3 DEF Answers, Observed, Refusals
  <2> QED BY <1>4, <2>1, <2>4
<1>9. CASE FanoutLooks(t)
  <2>1. CASE head.st = "Idle"
    BY <2>1 DEF Gone
  <2>2. CASE head.st # "Idle"
    BY <1>0, <1>1, <1>9, <2>2 DEF FanoutLooks, Job
  <2> QED BY <2>1, <2>2
<1>10. CASE FanoutReady(t)
  <2>0. At(t, "ready") /\ thr[t].do = "fanout"
    BY <1>1, <1>10 DEF FanoutReady, Delivers, Sees, At
  <2>1. Awaited(t) = {"ReadyToFanout", "HeadIsFinalized"}
    BY <2>0 DEF Awaited, At
  <2>2. CASE Returns(t) /\ Tag(t) # "ReadyToFanout"
    <3>1. Saw(t, "HeadIsFinalized")
      BY <1>5, <2>1, <2>2
    <3> QED BY <1>2, <2>0, <3>1 DEF ThreadInv, Waits, At
  <2>3. CASE TimesOut(t)
    <3>1. ~UnderWay(t)
      BY <2>0, <2>3 DEF TimesOut, At
    <3>2. ~OnWire("ReadyToFanout") /\ ~Saw(t, "ReadyToFanout") /\ ~(head.st = "Closed" /\ ~head.ready)
      BY <1>1, <2>0, <2>1, <2>3, <3>1, Nothing
    <3>3. Gone(thr[t].no)
      BY <1>1, <2>0, <3>2 DEF Delivers, Fans, At
    <3> QED BY <3>3
  <2> QED BY <1>3, <1>10, <2>2, <2>3 DEF FanoutReady
<1>11. CASE FanoutDone(t)
  <2> SUFFICES ASSUME ~Gone(thr[t].no) PROVE Good
    OBVIOUS
  <2>0. At(t, "wait") /\ thr[t].do = "fanout"
    BY <1>11 DEF FanoutDone
  <2>1. Awaited(t) = {"HeadIsFinalized", "CommandFailed", "PostTxOnChainFailed"}
    BY <2>0 DEF Awaited, At, Answers, Observed, Refusals
  <2>2. /\ head.ready /\ ~Refused(t)
        /\ thr[t].lost >= 1 \/ txs # {} \/ Saw(t, "PostTxOnChainFailed") \/ OnWire("PostTxOnChainFailed")
    BY <1>1, <2>0 DEF Delivers, Fans, At
  <2>3. CASE Returns(t) /\ Reply(t, Tag(t))
    <3>1. ~Saw(t, "HeadIsFinalized")
      BY <1>2, <2>0 DEF ThreadInv, Final, At
    <3>2. ~Saw(t, "CommandFailed")
      BY <2>0, <2>2 DEF Refused, At
    <3>3. Tag(t) = "PostTxOnChainFailed"
      BY <1>5, <2>1, <2>3, <3>1, <3>2
    <3> QED BY <1>4, <2>3, <3>3
  <2>4. CASE TimesOut(t) /\ Reply(t, "none")
    <3>1. ~UnderWay(t)
      BY <2>0, <2>4 DEF TimesOut
    <3>2. thr[t].lost >= 1
      BY <1>1, <2>1, <2>2, <2>4, <3>1, Nothing
    <3> QED BY <1>4, <2>0, <2>4, <3>2
  <2> QED BY <1>11, <2>3, <2>4 DEF FanoutDone, Concludes
<1>12. ~FanoutMarks(t) /\ ~Send(t)
  <2>1. ~FanoutMarks(t)
    BY <1>0, <1>1 DEF FanoutMarks, Job
  <2>2. ASSUME NEW lost, Sent(t, lost) PROVE FALSE
    BY <1>0, <1>1, <2>2 DEF Sent, Job
  <2> QED BY <2>1, <2>2 DEF Send
<1>13. ~InitDone(t) /\ \A c \in Command : ~Begin(t, c)
  BY <1>1 DEF InitDone, Begin, At, Delivers, Sees
<1>14. /\ ~DepositDraft(t) /\ ~DepositSubmit(t) /\ ~DepositSubmitted(t) /\ ~DepositStage(t) /\ ~DepositGet(t)
       /\ ~DepositAssign(t) /\ ~DepositTimesOut(t) /\ ~RecoverCommits(t) /\ ~RecoverDelete(t) /\ ~RecoverDone(t)
  BY <1>1 DEF DepositDraft, DepositSubmit, DepositSubmitted, DepositStage, DepositGet, DepositAssign,
              DepositTimesOut, RecoverCommits, RecoverDelete, RecoverDone, At
<1>15. CASE Acts(t)
  <2> HIDE DEF Good
  <2> QED BY <1>6, <1>7, <1>8, <1>9, <1>10, <1>11, <1>12, <1>13, <1>14, <1>15 DEF Acts
<1>16. CASE ClientRestart
  <2>1. thr'[t] = Done("dead")
    BY <1>16 DEF ClientRestart, Ends
  <2>2. Done("dead").reply = "dead"
    BY DEF Done, New
  <2> QED BY <2>1, <2>2
<1>17. ASSUME ~Acts(t), ~ClientRestart PROVE FALSE
  <2>1. thr'[t].pc = thr[t].pc
    BY <1>0, <1>17, Passive
  <2> QED BY <1>1, <2>1
<1> QED BY <1>15, <1>16, <1>17

\* `close' keeps its promise (cmd_close, "closes, waits for the deadline and
\* fans out"): given alone of a head the client knew to be open, and with no
\* event missed, it ends with that head fanned out, unless an input was refused
\* while the node was not synced, a transaction lost a race, the connection was
\* gone, or every close, or the fanout, came to nothing without a word.
THEOREM DeliverCorrect == Spec => CloseDelivers
<1> DEFINE A == \A t \in Thread :
                  Ends(t) /\ thr[t].cmd = "close" /\ thr[t].sure /\ t \notin missed
                    => \/ Gone(thr[t].no)
                       \/ thr'[t].reply \in {"RejectedInputBecauseUnsynced", "PostTxOnChainFailed", "exception", "dead"}
                       \/ thr'[t].reply = "none" /\ thr[t].lost >= (IF thr[t].do = "close" THEN Attempts ELSE 1)
           I == HeadInv /\ SoloInv /\ \A t \in Thread : CloseInv(t)
<1>1. I /\ Next => A
  BY EndsWell
<1>2. I /\ [Next]_vars => [A]_vars
  BY <1>1
<1>3. [][A]_vars => CloseDelivers
  BY PTL DEF CloseDelivers
<1>4. Spec => []I
  BY CloseInvCorrect
<1> HIDE DEF A, I
<1> QED BY <1>2, <1>3, <1>4, PTL DEF Spec

=============================================================================
