------------------------- MODULE HydraDepositProofs -------------------------
(***************************************************************************)
(* Proof that a deposit the client replies OK to is in the head and can be *)
(* paid from, for every number of control threads, heads, messages on the  *)
(* websocket and attempts.                                                 *)
(***************************************************************************)
EXTENDS HydraHeadProofs

-----------------------------------------------------------------------------
(* Layer 1.                                                                *)

\* The deposit of the client is in the head n, or that head is gone.
Kept(n) == dep["me"] = "final" \/ Gone(n)

LEMMA ActsDep ==
  ASSUME NEW t \in Thread, Acts(t)
  PROVE  DepositSubmit(t) \/ dep' = dep
<1> USE DEF Reply, Goto, Local, headVars, Concludes
<1>1. CASE DepositAssign(t) \/ CloseAgain(t) \/ CloseDone(t) \/ FanoutLooks(t) \/ FanoutReady(t) \/ FanoutMarks(t)
           \/ FanoutDone(t) \/ Raises(t) \/ InitDone(t)
  BY <1>1 DEF DepositAssign, CloseAgain, CloseDone, FanoutLooks, FanoutReady, FanoutMarks, FanoutDone, Raises, InitDone
<1>2. CASE DepositDraft(t) \/ DepositSubmitted(t) \/ DepositStage(t) \/ DepositTimesOut(t) \/ DepositGet(t)
           \/ RecoverCommits(t) \/ RecoverDelete(t) \/ RecoverDone(t) \/ Send(t)
  BY <1>2 DEF DepositDraft, DepositSubmitted, DepositStage, Expired, NextStage, DepositTimesOut, DepositGet,
              RecoverCommits, RecoverDelete, RecoverDone, Send
<1>3. ASSUME NEW c \in Command, Begin(t, c) PROVE dep' = dep
  BY <1>3 DEF Begin
<1> QED BY <1>1, <1>2, <1>3 DEF Acts

\* It stays there: a deposit in the head leaves it with the fan-out only.
LEMMA KeptStays ==
  ASSUME TypeOK, [Next]_vars, NEW n \in Nat, n <= head.no
  PROVE  /\ Kept(n) => Kept(n)'
         /\ Gone(n) => Gone(n)'
         /\ dep["me"] = "final" => dep'["me"] = "final" \/ head'.st = "Idle"
<1>0. head \in [no : 0..setup.heads, st : State, ready : BOOLEAN] /\ head.no \in Nat
      /\ dep \in [Party -> {"none", "sent", "recorded", "active", "raced", "final", "stale", "expired"}]
      /\ "me" \in Party
  BY HeadAssumption DEF TypeOK, Party
<1> DEFINE Goal == /\ Gone(n) => Gone(n)'
                   /\ dep["me"] = "final" => dep'["me"] = "final" \/ head'.st = "Idle"
<1> SUFFICES Goal
  BY DEF Kept, Gone
<1>1. ASSUME head' = head, dep' = dep PROVE Goal
  BY <1>1 DEF Gone
<1>2. CASE Observes
  <2>1. PICK do \in DOMAIN Observed, of \in Party \cup {"none"} : Observe(do, of) /\ (do # "recover" => of = "none")
    BY <1>2 DEF Observes
  <2>2. dep'["me"] = CASE "me" = of \/ (do = "fanout" /\ dep["me"] = "final") -> "none"
                       [] do = "fanout" /\ dep["me"] \notin {"none", "final", "expired"} -> "stale"
                       [] OTHER -> dep["me"]
    BY <1>0, <2>1 DEF Observe
  <2>3. CASE do = "init"
    <3>1. head'.no = head.no + 1
      BY <2>1, <2>3, ObserveIs
    <3>2. Gone(n)'
      BY <1>0, <3>1 DEF Gone
    <3> QED BY <2>1, <2>2, <2>3, <3>2
  <2>4. CASE do = "close"
    BY <2>1, <2>2, <2>4, ObserveIs DEF Gone
  <2>5. CASE do = "fanout"
    BY <2>1, <2>5, ObserveIs DEF Gone
  <2>6. CASE do = "recover"
    <3>1. dep[of] = "expired" /\ head' = head
      BY <2>1, <2>6, ObserveIs DEF Observe, Accepts
    <3> QED BY <2>2, <2>6, <3>1 DEF Gone
  <2> QED BY <2>3, <2>4, <2>5, <2>6, ObservedType
<1>3. ASSUME head' = head, dep["me"] = "final" => dep'["me"] = "final" PROVE Goal
  BY <1>3 DEF Gone
<1>4. CASE Deadline
  BY <1>0, <1>4 DEF Deadline, Gone
<1>5. ASSUME NEW p \in Party, NEW s \in Stages, DepositMoves(p, s) PROVE Goal
  <2>1. dep[p] = s[1] /\ s[1] # "final" /\ dep' = [dep EXCEPT ![p] = s[2]] /\ head' = head
    BY <1>5 DEF DepositMoves, Stages
  <2> QED BY <1>0, <1>3, <2>1
<1>6. CASE PeerDeposits
  BY <1>0, <1>3, <1>6 DEF PeerDeposits, Party
<1>7. ASSUME NEW t \in Thread, Acts(t) PROVE Goal
  <2>1. head' = head
    BY <1>7, ActsFrame
  <2>2. dep["me"] = "final" => dep'["me"] = "final"
    <3>1. CASE DepositSubmit(t)
      BY <1>0, <3>1 DEF DepositSubmit, Reply, headVars
    <3>2. CASE ~DepositSubmit(t)
      BY <1>7, <3>2, ActsDep
    <3> QED BY <3>1, <3>2
  <2> QED BY <1>3, <2>1, <2>2
<1>8. ASSUME NEW x \in txs, Fail(x) \/ Expire(x) PROVE Goal
  BY <1>1, <1>8 DEF Fail, Expire
<1>9. CASE Snapshot \/ OnOpen \/ OnClose \/ OnMessage \/ ClientRestart \/ UNCHANGED vars
  BY <1>1, <1>9 DEF Snapshot, OnOpen, OnClose, OnMessage, ClientRestart, vars, headVars
<1> QED BY <1>2, <1>4, <1>5, <1>6, <1>7, <1>8, <1>9, Steps

-----------------------------------------------------------------------------
(* The event that tells of a deposit in the head.                          *)

IsFinal(m) == m.tag = "CommitFinalized"

\* On the wire it is somebody's, and if it is the client's, the deposit is in
\* the head, or the head is gone and no other one opened yet.
WireDep == \A i \in DOMAIN wire :
             IsFinal(wire[i]) => /\ wire[i].of # "none"
                                 /\ wire[i].of = "me" => dep["me"] = "final" \/ head.st = "Idle"

\* A message that comes onto the wire.
Fresh(m) == IsFinal(m) => m.of # "none" /\ (m.of = "me" => dep'["me"] = "final")

LEMMA EmitFresh ==
  ASSUME TypeOK, NEW tag, NEW of, Emit(tag, of), Fresh(Msg(tag, of)), NEW i \in DOMAIN wire'
  PROVE  (i \in DOMAIN wire /\ wire'[i] = wire[i]) \/ Fresh(wire'[i])
<1>1. CASE conn
  <2> DEFINE m == Msg(tag, of)
  <2>1. wire' = Append(wire, m)
    BY <1>1 DEF Emit
  <2> HIDE DEF m
  <2>2. /\ DOMAIN wire = 1..Len(wire) /\ DOMAIN wire' = 1..(Len(wire) + 1) /\ Len(wire) \in Nat
        /\ \A k \in DOMAIN wire : wire'[k] = wire[k]
        /\ wire'[Len(wire) + 1] = m
    BY <2>1, Pushed
  <2>3. i \in DOMAIN wire \/ i = Len(wire) + 1
    BY <2>2
  <2> QED BY <2>2, <2>3 DEF m
<1>2. CASE ~conn
  BY <1>2 DEF Emit
<1> QED BY <1>1, <1>2

\* Where the messages on the wire come from.
LEMMA WireFrom ==
  ASSUME TypeOK, Next, NEW i \in DOMAIN wire'
  PROVE  (\E k \in DOMAIN wire : wire'[i] = wire[k]) \/ Fresh(wire'[i])
<1>1. ASSUME NEW tag, NEW of, Emit(tag, of), tag # "CommitFinalized"
      PROVE  (\E k \in DOMAIN wire : wire'[i] = wire[k]) \/ Fresh(wire'[i])
  <2>1. Fresh(Msg(tag, of))
    BY <1>1 DEF Fresh, IsFinal, Msg
  <2> QED BY <1>1, <2>1, EmitFresh
<1>2. CASE wire' = wire
  BY <1>2
<1>3. CASE Observes
  <2>1. PICK do \in DOMAIN Observed, of \in Party \cup {"none"} : Observe(do, of)
    BY <1>3 DEF Observes
  <2>2. Emit(Observed[do], of) /\ Observed[do] # "CommitFinalized"
    BY <2>1 DEF Observe, Observed
  <2> QED BY <1>1, <2>2
<1>4. ASSUME NEW p \in Party, NEW s \in Stages, DepositMoves(p, s)
      PROVE  (\E k \in DOMAIN wire : wire'[i] = wire[k]) \/ Fresh(wire'[i])
  <2> DEFINE of == IF s[2] = "raced" THEN "none" ELSE p
  <2>1. dep' = [dep EXCEPT ![p] = s[2]] /\ Emit(s[3], of)
    BY <1>4 DEF DepositMoves
  <2>2. CASE s[3] = "CommitFinalized"
    <3>1. s[2] = "final"
      BY <2>2 DEF Stages
    <3>2. of = p /\ p # "none" /\ dep'[p] = "final"
      BY <2>1, <3>1 DEF TypeOK, Party
    <3>3. Msg(s[3], of).of = p
      BY <3>2 DEF Msg
    <3>4. Fresh(Msg(s[3], of))
      BY <3>2, <3>3 DEF Fresh
    <3> HIDE DEF of
    <3> QED BY <2>1, <3>4, EmitFresh
  <2>3. CASE s[3] # "CommitFinalized"
    <3> HIDE DEF of
    <3> QED BY <1>1, <2>1, <2>3
  <2> QED BY <2>2, <2>3
<1>5. ASSUME NEW x \in txs, Fail(x) PROVE (\E k \in DOMAIN wire : wire'[i] = wire[k]) \/ Fresh(wire'[i])
  BY <1>1, <1>5 DEF Fail
<1>6. ASSUME NEW x \in txs, Expire(x) PROVE wire' = wire
  BY <1>6 DEF Expire, sockVars
<1>7. CASE Deadline \/ Snapshot
  BY <1>1, <1>7 DEF Deadline, Snapshot
<1>8. CASE PeerDeposits
  BY <1>2, <1>8 DEF PeerDeposits, sockVars
<1>9. CASE OnOpen
  <2>1. wire' = <<Msg("Greetings", "none")>>
    BY <1>9 DEF OnOpen
  <2>2. wire'[i].tag = "Greetings"
    BY <2>1 DEF Msg
  <2> QED BY <2>2 DEF Fresh, IsFinal
<1>10. CASE OnClose \/ ClientRestart
  BY <1>10 DEF OnClose, ClientRestart
<1>11. CASE OnMessage
  BY <1>11, Popped DEF OnMessage
<1>12. ASSUME NEW t \in Thread, Acts(t) PROVE (\E k \in DOMAIN wire : wire'[i] = wire[k]) \/ Fresh(wire'[i])
  <2>1. CASE Send(t)
    BY <1>1, <1>2, <2>1 DEF Send, Silent
  <2> QED BY <1>2, <1>12, <2>1, ActsFrame
<1> QED BY <1>2, <1>3, <1>4, <1>5, <1>6, <1>7, <1>8, <1>9, <1>10, <1>11, <1>12, Steps

\* A head is opened when the wire is empty.
LEMMA IdleStays ==
  ASSUME TypeOK, Next, head.st = "Idle"
  PROVE  head'.st = "Idle" \/ (wire = <<>> /\ \E of : Emit("HeadIsOpen", of))
<1>1. CASE Observes
  <2>1. PICK do \in DOMAIN Observed, of \in Party \cup {"none"} : Observe(do, of)
    BY <1>1 DEF Observes
  <2> QED BY <2>1, ObserveIs, ObservedType DEF Prompt
<1>2. CASE ~Observes
  <2>1. ASSUME NEW t \in Thread, Acts(t) PROVE head' = head
    BY <2>1, ActsFrame
  <2>2. ~Deadline
    BY DEF Deadline
  <2>3. ASSUME NEW p \in Party, NEW s \in Stages, DepositMoves(p, s) PROVE head' = head
    BY <2>3 DEF DepositMoves
  <2>4. ASSUME NEW x \in txs, Fail(x) \/ Expire(x) PROVE head' = head
    BY <2>4 DEF Fail, Expire
  <2>5. CASE PeerDeposits \/ Snapshot \/ OnOpen \/ OnClose \/ OnMessage \/ ClientRestart
    BY <2>5 DEF PeerDeposits, Snapshot, OnOpen, OnClose, OnMessage, ClientRestart, headVars
  <2> QED BY <1>2, <2>1, <2>2, <2>3, <2>4, <2>5, Steps
<1> QED BY <1>1, <1>2

LEMMA WireDepStep ==
  ASSUME TypeOK, WireDep, [Next]_vars
  PROVE  WireDep'
<1>1. CASE UNCHANGED vars
  BY <1>1 DEF vars, headVars, sockVars, WireDep
<1>2. CASE Next
  <2>1. ASSUME NEW i \in DOMAIN wire', IsFinal(wire'[i])
        PROVE  wire'[i].of # "none" /\ (wire'[i].of = "me" => dep'["me"] = "final" \/ head'.st = "Idle")
    <3>1. CASE Fresh(wire'[i])
      BY <2>1, <3>1 DEF Fresh
    <3>2. ASSUME NEW k \in DOMAIN wire, wire'[i] = wire[k]
          PROVE  wire'[i].of # "none" /\ (wire'[i].of = "me" => dep'["me"] = "final" \/ head'.st = "Idle")
      <4>1. wire[k].of # "none" /\ (wire[k].of = "me" => dep["me"] = "final" \/ head.st = "Idle")
        BY <2>1, <3>2 DEF WireDep
      <4>2. head.no \in Nat /\ head.no <= head.no
        BY DEF TypeOK
      <4>3. dep["me"] = "final" => dep'["me"] = "final" \/ head'.st = "Idle"
        BY <4>2, KeptStays
      <4>4. head.st = "Idle" => head'.st = "Idle"
        BY <1>2, <3>2, IdleStays
      <4> QED BY <3>2, <4>1, <4>3, <4>4
    <3> QED BY <1>2, <3>1, <3>2, WireFrom
  <2> QED BY <2>1 DEF WireDep, IsFinal
<1> QED BY <1>1, <1>2

-----------------------------------------------------------------------------
(* The thread of a deposit.                                                *)

\* What it has seen is of its own deposit.
Own(t) == \A i \in DOMAIN thr[t].seen :
            thr[t].seen[i].of # "peer" /\ (IsFinal(thr[t].seen[i]) => thr[t].seen[i].of = "me")

\* Once it has seen the deposit in the head, and has the set that it pays from,
\* the deposit is in both, unless the head is gone.
DepInv(t) ==
  thr[t].cmd = "deposit" /\ ~thr[t].mixed =>
    /\ Own(t)
    /\ (\E i \in DOMAIN thr[t].seen : IsFinal(thr[t].seen[i])) \/ thr[t].pc = "get" => Kept(thr[t].no)
    /\ thr[t].pc = "assign" => Gone(thr[t].no) \/ (dep["me"] = "final" /\ "me" \in thr[t].got)

DepositsInv == WireDep /\ \A t \in Thread : DepInv(t)

\* A thread that has forgotten some of what it saw, or nothing.
LEMMA DepKept ==
  ASSUME HeadInv, [Next]_vars, NEW t \in Thread, DepInv(t),
         thr'[t].cmd = thr[t].cmd, thr'[t].no = thr[t].no, thr'[t].mixed = thr[t].mixed,
         \A i \in DOMAIN thr'[t].seen : \E k \in DOMAIN thr[t].seen : thr'[t].seen[i] = thr[t].seen[k],
         thr'[t].pc = "get" => thr[t].pc = "get" \/ \E i \in DOMAIN thr[t].seen : IsFinal(thr[t].seen[i]),
         thr'[t].pc = "assign" => \/ thr[t].pc = "assign" /\ thr'[t].got = thr[t].got
                                  \/ thr[t].pc = "get" /\ thr'[t].got = {p \in Party : dep[p] = "final"}
                                     /\ dep' = dep /\ head' = head
  PROVE  DepInv(t)'
<1>1. TypeOK /\ thr[t].no \in Nat /\ thr[t].no <= head.no
  BY DEF HeadInv, ThreadsInv, ThreadInv, TypeOK, Job
<1>2. /\ Kept(thr[t].no) => Kept(thr[t].no)'
      /\ Gone(thr[t].no) => Gone(thr[t].no)'
      /\ dep["me"] = "final" => dep'["me"] = "final" \/ head'.st = "Idle"
  <2>1. PICK n \in Nat : n = thr[t].no /\ n <= head.no
    BY <1>1
  <2>2. (Kept(n) => Kept(n)') /\ (Gone(n) => Gone(n)') /\ (dep["me"] = "final" => dep'["me"] = "final" \/ head'.st = "Idle")
    BY <1>1, <2>1, KeptStays
  <2>3. (Kept(n)' <=> Kept(thr[t].no)') /\ (Gone(n)' <=> Gone(thr[t].no)')
    BY <2>1 DEF Kept, Gone
  <2> QED BY <2>1, <2>2, <2>3
<1> SUFFICES ASSUME thr[t].cmd = "deposit", ~thr[t].mixed
             PROVE  /\ Own(t)'
                    /\ (\E i \in DOMAIN thr'[t].seen : IsFinal(thr'[t].seen[i])) \/ thr'[t].pc = "get" => Kept(thr[t].no)'
                    /\ thr'[t].pc = "assign" => Gone(thr[t].no)' \/ (dep'["me"] = "final" /\ "me" \in thr'[t].got)
  BY DEF DepInv, IsFinal
<1>3. Own(t)'
  BY DEF DepInv, Own, IsFinal
<1>4. ASSUME (\E i \in DOMAIN thr'[t].seen : IsFinal(thr'[t].seen[i])) \/ thr'[t].pc = "get" PROVE Kept(thr[t].no)'
  BY <1>2, <1>4 DEF DepInv
<1>5. ASSUME thr'[t].pc = "assign" PROVE Gone(thr[t].no)' \/ (dep'["me"] = "final" /\ "me" \in thr'[t].got)
  <2>1. CASE thr[t].pc = "assign" /\ thr'[t].got = thr[t].got
    <3>1. head'.st = "Idle" => Gone(thr[t].no)'
      BY DEF Gone
    <3> QED BY <1>2, <2>1, <3>1 DEF DepInv
  <2>2. CASE thr[t].pc = "get" /\ thr'[t].got = {p \in Party : dep[p] = "final"} /\ dep' = dep /\ head' = head
    BY <1>2, <2>2 DEF DepInv, Kept, Party
  <2> QED BY <1>5, <2>1, <2>2
<1> QED BY <1>3, <1>4, <1>5

\* Its own steps.
LEMMA ActsDepInv ==
  ASSUME HeadInv, [Next]_vars, NEW t \in Thread, DepInv(t), Acts(t)
  PROVE  DepInv(t)'
<1>0. TypeOK /\ thr[t] \in Job /\ thr \in [Thread -> Job] /\ head' = head /\ thr[t].seen \in Seq(Event)
  BY ActsFrame DEF HeadInv, TypeOK, Job
<1>1. ASSUME NEW r, thr' = [thr EXCEPT ![t] = Done(r)] PROVE DepInv(t)'
  <2>1. thr'[t].cmd = "none"
    BY <1>0, <1>1 DEF Done, New
  <2> QED BY <2>1 DEF DepInv
<1>2. ASSUME NEW r, Reply(t, r) PROVE DepInv(t)'
  BY <1>1, <1>2 DEF Reply
<1>3. ASSUME thr'[t].cmd = thr[t].cmd, thr'[t].cmd # "deposit" PROVE DepInv(t)'
  BY <1>3 DEF DepInv
<1>4. ASSUME thr'[t].cmd = thr[t].cmd, thr'[t].no = thr[t].no, thr'[t].mixed = thr[t].mixed,
             thr'[t].seen = thr[t].seen \/ thr'[t].seen = <<>>, thr'[t].pc \notin {"get", "assign"}
      PROVE  DepInv(t)'
  <2>1. \A i \in DOMAIN thr'[t].seen : \E k \in DOMAIN thr[t].seen : thr'[t].seen[i] = thr[t].seen[k]
    BY <1>4
  <2> QED BY <1>4, <2>1, DepKept
<1>5. ASSUME NEW c \in Command, Begin(t, c) PROVE DepInv(t)'
  <2> DEFINE s == IF c = "fanout" /\ ready THEN log ELSE <<>>
             b == Sure(c)
             p == CASE c = "fanout" -> "look" [] c = "deposit" -> "commit" [] c = "recover" -> "commits"
                    [] OTHER -> "send"
  <2>1. thr'[t] = [New EXCEPT !.cmd = c, !.no = head.no, !.sure = b, !.pc = p,
                   !.do = IF c = "init" THEN "init" ELSE "close", !.seen = s]
    BY <1>5 DEF Begin
  <2>2. thr'[t].cmd = c /\ thr'[t].pc = p /\ thr'[t].seen = s
    <3> HIDE DEF s, b, p
    <3> QED BY <2>1 DEF New
  <2>3. c = "deposit" => p = "commit" /\ s = <<>>
    OBVIOUS
  <2> HIDE DEF s, p
  <2> QED BY <2>2, <2>3 DEF DepInv, Own
<1>6. CASE Send(t)
  <2>1. PICK lost \in {0, 1} : Sent(t, lost)
    BY <1>6 DEF Send
  <2>2. thr'[t].cmd = thr[t].cmd /\ thr'[t].no = thr[t].no /\ thr'[t].mixed = thr[t].mixed
        /\ thr'[t].seen = thr[t].seen /\ thr'[t].pc = "wait"
    BY <1>0, <2>1 DEF Sent, Job
  <2> QED BY <1>4, <2>2
<1>7. CASE CloseAgain(t)
  BY <1>0, <1>2, <1>4, <1>7 DEF CloseAgain, Job
<1>8. CASE CloseDone(t) \/ FanoutReady(t) \/ DepositDraft(t) \/ DepositSubmitted(t)
  <2>1. ASSUME NEW p \in {"look", "mark", "submit", "stage"}, Goto(t, p) PROVE DepInv(t)'
    BY <1>0, <1>4, <2>1 DEF Goto, Job
  <2> QED BY <1>2, <1>8, <2>1 DEF CloseDone, FanoutReady, DepositDraft, DepositSubmitted
<1>9. CASE FanoutLooks(t)
  <2>1. CASE head.st # "Idle"
    <3>1. thr'[t].cmd = thr[t].cmd
      BY <1>0, <1>9, <2>1 DEF FanoutLooks, Job
    <3>2. thr[t].cmd # "deposit"
      BY <1>0, <1>9, PlaceTells DEF FanoutLooks, At
    <3> QED BY <1>3, <3>1, <3>2
  <2> QED BY <1>2, <1>9, <2>1 DEF FanoutLooks
<1>10. CASE FanoutMarks(t)
  BY <1>0, <1>4, <1>10 DEF FanoutMarks, Job
<1>11. CASE Raises(t) \/ InitDone(t) \/ FanoutDone(t) \/ RecoverDone(t) \/ DepositTimesOut(t)
  BY <1>2, <1>11 DEF Raises, InitDone, FanoutDone, RecoverDone, DepositTimesOut, Concludes
<1>12. CASE DepositAssign(t)
  BY <1>1, <1>12 DEF DepositAssign
<1>13. CASE DepositSubmit(t)
  BY <1>0, <1>2, <1>4, <1>13 DEF DepositSubmit, Job
<1>14. CASE RecoverCommits(t) \/ RecoverDelete(t)
  BY <1>0, <1>2, <1>4, <1>14 DEF RecoverCommits, RecoverDelete, Job
<1>15. CASE DepositGet(t)
  <2>1. CASE head.st = "Idle"
    BY <1>2, <1>15, <2>1 DEF DepositGet
  <2>2. CASE head.st # "Idle"
    <3> DEFINE g == {p \in Party : dep[p] = "final"}
    <3>1. thr' = [thr EXCEPT ![t].pc = "assign", ![t].got = g] /\ Local /\ At(t, "get")
      BY <1>15, <2>2 DEF DepositGet
    <3>2. thr'[t].cmd = thr[t].cmd /\ thr'[t].no = thr[t].no /\ thr'[t].mixed = thr[t].mixed
          /\ thr'[t].seen = thr[t].seen /\ thr'[t].pc = "assign" /\ thr'[t].got = g
      <4> HIDE DEF g
      <4> QED BY <1>0, <3>1 DEF Job
    <3>3. dep' = dep /\ thr[t].pc = "get"
      BY <3>1 DEF Local, headVars, At
    <3> QED BY <1>0, <3>2, <3>3, DepKept
  <2> QED BY <2>1, <2>2
<1>16. CASE DepositStage(t)
  <2>0. Returns(t) /\ At(t, "stage")
    BY <1>16 DEF DepositStage
  <2>1. CASE Expired(t)
    <3> DEFINE g == {thr[t].seen[First(t)].of}
    <3>1. thr' = [thr EXCEPT ![t].pc = "delete", ![t].got = g]
      BY <2>1 DEF Expired
    <3> HIDE DEF g
    <3> QED BY <1>0, <1>4, <3>1 DEF Job
  <2>2. CASE Tag(t) = "CommitFinalized" /\ thr' = [thr EXCEPT ![t].pc = "get", ![t].seen = <<>>]
    <3>1. thr'[t].cmd = thr[t].cmd /\ thr'[t].no = thr[t].no /\ thr'[t].mixed = thr[t].mixed
          /\ thr'[t].seen = <<>> /\ thr'[t].pc = "get"
      BY <1>0, <2>2 DEF Job
    <3>2. \E i \in DOMAIN thr[t].seen : IsFinal(thr[t].seen[i])
      BY <1>0, <2>0, <2>2, FirstFound DEF IsFinal, Tag
    <3>3. \A i \in DOMAIN thr'[t].seen : \E k \in DOMAIN thr[t].seen : thr'[t].seen[i] = thr[t].seen[k]
      BY <3>1
    <3> QED BY <3>1, <3>2, <3>3, DepKept
  <2>3. CASE NextStage(t)
    <3> DEFINE s == SubSeq(thr[t].seen, First(t) + 1, Len(thr[t].seen))
    <3>1. thr' = [thr EXCEPT ![t].seen = s, ![t].try = @ + 1]
      BY <2>3 DEF NextStage
    <3>2. \A i \in DOMAIN s : \E k \in DOMAIN thr[t].seen : s[i] = thr[t].seen[k]
      <4> DEFINE q == thr[t].seen
                 f == First(t)
      <4>1. q \in Seq(Event) /\ f \in 1..Len(q) /\ Len(q) \in Nat
        BY <1>0, <2>0, FirstFound
      <4> HIDE DEF q, f
      <4>2. /\ DOMAIN SubSeq(q, f + 1, Len(q)) = 1..(Len(q) - f)
            /\ \A i \in 1..(Len(q) - f) : SubSeq(q, f + 1, Len(q))[i] = q[f + i]
        BY <4>1
      <4>3. \A i \in 1..(Len(q) - f) : f + i \in DOMAIN q
        BY <4>1
      <4>4. \A i \in DOMAIN SubSeq(q, f + 1, Len(q)) : \E k \in DOMAIN q : SubSeq(q, f + 1, Len(q))[i] = q[k]
        BY <4>2, <4>3
      <4> QED BY <4>4 DEF q, f
    <3> HIDE DEF s
    <3>3. thr'[t].cmd = thr[t].cmd /\ thr'[t].no = thr[t].no /\ thr'[t].mixed = thr[t].mixed
          /\ thr'[t].seen = s /\ thr'[t].pc = "stage"
      BY <1>0, <2>0, <3>1 DEF Job, At
    <3> QED BY <3>2, <3>3, DepKept
  <2> QED BY <1>16, <2>1, <2>2, <2>3 DEF DepositStage
<1> QED BY <1>5, <1>6, <1>7, <1>8, <1>9, <1>10, <1>11, <1>12, <1>13, <1>14, <1>15, <1>16 DEF Acts

\* The client takes a message.
LEMMA MessageDepInv ==
  ASSUME HeadInv, WireDep, NEW t \in Thread, DepInv(t), OnMessage
  PROVE  DepInv(t)'
<1> DEFINE m == Head(wire)
           e == [tag |-> m.tag, of |-> m.of]
           mx == thr[t].mixed \/ m.of = "peer"
<1>0. TypeOK /\ thr[t] \in Job /\ thr[t].seen \in Seq(Event)
  BY DEF HeadInv, TypeOK, Job
<1>1. wire # <<>> /\ wire' = Tail(wire) /\ head' = head /\ dep' = dep
  BY DEF OnMessage, headVars
<1>2. thr'[t] = IF m.tag \in Listens(t) THEN [thr[t] EXCEPT !.seen = Append(@, e), !.mixed = mx] ELSE thr[t]
  BY DEF OnMessage
<1>3. m = wire[1] /\ 1 \in DOMAIN wire
  BY <1>0, <1>1, Popped
<1>4. e.tag = m.tag /\ e.of = m.of /\ m.of \in {"me", "peer", "none"}
  <2>1. m \in Message
    BY <1>0, <1>3 DEF TypeOK
  <2> QED BY <2>1 DEF Message, Party
<1>5. IsFinal(m) => m.of # "none" /\ (m.of = "me" => dep["me"] = "final" \/ head.st = "Idle")
  BY <1>3 DEF WireDep
<1> HIDE DEF m
<1>6. CASE m.tag \notin Listens(t)
  <2>1. thr'[t] = thr[t]
    BY <1>2, <1>6
  <2> QED BY <1>1, <2>1 DEF DepInv, Own, Kept, Gone, IsFinal
<1>7. CASE m.tag \in Listens(t)
  <2>1. thr'[t] = [thr[t] EXCEPT !.seen = Append(@, e), !.mixed = mx]
    BY <1>2, <1>7
  <2>2. /\ thr'[t].cmd = thr[t].cmd /\ thr'[t].pc = thr[t].pc /\ thr'[t].no = thr[t].no
        /\ thr'[t].got = thr[t].got /\ thr'[t].seen = Append(thr[t].seen, e) /\ thr'[t].mixed = mx
    <3> HIDE DEF e, mx
    <3> QED BY <1>0, <2>1 DEF Job
  <2> SUFFICES ASSUME thr[t].cmd = "deposit", ~mx
               PROVE  /\ Own(t)'
                      /\ (\E i \in DOMAIN thr'[t].seen : IsFinal(thr'[t].seen[i])) \/ thr'[t].pc = "get" => Kept(thr[t].no)'
                      /\ thr'[t].pc = "assign" => Gone(thr[t].no)' \/ (dep'["me"] = "final" /\ "me" \in thr'[t].got)
    BY <2>2 DEF DepInv, IsFinal
  <2>3. ~thr[t].mixed /\ m.of # "peer"
    OBVIOUS
  <2>4. (Kept(thr[t].no) => Kept(thr[t].no)') /\ (Gone(thr[t].no) <=> Gone(thr[t].no)')
        /\ (dep["me"] = "final" \/ head.st = "Idle" => Kept(thr[t].no)')
    BY <1>1, <2>2 DEF Kept, Gone
  <2> HIDE DEF mx, e
  <2> DEFINE s == thr[t].seen
             n == Len(thr[t].seen) + 1
  <2>5. /\ DOMAIN thr'[t].seen = 1..n /\ Len(s) \in Nat /\ DOMAIN s = 1..Len(s)
        /\ \A i \in DOMAIN s : thr'[t].seen[i] = s[i]
        /\ thr'[t].seen[n] = e
    BY <1>0, <2>2
  <2>6. \A i \in DOMAIN thr'[t].seen : (i \in DOMAIN s /\ thr'[t].seen[i] = s[i]) \/ thr'[t].seen[i] = e
    BY <2>5
  <2>7. Own(t)'
    BY <1>4, <1>5, <2>3, <2>6 DEF DepInv, Own, IsFinal
  <2>8. ASSUME (\E i \in DOMAIN thr'[t].seen : IsFinal(thr'[t].seen[i])) \/ thr'[t].pc = "get" PROVE Kept(thr[t].no)'
    <3>1. CASE thr[t].pc = "get" \/ \E i \in DOMAIN s : IsFinal(s[i])
      BY <2>3, <2>4, <3>1 DEF DepInv
    <3>2. CASE IsFinal(e)
      BY <1>4, <1>5, <2>3, <2>4, <3>2 DEF IsFinal
    <3> QED BY <2>2, <2>6, <2>8, <3>1, <3>2
  <2>9. thr'[t].pc = "assign" => Gone(thr[t].no)' \/ (dep'["me"] = "final" /\ "me" \in thr'[t].got)
    BY <1>1, <2>2, <2>3, <2>4 DEF DepInv
  <2> QED BY <2>7, <2>8, <2>9
<1> QED BY <1>6, <1>7

LEMMA DepInvStep ==
  ASSUME HeadInv, WireDep, [Next]_vars, NEW t \in Thread, DepInv(t)
  PROVE  DepInv(t)'
<1>1. CASE UNCHANGED vars
  BY <1>1 DEF vars, headVars, DepInv, Own, Kept, Gone, IsFinal
<1>2. CASE ClientRestart
  <2>1. thr'[t] = IF Active(t) THEN Done("dead") ELSE thr[t]
    BY <1>2 DEF ClientRestart
  <2>2. Done("dead").cmd = "none"
    BY DEF Done, New
  <2>3. ~Active(t) => thr[t].cmd # "deposit"
    <3>1. thr[t].pc \in Places[thr[t].cmd]
      BY DEF HeadInv, TypeOK
    <3> QED BY <3>1, PlacesAre DEF Active
  <2> QED BY <2>1, <2>2, <2>3 DEF DepInv
<1>3. CASE Acts(t)
  BY <1>3, ActsDepInv
<1>4. CASE OnMessage
  BY <1>4, MessageDepInv
<1>5. CASE Next /\ ~OnMessage /\ ~ClientRestart /\ ~Acts(t)
  <2>1. /\ thr'[t].cmd = thr[t].cmd /\ thr'[t].pc = thr[t].pc /\ thr'[t].seen = thr[t].seen
        /\ thr'[t].got = thr[t].got /\ thr'[t].no = thr[t].no /\ thr'[t].mixed = thr[t].mixed
    BY <1>5, OthersSame DEF HeadInv
  <2> QED BY <2>1, DepKept
<1> QED BY <1>1, <1>2, <1>3, <1>4, <1>5

LEMMA DepositsCorrect == Spec => []DepositsInv
<1>1. Init => DepositsInv
  <2> SUFFICES ASSUME Init PROVE DepositsInv
    OBVIOUS
  <2>1. DOMAIN wire = {}
    BY EmptyWire DEF Init
  <2>2. ASSUME NEW t \in Thread PROVE thr[t].cmd = "none"
    BY DEF Init, New
  <2> QED BY <2>1, <2>2 DEF DepositsInv, WireDep, DepInv
<1>2. HeadInv /\ DepositsInv /\ [Next]_vars => DepositsInv'
  <2> SUFFICES ASSUME HeadInv, DepositsInv, [Next]_vars PROVE WireDep' /\ \A t \in Thread : DepInv(t)'
    BY DEF DepositsInv
  <2>1. TypeOK /\ WireDep /\ \A t \in Thread : DepInv(t)
    BY DEF HeadInv, DepositsInv
  <2> QED BY <2>1, WireDepStep, DepInvStep
<1> QED BY <1>1, <1>2, HeadInvCorrect, PTL DEF Spec

\* No other step replies OK to a deposit while there is a head.
LEMMA EndsWith ==
  ASSUME TypeOK, NEW t \in Thread, Acts(t), ~DepositAssign(t), thr[t].pc \notin {"new", "done"},
         thr'[t].pc = "done", thr'[t].reply = "deposited", head.st # "Idle"
  PROVE  FALSE
<1>0. thr[t] \in Job /\ thr \in [Thread -> Job]
  BY DEF TypeOK
<1>1. ASSUME NEW r, Reply(t, r) PROVE r = "deposited"
  <2>1. thr'[t] = Done(r)
    BY <1>0, <1>1 DEF Reply
  <2>2. Done(r).reply = r
    BY DEF Done, New
  <2> QED BY <2>1, <2>2
<1>2. ASSUME Returns(t), Reply(t, Tag(t)) PROVE FALSE
  <2>1. Tag(t) \in EventTag
    BY <1>2, FirstFound DEF Tag, Event
  <2>2. "deposited" \notin EventTag
    BY DEF EventTag, Refusals, Observed, DepositTag
  <2> QED BY <1>1, <1>2, <2>1, <2>2
<1>3. ~Concludes(t)
  BY <1>1, <1>2 DEF Concludes
<1>4. ASSUME NEW p, Goto(t, p), p # "done" PROVE FALSE
  BY <1>0, <1>4 DEF Goto, Job
<1>5. ~InitDone(t) /\ ~FanoutDone(t) /\ ~RecoverDone(t)
  BY <1>3 DEF InitDone, FanoutDone, RecoverDone
<1>6. ~CloseAgain(t) /\ ~CloseDone(t)
  <2>1. ~CloseAgain(t)
    BY <1>0, <1>1 DEF CloseAgain, Job
  <2>2. ~CloseDone(t)
    BY <1>2, <1>4 DEF CloseDone
  <2> QED BY <2>1, <2>2
<1>7. ~FanoutLooks(t) /\ ~FanoutReady(t) /\ ~FanoutMarks(t)
  <2>1. ~FanoutLooks(t)
    BY <1>0 DEF FanoutLooks, Job
  <2>2. ~FanoutReady(t)
    BY <1>1, <1>2, <1>4 DEF FanoutReady
  <2>3. ~FanoutMarks(t)
    BY <1>0 DEF FanoutMarks, Job
  <2> QED BY <2>1, <2>2, <2>3
<1>8. ~Raises(t) /\ ~DepositTimesOut(t) /\ ~DepositSubmitted(t) /\ ~DepositDraft(t)
  <2>1. ~Raises(t) /\ ~DepositTimesOut(t)
    BY <1>1 DEF Raises, DepositTimesOut
  <2>2. ~DepositSubmitted(t) /\ ~DepositDraft(t)
    BY <1>1, <1>4 DEF DepositSubmitted, DepositDraft
  <2> QED BY <2>1, <2>2
<1>9. ~Send(t)
  <2>1. ASSUME NEW lost, Sent(t, lost) PROVE FALSE
    BY <1>0, <2>1 DEF Sent, Job
  <2> QED BY <2>1 DEF Send
<1>10. ~DepositSubmit(t) /\ ~DepositGet(t) /\ ~RecoverCommits(t) /\ ~RecoverDelete(t)
  <2>1. ~DepositSubmit(t)
    BY <1>0, <1>1 DEF DepositSubmit, Job
  <2>2. ~DepositGet(t)
    BY <1>0 DEF DepositGet, Job
  <2>3. ~RecoverCommits(t)
    BY <1>0, <1>1 DEF RecoverCommits, Job
  <2>4. ~RecoverDelete(t)
    BY <1>0, <1>1 DEF RecoverDelete, Job
  <2> QED BY <2>1, <2>2, <2>3, <2>4
<1>11. ~DepositStage(t)
  <2>1. ~Expired(t)
    BY <1>0 DEF Expired, Job
  <2>2. ~(thr' = [thr EXCEPT ![t].pc = "get", ![t].seen = <<>>])
    BY <1>0 DEF Job
  <2>3. ASSUME NextStage(t) PROVE thr'[t].pc = thr[t].pc
    <3> DEFINE s == SubSeq(thr[t].seen, First(t) + 1, Len(thr[t].seen))
    <3>1. thr' = [thr EXCEPT ![t].seen = s, ![t].try = @ + 1]
      BY <2>3 DEF NextStage
    <3> HIDE DEF s
    <3> QED BY <1>0, <3>1 DEF Job
  <2> QED BY <2>1, <2>2, <2>3 DEF DepositStage
<1>12. ASSUME NEW c \in Command PROVE ~Begin(t, c)
  BY DEF Begin, At
<1> QED BY <1>5, <1>6, <1>7, <1>8, <1>9, <1>10, <1>11, <1>12 DEF Acts

\* A deposit that is replied OK (cmd_deposit) is in the head, and in the set
\* self.utxo that the client pays from, unless events of the other party's
\* deposit came in between or the head is gone (DepositIsIn).
THEOREM DepositCorrect == Spec => DepositIsIn
<1> DEFINE Reports(t) == Ends(t) /\ thr'[t].reply = "deposited" /\ ~thr[t].mixed /\ head.no = thr[t].no /\ head.st # "Idle"
           A == \A t \in Thread : Reports(t) => dep["me"] = "final" /\ "me" \in view'
<1>1. HeadInv /\ DepositsInv /\ Next => A
  <2> SUFFICES ASSUME HeadInv, DepositsInv, Next, NEW t \in Thread, Reports(t)
               PROVE  dep["me"] = "final" /\ "me" \in view'
    OBVIOUS
  <2>0. TypeOK /\ DepInv(t) /\ thr[t] \in Job /\ thr \in [Thread -> Job] /\ head.no \in Nat
    BY DEF HeadInv, DepositsInv, TypeOK
  <2>1. thr[t].pc \notin {"new", "done"} /\ thr'[t].pc = "done" /\ thr'[t].reply = "deposited"
    BY DEF Ends, Active
  <2>2. ~Gone(thr[t].no) /\ ~thr[t].mixed /\ head.st # "Idle"
    BY <2>0 DEF Gone
  <2> HIDE DEF Reports
  <2>3. CASE DepositAssign(t)
    <3>1. thr[t].cmd = "deposit" /\ thr[t].pc = "assign" /\ view' = thr[t].got
      BY <2>0, <2>3, PlaceTells DEF DepositAssign, At
    <3> QED BY <2>0, <2>2, <3>1 DEF DepInv
  <2>4. CASE ~DepositAssign(t)
    <3>1. Acts(t)
      <4>1. ~OnMessage
        <5> SUFFICES ASSUME OnMessage PROVE FALSE
          OBVIOUS
        <5> DEFINE m == Head(wire)
                   e == [tag |-> m.tag, of |-> m.of]
                   mx == thr[t].mixed \/ m.of = "peer"
        <5>1. thr'[t] = IF m.tag \in Listens(t) THEN [thr[t] EXCEPT !.seen = Append(@, e), !.mixed = mx] ELSE thr[t]
          BY DEF OnMessage
        <5> HIDE DEF m, e, mx
        <5> QED BY <2>0, <2>1, <5>1 DEF Job
      <4>2. ~ClientRestart
        <5> SUFFICES ASSUME ClientRestart PROVE FALSE
          OBVIOUS
        <5>1. thr'[t] = Done("dead")
          BY <2>1 DEF ClientRestart, Active
        <5>2. Done("dead").reply = "dead"
          BY DEF Done, New
        <5> QED BY <2>1, <5>1, <5>2
      <4> QED BY <2>0, <2>1, <4>1, <4>2, OthersSame
    <3>2. FALSE
      BY <2>0, <2>1, <2>2, <2>4, <3>1, EndsWith
    <3> QED BY <3>2
  <2> QED BY <2>3, <2>4
<1>2. HeadInv /\ DepositsInv /\ [Next]_vars => [A]_vars
  BY <1>1
<1>3. [][A]_vars => DepositIsIn
  BY PTL DEF DepositIsIn
<1> QED BY <1>2, <1>3, HeadInvCorrect, DepositsCorrect, PTL DEF Spec

=============================================================================
