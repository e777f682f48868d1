--------------------------- MODULE HydraHeadProofs ---------------------------
(***************************************************************************)
(* Proofs about the life of a head, for every number of control threads,   *)
(* heads, messages on the websocket and attempts.                          *)
(***************************************************************************)
EXTENDS HydraHead, TLAPS, WellFoundedInduction, SequenceTheorems

-----------------------------------------------------------------------------
(* The steps.                                                              *)

\* A transaction of mine or of the peer is observed.
Observes == \E do \in DOMAIN Observed, of \in Party \cup {"none"} :
              /\ Observe(do, of) /\ (do # "recover" => of = "none")
              /\ \/ txs' = txs /\ do # "recover"
                 \/ \E x \in txs : x.do = do /\ txs' = txs \ {x}

LEMMA ObservesIs ==
  ASSUME TypeOK, (\E x \in txs : Apply(x)) \/ (\E do \in DOMAIN Observed : PeerInput(do))
  PROVE  Observes
<1>1. ASSUME NEW x \in txs, Apply(x) PROVE Observes
  <2>1. x.do \in DOMAIN Observed /\ x.of \in Party \cup {"none"} /\ (x.do # "recover" => x.of = "none")
    BY DEF TypeOK, Transaction, Observed
  <2> QED BY <1>1, <2>1 DEF Observes, Apply
<1>2. ASSUME NEW do \in DOMAIN Observed, PeerInput(do) PROVE Observes
  BY <1>2 DEF Observes, PeerInput
<1> QED BY <1>1, <1>2

\* A step of a thread that it alone notices, or with which it replies.
Acts(t) == \/ \E c \in Command : Begin(t, c)
           \/ Send(t) \/ DepositSubmit(t) \/ RecoverDelete(t) \/ DepositAssign(t)
           \/ CloseAgain(t) \/ CloseDone(t) \/ FanoutLooks(t) \/ FanoutReady(t) \/ FanoutMarks(t)
           \/ FanoutDone(t) \/ Raises(t) \/ InitDone(t) \/ DepositDraft(t) \/ DepositSubmitted(t)
           \/ DepositStage(t) \/ DepositTimesOut(t) \/ DepositGet(t) \/ RecoverCommits(t) \/ RecoverDone(t)

LEMMA Steps ==
  ASSUME Next, TypeOK
  PROVE  /\ setup' = setup
         /\ \/ Observes \/ Deadline \/ (\E x \in txs : Fail(x)) \/ (\E x \in txs : Expire(x))
            \/ (\E p \in Party, stage \in Stages : DepositMoves(p, stage))
            \/ PeerDeposits \/ Snapshot \/ OnOpen \/ OnClose \/ OnMessage \/ ClientRestart
            \/ \E t \in Thread : Acts(t)
  BY ObservesIs, ZenonT(30) DEF Next, Layer1, Others, Socket, Ctl, Close, Fanout, Deposit, Recover, Acts

-----------------------------------------------------------------------------
(* Types.                                                                  *)

JobOK(j) == /\ j \in Job /\ j.pc \in Places[j.cmd]
            /\ j.do = "none" => j.cmd = "none"
            /\ j.pc = "assign" => j.got \subseteq Party
            /\ j.try \in IF j.cmd = "deposit" THEN 1..3 ELSE 1..Attempts

\* The types of the rest.
Typed == /\ setup \in Setups
         /\ head \in [no : 0..setup.heads, st : State, ready : BOOLEAN]
         /\ dep \in [Party -> {"none", "sent", "recorded", "active", "raced", "final", "stale", "expired"}]
         /\ txs \subseteq Transaction

LEMMA TypeOKIs ==
  TypeOK <=> /\ Typed
             /\ conn \in BOOLEAN /\ wire \in Seq(Message)
             /\ log \in Seq(Event) /\ status \in State \cup {"unknown"} /\ ready \in BOOLEAN /\ view \subseteq Party
             /\ missed \subseteq Thread \cup {"me"}
             /\ thr \in [Thread -> Job] /\ \A t \in Thread : JobOK(thr[t])
  BY DEF TypeOK, Typed, JobOK

LEMMA TypeOKNext ==
  ASSUME Typed', conn' \in BOOLEAN, wire' \in Seq(Message), log' \in Seq(Event), status' \in State \cup {"unknown"},
         ready' \in BOOLEAN, view' \subseteq Party, missed' \subseteq Thread \cup {"me"},
         thr' \in [Thread -> Job], \A t \in Thread : JobOK(thr'[t])
  PROVE  TypeOK'
  BY DEF TypeOK, Typed, JobOK

LEMMA PlacesAre ==
  /\ DOMAIN Places = Command \cup {"none"}
  /\ Places["none"] = {"new", "done"} /\ Places["init"] = {"send", "wait"}
  /\ Places["closeonly"] = {"send", "wait"} /\ Places["close"] = {"send", "wait", "look", "ready", "mark"}
  /\ Places["fanout"] = {"look", "ready", "mark", "send", "wait"}
  /\ Places["deposit"] = {"commit", "submit", "submitted", "stage", "get", "assign", "delete", "recover"}
  /\ Places["recover"] = {"commits", "delete", "recover"}
  BY DEF Places, Command

\* The replies.
Replies == EventTag \cup {"none", "exception", "idle", "refused", "deposited", "nothing", "dead"}

LEMMA NewOK == JobOK(New)
<1> DEFINE P == UNION {Places[x] : x \in DOMAIN Places}
<1>1. "new" \in P /\ "new" \in Places["none"]
  BY PlacesAre
<1>2. <<>> \in Seq(Event) /\ 1 \in 1..Attempts /\ 1 \in Nat
  BY HeadAssumption
<1>3. New \in Job
  <2> HIDE DEF P
  <2> QED BY <1>1, <1>2 DEF New, Job, P, EventTag
<1>4. New.cmd = "none" /\ New.do = "none" /\ New.pc = "new" /\ New.try = 1
  BY DEF New
<1> QED BY <1>1, <1>2, <1>3, <1>4 DEF JobOK

LEMMA DoneOK ==
  ASSUME NEW r \in Replies
  PROVE  JobOK(Done(r))
<1> DEFINE P == UNION {Places[c] : c \in DOMAIN Places}
<1>1. "done" \in P /\ "done" \in Places["none"]
  BY PlacesAre
<1>2. 1 \in 1..Attempts
  BY HeadAssumption
<1> HIDE DEF P
<1>3. New \in Job
  BY NewOK DEF JobOK
<1>4. Done(r) \in Job
  BY <1>1, <1>3 DEF Done, Job, Replies, P
<1>5. Done(r).cmd = "none" /\ Done(r).do = "none" /\ Done(r).pc = "done" /\ Done(r).try = 1
  BY DEF Done, New
<1> QED BY <1>1, <1>2, <1>4, <1>5 DEF JobOK

\* A job changed as it may be.
LEMMA JobSet ==
  ASSUME TypeOK, NEW t \in Thread, NEW j, JobOK(j), thr' = [thr EXCEPT ![t] = j]
  PROVE  thr' \in [Thread -> Job] /\ \A u \in Thread : JobOK(thr'[u])
  BY TypeOKIs DEF JobOK

\* An event goes out.
LEMMA EmitType ==
  ASSUME TypeOK, NEW tag \in EventTag, NEW of \in Party \cup {"none"}, Emit(tag, of), head'.st \in State
  PROVE  wire' \in Seq(Message) /\ missed' \subseteq Thread \cup {"me"}
<1>1. Msg(tag, of) \in Message
  BY DEF Msg, Message
<1>2. wire' \in Seq(Message)
  BY <1>1, AppendProperties DEF Emit, TypeOK
<1>3. missed' \subseteq Thread \cup {"me"}
  BY DEF Emit, TypeOK, Missing
<1> QED BY <1>2, <1>3

\* The first of some indices.
LEMMA Least ==
  ASSUME NEW S \in SUBSET Nat, S # {}
  PROVE  \E i \in S : \A j \in S : i <= j
<1> DEFINE R == OpToRel(<, Nat)
<1>1. PICK i \in S : \A j \in S : ~(<<j, i>> \in R)
  <2> HIDE DEF R
  <2>1. IsWellFoundedOn(R, Nat)
    BY NatLessThanWellFounded DEF R
  <2> QED BY <2>1, WFMin
<1>2. ASSUME NEW j \in S PROVE i <= j
  <2>1. ~(j < i)
    BY <1>1 DEF OpToRel
  <2> QED BY <2>1
<1> QED BY <1>2

\* wait_for finds the first event it waits for.
LEMMA FirstFound ==
  ASSUME TypeOK, NEW t \in Thread, Returns(t)
  PROVE  /\ First(t) \in DOMAIN thr[t].seen
         /\ Tag(t) \in Awaited(t)
         /\ thr[t].seen[First(t)] \in Event
<1>1. Found(t) \in SUBSET Nat /\ Found(t) # {} /\ thr[t].seen \in Seq(Event)
  BY DEF Found, Returns, TypeOK, Job
<1>2. First(t) \in Found(t)
  BY <1>1, Least DEF First
<1> QED BY <1>1, <1>2 DEF Found, Tag

\* The deposit of a party moves, with all the rest of layer 1 as it was.
LEMMA StagesType ==
  ASSUME NEW s \in Stages
  PROVE  /\ s[2] \in {"recorded", "active", "raced", "final", "expired"}
         /\ s[3] \in EventTag \ {"Greetings", "HeadIsOpen", "HeadIsClosed", "ReadyToFanout", "HeadIsFinalized"}
  BY DEF Stages, EventTag, Refusals, Observed, DepositTag

LEMMA ObservedType ==
  ASSUME NEW do \in DOMAIN Observed
  PROVE  Observed[do] \in EventTag /\ do \in {"init", "close", "fanout", "recover"}
  BY DEF EventTag, Observed

\* The node and layer 1 keep the types.
LEMMA NodeType ==
  ASSUME TypeOK, setup' = setup,
         \/ Observes \/ Deadline \/ (\E x \in txs : Fail(x)) \/ PeerDeposits \/ Snapshot
         \/ (\E p \in Party, stage \in Stages : DepositMoves(p, stage))
  PROVE  TypeOK'
<1>1. Typed' /\ wire' \in Seq(Message) /\ missed' \subseteq Thread \cup {"me"} /\ UNCHANGED <<conn, clientVars, thr>>
  <2>1. CASE Observes
    <3>1. PICK do \in DOMAIN Observed, of \in Party \cup {"none"} : Observe(do, of) /\ (txs' = txs \/ \E x \in txs : txs' = txs \ {x})
      BY <2>1 DEF Observes
    <3>2. head' \in [no : 0..setup.heads, st : State, ready : BOOLEAN]
      <4>1. setup.heads \in Nat /\ head.no \in Nat
        BY HeadAssumption DEF TypeOK
      <4>2. CASE do = "init"
        <5>1. head.no + 1 \in 0..setup.heads /\ head' = [no |-> head.no + 1, st |-> "Open", ready |-> FALSE]
          BY <3>1, <4>1, <4>2 DEF Observe, Accepts, TypeOK
        <5> QED BY <5>1 DEF State
      <4>3. CASE do = "close"
        BY <3>1, <4>3 DEF Observe, TypeOK, State
      <4>4. CASE do = "fanout"
        BY <3>1, <4>4 DEF Observe, TypeOK, State
      <4>5. CASE do = "recover"
        BY <3>1, <4>5 DEF Observe, TypeOK
      <4> QED BY <4>2, <4>3, <4>4, <4>5, ObservedType
    <3>3. dep' \in [Party -> {"none", "sent", "recorded", "active", "raced", "final", "stale", "expired"}]
      BY <3>1 DEF Observe, TypeOK
    <3>4. Observed[do] \in EventTag /\ head'.st \in State
      BY <3>2, ObservedType
    <3>5. wire' \in Seq(Message) /\ missed' \subseteq Thread \cup {"me"} /\ UNCHANGED <<conn, clientVars, thr>>
      BY <3>1, <3>4, EmitType DEF Observe
    <3> QED BY <3>1, <3>2, <3>3, <3>5 DEF Typed, TypeOK
  <2>2. CASE Deadline
    <3>1. head' \in [no : 0..setup.heads, st : State, ready : BOOLEAN]
      BY <2>2 DEF Deadline, TypeOK
    <3>2. wire' \in Seq(Message) /\ missed' \subseteq Thread \cup {"me"}
      BY <2>2, <3>1, EmitType DEF Deadline, EventTag
    <3> QED BY <2>2, <3>1, <3>2 DEF Deadline, Typed, TypeOK
  <2>3. ASSUME NEW x \in txs, Fail(x)
        PROVE  Typed' /\ wire' \in Seq(Message) /\ missed' \subseteq Thread \cup {"me"} /\ UNCHANGED <<conn, clientVars, thr>>
    <3>1. head' = head /\ dep' = dep /\ txs' = txs \ {x} /\ Emit("PostTxOnChainFailed", "none")
          /\ UNCHANGED <<conn, clientVars, thr>>
      BY <2>3 DEF Fail
    <3>2. wire' \in Seq(Message) /\ missed' \subseteq Thread \cup {"me"}
      BY <3>1, EmitType DEF EventTag, Refusals, TypeOK
    <3> QED BY <3>1, <3>2 DEF Typed, TypeOK
  <2>4. CASE PeerDeposits
    BY <2>4 DEF PeerDeposits, Typed, TypeOK, Party, sockVars
  <2>5. CASE Snapshot
    <3>1. wire' \in Seq(Message) /\ missed' \subseteq Thread \cup {"me"}
      BY <2>5, EmitType DEF Snapshot, EventTag, TypeOK, headVars
    <3> QED BY <2>5, <3>1 DEF Snapshot, Typed, TypeOK, headVars
  <2>6. ASSUME NEW p \in Party, NEW s \in Stages, DepositMoves(p, s)
        PROVE  Typed' /\ wire' \in Seq(Message) /\ missed' \subseteq Thread \cup {"me"} /\ UNCHANGED <<conn, clientVars, thr>>
    <3>1. dep' = [dep EXCEPT ![p] = s[2]] /\ head' = head /\ txs' = txs /\ UNCHANGED <<conn, clientVars, thr>>
          /\ \E of \in Party \cup {"none"} : Emit(s[3], of)
      BY <2>6 DEF DepositMoves
    <3>2. wire' \in Seq(Message) /\ missed' \subseteq Thread \cup {"me"}
      BY <3>1, EmitType, StagesType DEF TypeOK
    <3> QED BY <3>1, <3>2, StagesType DEF Typed, TypeOK
  <2> QED BY <2>1, <2>2, <2>3, <2>4, <2>5, <2>6
<1> QED BY <1>1, TypeOKIs DEF TypeOK, Typed, clientVars

\* So do the websocket, an expired transaction and a restart.
LEMMA SocketType ==
  ASSUME TypeOK, setup' = setup,
         (\E x \in txs : Expire(x)) \/ OnOpen \/ OnClose \/ OnMessage \/ ClientRestart
  PROVE  TypeOK'
<1>1. ASSUME NEW x \in txs, Expire(x) PROVE TypeOK'
  <2>1. x.by \in Thread
    BY DEF TypeOK, Transaction
  <2> DEFINE j == [thr[x.by] EXCEPT !.lost = @ + 1]
  <2>2. thr' = [thr EXCEPT ![x.by] = j]
    BY <1>1 DEF Expire
  <2>3. JobOK(j)
    <3>1. JobOK(thr[x.by])
      BY <2>1, TypeOKIs
    <3>2. j \in Job
      BY <3>1 DEF JobOK, Job
    <3> QED BY <3>1, <3>2 DEF JobOK, Job
  <2> HIDE DEF j
  <2>4. thr' \in [Thread -> Job] /\ \A u \in Thread : JobOK(thr'[u])
    BY <2>1, <2>2, <2>3, JobSet
  <2>5. Typed' /\ UNCHANGED <<conn, wire, log, status, ready, view, missed>>
    BY <1>1 DEF Expire, Typed, TypeOK, sockVars, clientVars
  <2> QED BY <2>4, <2>5, TypeOKIs, TypeOKNext
<1>2. CASE OnOpen
  <2>1. Msg("Greetings", "none") \in Message
    BY <1>2 DEF OnOpen, Msg, Message, TypeOK, headVars, EventTag
  <2>2. wire' \in Seq(Message)
    BY <1>2, <2>1 DEF OnOpen
  <2> QED BY <1>2, <2>2 DEF OnOpen, TypeOK, headVars, clientVars
<1>3. CASE OnClose
  <2>1. missed' \subseteq Thread \cup {"me"} /\ wire' \in Seq(Message)
    BY <1>3 DEF OnClose, TypeOK, Missing
  <2>2. conn' \in BOOLEAN /\ Typed' /\ UNCHANGED <<clientVars, thr>>
    BY <1>3 DEF OnClose, TypeOK, Typed, headVars
  <2> QED BY <2>1, <2>2, TypeOKIs, TypeOKNext DEF clientVars
<1>4. CASE OnMessage
  <2> DEFINE m == Head(wire)
             e == [tag |-> m.tag, of |-> m.of]
  <2>1. m \in Message /\ Tail(wire) \in Seq(Message)
    <3>1. wire \in Seq(Message) /\ wire # <<>>
      BY <1>4 DEF OnMessage, TypeOK
    <3> QED BY <3>1, HeadTailProperties
  <2>2. e \in Event /\ m.st \in State /\ m.utxo \subseteq Party
    BY <2>1 DEF Event, Message
  <2>3. log' \in Seq(Event) /\ ready' \in BOOLEAN /\ view' \subseteq Party
    <3>1. log' = IF m.tag \in {"ReadyToFanout", "HeadIsFinalized"} THEN Append(log, e) ELSE log
      BY <1>4 DEF OnMessage
    <3>2. log' \in Seq(Event)
      BY <2>2, <3>1 DEF TypeOK
    <3>3. ready' \in BOOLEAN
      BY <1>4 DEF OnMessage, ReadyAfter, TypeOK
    <3>4. view' \subseteq Party
      BY <1>4, <2>2 DEF OnMessage, TypeOK
    <3> QED BY <3>2, <3>3, <3>4
  <2>4. status' \in State \cup {"unknown"}
    BY <1>4, <2>2 DEF OnMessage, StatusAfter, TypeOK, State
  <2>5. ASSUME NEW t \in Thread PROVE thr'[t] \in Job /\ JobOK(thr'[t])
    <3>0. thr[t] \in Job /\ JobOK(thr[t])
      BY TypeOKIs DEF JobOK
    <3>1. CASE m.tag \notin Listens(t)
      <4>1. thr'[t] = thr[t]
        BY <1>4, <3>1 DEF OnMessage
      <4> QED BY <3>0, <4>1
    <3>2. CASE m.tag \in Listens(t)
      <4> DEFINE mx == thr[t].mixed \/ m.of = "peer"
                 s == Append(thr[t].seen, e)
      <4>1. thr'[t] = [thr[t] EXCEPT !.seen = s, !.mixed = mx]
        BY <1>4, <3>2 DEF OnMessage
      <4>2. s \in Seq(Event)
        BY <2>2, <3>0 DEF Job
      <4>3. mx \in BOOLEAN
        OBVIOUS
      <4> HIDE DEF s, mx
      <4>4. thr'[t] \in Job
        BY <3>0, <4>1, <4>2, <4>3 DEF Job
      <4>5. thr'[t].pc = thr[t].pc /\ thr'[t].got = thr[t].got /\ thr'[t].do = thr[t].do /\ thr'[t].cmd = thr[t].cmd /\ thr'[t].try = thr[t].try
        BY <3>0, <4>1 DEF Job
      <4> QED BY <3>0, <4>4, <4>5 DEF JobOK
    <3> QED BY <3>1, <3>2
  <2>6. thr' \in [Thread -> Job]
    <3>1. thr' = [t \in Thread |-> thr'[t]]
      BY <1>4 DEF OnMessage
    <3> QED BY <2>5, <3>1
  <2>7. Typed' /\ conn' \in BOOLEAN /\ wire' \in Seq(Message) /\ missed' \subseteq Thread \cup {"me"}
    BY <1>4, <2>1 DEF OnMessage, Typed, TypeOK, headVars
  <2> QED BY <2>3, <2>4, <2>5, <2>6, <2>7, TypeOKNext
<1>5. CASE ClientRestart
  <2>1. ASSUME NEW t \in Thread PROVE thr'[t] \in Job /\ JobOK(thr'[t])
    <3>1. JobOK(Done("dead"))
      BY DoneOK DEF Replies
    <3> QED BY <1>5, <3>1, TypeOKIs DEF ClientRestart, JobOK
  <2>2. thr' \in [Thread -> Job]
    <3>1. thr' = [t \in Thread |-> thr'[t]]
      BY <1>5 DEF ClientRestart
    <3> QED BY <2>1, <3>1
  <2>3. Typed'
    BY <1>5 DEF ClientRestart, Typed, TypeOK, headVars
  <2>4. conn' = FALSE /\ ready' = FALSE /\ status' = "unknown"
    BY <1>5 DEF ClientRestart
  <2>5. wire' \in Seq(Message) /\ log' \in Seq(Event) /\ view' \subseteq Party
        /\ missed' \subseteq Thread \cup {"me"}
    BY <1>5 DEF ClientRestart
  <2> QED BY <2>1, <2>2, <2>3, <2>4, <2>5, TypeOKNext
<1> QED BY <1>1, <1>2, <1>3, <1>4, <1>5

-----------------------------------------------------------------------------
(* The control threads keep the types.                                     *)

LEMMA LocalType ==
  ASSUME TypeOK, setup' = setup, NEW t \in Thread, NEW j, JobOK(j), thr' = [thr EXCEPT ![t] = j],
         UNCHANGED <<headVars, sockVars, clientVars>>, missed' \subseteq Thread \cup {"me"}
  PROVE  TypeOK'
<1>1. thr' \in [Thread -> Job] /\ \A u \in Thread : JobOK(thr'[u])
  BY JobSet
<1>2. Typed' /\ UNCHANGED <<conn, wire, log, status, ready, view>>
  BY DEF TypeOK, Typed, headVars, sockVars, clientVars
<1> QED BY <1>1, <1>2, TypeOKIs, TypeOKNext

LEMMA ReplyType ==
  ASSUME TypeOK, setup' = setup, NEW t \in Thread, NEW r \in Replies, Reply(t, r)
  PROVE  TypeOK'
<1>1. missed' \subseteq Thread \cup {"me"}
  BY DEF Reply, TypeOK
<1> QED BY <1>1, DoneOK, LocalType DEF Reply

LEMMA TagType ==
  ASSUME TypeOK, NEW t \in Thread, Returns(t)
  PROVE  Tag(t) \in Replies
  BY FirstFound DEF Tag, Event, Replies

LEMMA ConcludesType ==
  ASSUME TypeOK, setup' = setup, NEW t \in Thread, Concludes(t)
  PROVE  TypeOK'
<1>1. ASSUME Returns(t), Reply(t, Tag(t)) PROVE TypeOK'
  BY <1>1, TagType, ReplyType
<1>2. ASSUME Reply(t, "none") PROVE TypeOK'
  BY <1>2, ReplyType DEF Replies
<1> QED BY <1>1, <1>2 DEF Concludes

\* To another place of the command.
LEMMA PlaceOK ==
  ASSUME NEW j, JobOK(j), NEW p \in Places[j.cmd], p = "assign" => j.got \subseteq Party
  PROVE  JobOK([j EXCEPT !.pc = p])
<1> DEFINE P == UNION {Places[c] : c \in DOMAIN Places}
<1>1. j.cmd \in Command \cup {"none"} /\ p \in P
  BY PlacesAre DEF JobOK, Job
<1> HIDE DEF P
<1>2. [j EXCEPT !.pc = p] \in Job
  BY <1>1 DEF JobOK, Job, P
<1>3. [j EXCEPT !.pc = p].cmd = j.cmd /\ [j EXCEPT !.pc = p].got = j.got /\ [j EXCEPT !.pc = p].do = j.do /\ [j EXCEPT !.pc = p].pc = p /\ [j EXCEPT !.pc = p].try = j.try
  BY DEF JobOK, Job
<1> QED BY <1>2, <1>3 DEF JobOK

\* With other data.
LEMMA SeenOK ==
  ASSUME NEW j, JobOK(j), NEW s \in Seq(Event)
  PROVE  JobOK([j EXCEPT !.seen = s]) /\ [j EXCEPT !.seen = s].cmd = j.cmd
  BY DEF JobOK, Job

LEMMA EmptyOK ==
  ASSUME NEW j, JobOK(j)
  PROVE  JobOK([j EXCEPT !.seen = <<>>]) /\ [j EXCEPT !.seen = <<>>].cmd = j.cmd
<1>1. <<>> \in Seq(Event)
  OBVIOUS
<1> QED BY <1>1, SeenOK

LEMMA GotOK ==
  ASSUME NEW j, JobOK(j), NEW g \in SUBSET (Party \cup {"none"}), j.pc # "assign"
  PROVE  JobOK([j EXCEPT !.got = g]) /\ [j EXCEPT !.got = g].cmd = j.cmd
  BY DEF JobOK, Job

LEMMA LostOK ==
  ASSUME NEW j, JobOK(j), NEW l \in Nat
  PROVE  JobOK([j EXCEPT !.lost = l]) /\ [j EXCEPT !.lost = l].cmd = j.cmd
  BY DEF JobOK, Job

LEMMA NoOK ==
  ASSUME NEW j, JobOK(j), NEW n \in Nat
  PROVE  JobOK([j EXCEPT !.no = n]) /\ [j EXCEPT !.no = n].cmd = j.cmd
  BY DEF JobOK, Job

LEMMA DoOK ==
  ASSUME NEW j, JobOK(j)
  PROVE  JobOK([j EXCEPT !.do = "fanout"]) /\ [j EXCEPT !.do = "fanout"].cmd = j.cmd
  BY DEF JobOK, Job

\* In its next attempt or stage.
LEMMA TryOK ==
  ASSUME NEW j, JobOK(j), j.try < IF j.cmd = "deposit" THEN 3 ELSE Attempts
  PROVE  JobOK([j EXCEPT !.try = j.try + 1])
<1>1. j.try + 1 \in IF j.cmd = "deposit" THEN 1..3 ELSE 1..Attempts
  BY HeadAssumption DEF JobOK
<1>2. [j EXCEPT !.try = j.try + 1] \in Job
  BY DEF JobOK, Job
<1>3. [j EXCEPT !.try = j.try + 1].cmd = j.cmd /\ [j EXCEPT !.try = j.try + 1].got = j.got /\ [j EXCEPT !.try = j.try + 1].do = j.do /\ [j EXCEPT !.try = j.try + 1].pc = j.pc /\ [j EXCEPT !.try = j.try + 1].try = j.try + 1
  BY DEF JobOK, Job
<1> QED BY <1>1, <1>2, <1>3 DEF JobOK

\* What a place tells of the command, and where it leads.
LEMMA PlaceTells ==
  ASSUME TypeOK, NEW t \in Thread
  PROVE  LET j == thr[t] IN
         /\ JobOK(j) /\ j \in Job
         /\ j.pc \in {"send", "wait"} => "send" \in Places[j.cmd] /\ "wait" \in Places[j.cmd]
         /\ j.pc \in {"look", "ready", "mark"} => {"look", "ready", "mark", "send", "wait"} \subseteq Places[j.cmd]
         /\ j.pc \in {"send", "wait", "look", "ready", "mark"} => j.cmd \in {"init", "close", "closeonly", "fanout"}
         /\ j.pc \in {"commit", "submit", "submitted", "stage", "get", "assign"} => j.cmd = "deposit"
         /\ j.cmd = "deposit" => Places[j.cmd] = Places["deposit"]
         /\ j.pc \in {"commits", "delete"} => "delete" \in Places[j.cmd] /\ "recover" \in Places[j.cmd]
         /\ j.cmd = "close" => Places[j.cmd] = Places["close"]
<1>1. JobOK(thr[t]) /\ thr[t] \in Job
  BY TypeOKIs
<1>2. thr[t].cmd \in {"none", "init", "close", "closeonly", "fanout", "deposit", "recover"} /\ thr[t].pc \in Places[thr[t].cmd]
  BY <1>1 DEF JobOK, Job, Command
<1> QED BY <1>1, <1>2, PlacesAre

\* Steps that change the thread alone.
LEMMA FanoutType ==
  ASSUME TypeOK, setup' = setup, NEW t \in Thread, FanoutLooks(t) \/ FanoutReady(t) \/ FanoutMarks(t)
  PROVE  TypeOK'
<1> DEFINE j == thr[t]
<1> USE PlaceTells
<1>1. ASSUME FanoutLooks(t), head.st # "Idle" PROVE TypeOK'
  <2> DEFINE p == IF head.st = "Closed" /\ head.ready THEN "mark" ELSE "ready"
             n == IF head.st = "Closed" THEN head.no ELSE j.no
             k == [[[j EXCEPT !.do = "fanout"] EXCEPT !.no = n] EXCEPT !.pc = p]
  <2>1. thr' = [thr EXCEPT ![t] = k] /\ Local
    <3>1. thr' = [thr EXCEPT ![t].do = "fanout", ![t].no = IF head.st = "Closed" THEN head.no ELSE @, ![t].pc = p] /\ Local
      BY <1>1 DEF FanoutLooks
    <3> HIDE DEF p
    <3> QED BY <3>1 DEF TypeOK, Job
  <2>2. n \in Nat /\ p \in Places[j.cmd] /\ p # "assign"
    BY <1>1 DEF TypeOK, Job, FanoutLooks, At
  <2>3. JobOK(k)
    <3> HIDE DEF n, p
    <3>1. JobOK([j EXCEPT !.do = "fanout"]) /\ [j EXCEPT !.do = "fanout"].cmd = j.cmd
      BY DoOK
    <3> DEFINE i == [j EXCEPT !.do = "fanout"]
    <3> HIDE DEF i
    <3>2. JobOK([i EXCEPT !.no = n]) /\ [i EXCEPT !.no = n].cmd = j.cmd
      BY <2>2, <3>1, NoOK DEF i
    <3>3. JobOK([[i EXCEPT !.no = n] EXCEPT !.pc = p])
      BY <2>2, <3>2, PlaceOK
    <3> QED BY <3>3 DEF i
  <2> HIDE DEF k
  <2> QED BY <2>1, <2>3, LocalType DEF Local, TypeOK
<1>2. ASSUME FanoutLooks(t), head.st = "Idle" PROVE TypeOK'
  BY <1>2, ReplyType DEF FanoutLooks, Replies
<1>3. ASSUME At(t, "ready"), Goto(t, "mark") PROVE TypeOK'
  <2>1. JobOK([j EXCEPT !.pc = "mark"])
    BY <1>3, PlaceOK DEF At
  <2>2. thr' = [thr EXCEPT ![t] = [j EXCEPT !.pc = "mark"]]
    BY <1>3 DEF Goto
  <2> HIDE DEF j
  <2> QED BY <1>3, <2>1, <2>2, LocalType DEF Goto, Local, TypeOK
<1>4. ASSUME FanoutReady(t), ~Goto(t, "mark") PROVE TypeOK'
  <2>1. ASSUME Returns(t), Reply(t, Tag(t)) PROVE TypeOK'
    BY <2>1, TagType, ReplyType
  <2>2. ASSUME Reply(t, "none") PROVE TypeOK'
    BY <2>2, ReplyType DEF Replies
  <2> QED BY <1>4, <2>1, <2>2 DEF FanoutReady
<1>5. ASSUME FanoutMarks(t) PROVE TypeOK'
  <2> DEFINE k == [[j EXCEPT !.pc = "send"] EXCEPT !.seen = <<>>]
  <2>1. thr' = [thr EXCEPT ![t] = k] /\ Local
    BY <1>5 DEF FanoutMarks, TypeOK, Job
  <2>2. JobOK([j EXCEPT !.pc = "send"])
    BY <1>5, PlaceOK DEF FanoutMarks, At
  <2>3. JobOK(k)
    <3> DEFINE i == [j EXCEPT !.pc = "send"]
    <3> HIDE DEF i
    <3> QED BY <2>2, EmptyOK DEF i
  <2> HIDE DEF k
  <2> QED BY <2>1, <2>3, LocalType DEF Local, TypeOK
<1> QED BY <1>1, <1>2, <1>3, <1>4, <1>5 DEF FanoutReady

\* close, and what it sends and waits for.
LEMMA CloseType ==
  ASSUME TypeOK, setup' = setup, NEW t \in Thread, CloseAgain(t) \/ CloseDone(t)
  PROVE  TypeOK'
<1> DEFINE j == thr[t]
<1> USE PlaceTells
<1>1. ASSUME CloseAgain(t), j.try # Attempts PROVE TypeOK'
  <2> DEFINE i == [j EXCEPT !.pc = "send"]
             k == [i EXCEPT !.try = j.try + 1]
  <2>1. thr' = [thr EXCEPT ![t] = k] /\ Local
    <3>1. thr' = [thr EXCEPT ![t].pc = "send", ![t].try = @ + 1] /\ Local
      BY <1>1 DEF CloseAgain
    <3> QED BY <3>1 DEF TypeOK, Job
  <2>2. JobOK(i) /\ i.cmd = j.cmd /\ i.try = j.try
    BY <1>1, PlaceOK DEF CloseAgain, At, Job
  <2>3. j.cmd # "deposit" /\ j.try \in 1..Attempts
    BY <1>1 DEF CloseAgain, At, JobOK
  <2>4. JobOK(k)
    <3>1. i.try < IF i.cmd = "deposit" THEN 3 ELSE Attempts
      BY <1>1, <2>2, <2>3, HeadAssumption
    <3> HIDE DEF i
    <3> QED BY <2>2, <3>1, TryOK
  <2> HIDE DEF k
  <2> QED BY <2>1, <2>4, LocalType DEF Local, TypeOK
<1>2. ASSUME Reply(t, "none") PROVE TypeOK'
  BY <1>2, ReplyType DEF Replies
<1>3. ASSUME CloseDone(t), j.cmd = "close", Goto(t, "look") PROVE TypeOK'
  <2>1. JobOK([j EXCEPT !.pc = "look"])
    BY <1>3, PlaceOK, PlacesAre DEF CloseDone, At
  <2>2. thr' = [thr EXCEPT ![t] = [j EXCEPT !.pc = "look"]]
    BY <1>3 DEF Goto
  <2> HIDE DEF j
  <2> QED BY <1>3, <2>1, <2>2, LocalType DEF Goto, Local, TypeOK
<1>4. ASSUME Returns(t), Reply(t, Tag(t)) PROVE TypeOK'
  BY <1>4, TagType, ReplyType
<1> QED BY <1>1, <1>2, <1>3, <1>4 DEF CloseAgain, CloseDone

LEMMA SendType ==
  ASSUME TypeOK, setup' = setup, NEW t \in Thread, Send(t)
  PROVE  TypeOK'
<1> DEFINE j == thr[t]
<1> USE PlaceTells
<1>1. ASSUME NEW lost \in {0, 1}, Sent(t, lost) PROVE thr' \in [Thread -> Job] /\ \A u \in Thread : JobOK(thr'[u])
  <2> DEFINE i == [j EXCEPT !.pc = "wait"]
             k == [i EXCEPT !.lost = j.lost + lost]
  <2>1. thr' = [thr EXCEPT ![t] = k]
    BY <1>1 DEF Sent, TypeOK, Job
  <2>2. j.lost + lost \in Nat
    BY DEF Job
  <2>3. JobOK(i)
    BY PlaceOK DEF Send, At
  <2>4. JobOK(k)
    <3> HIDE DEF i
    <3> QED BY <2>2, <2>3, LostOK
  <2> HIDE DEF k
  <2> QED BY <2>1, <2>4, JobSet
<1>2. thr' \in [Thread -> Job] /\ \A u \in Thread : JobOK(thr'[u])
  BY <1>1 DEF Send
<1>3. wire' \in Seq(Message) /\ missed' \subseteq Thread \cup {"me"}
  <2>1. ASSUME NEW tag \in Refusals, Emit(tag, "none"), head' = head
        PROVE wire' \in Seq(Message) /\ missed' \subseteq Thread \cup {"me"}
    BY <2>1, EmitType DEF TypeOK, EventTag
  <2>2. head' = head
    BY DEF Send
  <2>3. Silent \/ Emit("CommandFailed", "none") \/ Emit("RejectedInputBecauseUnsynced", "none")
    BY DEF Send
  <2> QED BY <2>1, <2>2, <2>3 DEF Silent, TypeOK, Refusals
<1>4. Typed' /\ UNCHANGED <<conn, log, status, ready, view>>
  <2>1. head' = head /\ dep' = dep /\ UNCHANGED <<conn, log, status, ready, view>>
    BY DEF Send, clientVars
  <2>2. CASE txs' = txs
    BY <2>1, <2>2 DEF TypeOK, Typed
  <2>3. CASE Accepts(j.do, "none") /\ txs' = txs \cup {Tx(j.do, t, "none")}
    <3>1. j.do \in {"init", "close", "fanout"}
      <4>1. j.do \in {"init", "close", "fanout", "none"}
        BY DEF Job
      <4>2. j.do # "none"
        BY DEF Send, At, JobOK
      <4> QED BY <4>1, <4>2
    <3>2. Tx(j.do, t, "none") \in Transaction
      BY <3>1 DEF Tx, TypeOK, Job, Transaction
    <3> QED BY <2>1, <2>3, <3>2 DEF TypeOK, Typed
  <2> QED BY <2>2, <2>3 DEF Send
<1> QED BY <1>2, <1>3, <1>4, TypeOKIs, TypeOKNext

LEMMA GotoType ==
  ASSUME TypeOK, setup' = setup, NEW t \in Thread, NEW p \in Places[thr[t].cmd], p # "assign", Goto(t, p)
  PROVE  TypeOK'
<1> DEFINE k == [thr[t] EXCEPT !.pc = p]
<1>1. JobOK(k)
  BY PlaceTells, PlaceOK
<1>2. thr' = [thr EXCEPT ![t] = k]
  BY DEF Goto
<1> HIDE DEF k
<1> QED BY <1>1, <1>2, LocalType DEF Goto, Local, TypeOK

\* deposit.
LEMMA DepositType ==
  ASSUME TypeOK, setup' = setup, NEW t \in Thread,
         \/ DepositDraft(t) \/ DepositSubmit(t) \/ DepositSubmitted(t) \/ DepositStage(t)
         \/ DepositTimesOut(t) \/ DepositGet(t) \/ DepositAssign(t)
  PROVE  TypeOK'
<1> DEFINE j == thr[t]
<1> USE PlaceTells
<1>0. j.cmd = "deposit" /\ Places[j.cmd] = {"commit", "submit", "submitted", "stage", "get", "assign", "delete", "recover"}
  BY PlacesAre DEF DepositDraft, DepositSubmit, DepositSubmitted, DepositStage, DepositTimesOut, DepositGet, DepositAssign, At
<1>1. CASE DepositDraft(t)
  BY <1>0, <1>1, GotoType, ReplyType DEF DepositDraft, Replies
<1>2. CASE DepositSubmit(t)
  <2>1. CASE Reply(t, "refused")
    BY <2>1, ReplyType DEF Replies
  <2>2. CASE ~Reply(t, "refused")
    <3> DEFINE k == [j EXCEPT !.pc = "submitted"]
    <3>1. JobOK(k)
      BY <1>0, PlaceOK
    <3>2. thr' = [thr EXCEPT ![t] = k]
      BY <1>2, <2>2 DEF DepositSubmit
    <3> HIDE DEF k
    <3>3. thr' \in [Thread -> Job] /\ \A u \in Thread : JobOK(thr'[u])
      BY <3>1, <3>2, JobSet
    <3>4. Typed' /\ UNCHANGED <<conn, wire, log, status, ready, view, missed>>
      BY <1>2, <2>2 DEF DepositSubmit, TypeOK, Typed, sockVars, clientVars
    <3> QED BY <3>3, <3>4, TypeOKIs, TypeOKNext
  <2> QED BY <2>1, <2>2
<1>3. CASE DepositSubmitted(t)
  BY <1>0, <1>3, GotoType DEF DepositSubmitted
<1>4. CASE DepositStage(t)
  <2>1. Returns(t) /\ At(t, "stage")
    BY <1>4 DEF DepositStage
  <2>2. CASE Expired(t)
    <3> DEFINE i == [j EXCEPT !.pc = "delete"]
               g == {j.seen[First(t)].of}
               k == [i EXCEPT !.got = g]
    <3>1. thr' = [thr EXCEPT ![t] = k] /\ Local
      BY <2>2 DEF Expired, TypeOK, Job
    <3>2. g \in SUBSET (Party \cup {"none"})
      BY <2>1, FirstFound DEF Event
    <3>3. JobOK(i) /\ i.pc = "delete"
      <4>1. i.pc = "delete"
        BY <1>0 DEF Job
      <4>2. JobOK(i)
        BY <1>0, PlaceOK
      <4> QED BY <4>1, <4>2
    <3>4. JobOK(k)
      <4> HIDE DEF i, g
      <4> QED BY <3>2, <3>3, GotOK
    <3> HIDE DEF k
    <3> QED BY <3>1, <3>4, LocalType DEF Local, TypeOK
  <2>3. CASE thr' = [thr EXCEPT ![t].pc = "get", ![t].seen = <<>>] /\ Local
    <3> DEFINE i == [j EXCEPT !.pc = "get"]
               k == [i EXCEPT !.seen = <<>>]
    <3>1. thr' = [thr EXCEPT ![t] = k] /\ Local
      BY <2>3 DEF TypeOK, Job
    <3>2. JobOK(i)
      BY <1>0, PlaceOK
    <3>3. JobOK(k)
      <4> HIDE DEF i
      <4> QED BY <3>2, EmptyOK
    <3> HIDE DEF k
    <3> QED BY <3>1, <3>3, LocalType DEF Local, TypeOK
  <2>4. CASE NextStage(t) /\ Tag(t) # "DepositExpired" /\ Tag(t) # "CommitFinalized"
    <3> DEFINE s == SubSeq(j.seen, First(t) + 1, Len(j.seen))
               i == [j EXCEPT !.seen = s]
               k == [i EXCEPT !.try = j.try + 1]
    <3>1. thr' = [thr EXCEPT ![t] = k] /\ Local
      <4>1. thr' = [thr EXCEPT ![t].seen = s, ![t].try = @ + 1] /\ Local
        BY <2>4 DEF NextStage
      <4> HIDE DEF s
      <4> QED BY <4>1 DEF TypeOK, Job
    <3>2. s \in Seq(Event)
      <4>1. j.seen \in Seq(Event) /\ First(t) \in 1..Len(j.seen)
        BY <2>1, FirstFound DEF Job
      <4> QED BY <4>1, SubSeqProperties
    <3>3. j.try \in {1, 2}
      <4>1. j.try \in {1, 2, 3}
        BY <1>0 DEF JobOK
      <4>2. Tag(t) \in {DepositTag[j.try], "DepositExpired"}
        BY <2>1, FirstFound DEF Awaited, At
      <4>3. DepositTag[3] = "CommitFinalized"
        BY DEF DepositTag
      <4> QED BY <2>4, <4>1, <4>2, <4>3
    <3>4. JobOK(i) /\ i.cmd = "deposit" /\ i.try = j.try
      <4>1. JobOK(i) /\ i.cmd = j.cmd
        <5> HIDE DEF s
        <5> QED BY <3>2, SeenOK
      <4> HIDE DEF s
      <4> QED BY <1>0, <4>1 DEF Job
    <3>5. JobOK(k)
      <4>1. i.try < 3
        BY <3>3, <3>4
      <4> HIDE DEF i
      <4> QED BY <3>4, <4>1, TryOK
    <3> HIDE DEF k
    <3> QED BY <3>1, <3>5, LocalType DEF Local, TypeOK
  <2> QED BY <1>4, <2>2, <2>3, <2>4 DEF DepositStage
<1>5. CASE DepositTimesOut(t)
  BY <1>5, ReplyType DEF DepositTimesOut, Replies
<1>6. CASE DepositGet(t)
  <2>1. CASE Reply(t, "deposited")
    BY <2>1, ReplyType DEF Replies
  <2>2. CASE ~Reply(t, "deposited")
    <3> DEFINE i == [j EXCEPT !.pc = "assign"]
               g == {p \in Party : dep[p] = "final"}
               k == [i EXCEPT !.got = g]
    <3>1. thr' = [thr EXCEPT ![t] = k] /\ Local
      <4>1. thr' = [thr EXCEPT ![t].pc = "assign", ![t].got = g] /\ Local
        BY <1>6, <2>2 DEF DepositGet
      <4> HIDE DEF g
      <4> QED BY <4>1 DEF TypeOK, Job
    <3>2. g \in SUBSET (Party \cup {"none"})
      OBVIOUS
    <3>3. JobOK([j EXCEPT !.got = g]) /\ [j EXCEPT !.got = g].cmd = j.cmd /\ [j EXCEPT !.got = g].got = g
      <4>1. j.pc # "assign"
        BY <1>6 DEF DepositGet, At
      <4> HIDE DEF g
      <4> QED BY <3>2, <4>1, GotOK DEF Job
    <3>4. JobOK([[j EXCEPT !.got = g] EXCEPT !.pc = "assign"])
      <4> DEFINE h == [j EXCEPT !.got = g]
      <4>1. g \subseteq Party
        OBVIOUS
      <4> HIDE DEF h, g
      <4>2. JobOK([h EXCEPT !.pc = "assign"])
        BY <1>0, <3>3, <4>1, PlaceOK DEF h
      <4> QED BY <4>2 DEF h
    <3>5. k = [[j EXCEPT !.got = g] EXCEPT !.pc = "assign"]
      <4> HIDE DEF g
      <4> QED BY DEF Job
    <3> HIDE DEF k
    <3> QED BY <3>1, <3>4, <3>5, LocalType DEF Local, TypeOK
  <2> QED BY <2>1, <2>2
<1>7. CASE DepositAssign(t)
  <2>1. JobOK(Done("deposited")) /\ thr' = [thr EXCEPT ![t] = Done("deposited")]
    BY <1>7, DoneOK DEF DepositAssign, Replies
  <2>2. thr' \in [Thread -> Job] /\ \A u \in Thread : JobOK(thr'[u])
    BY <2>1, JobSet
  <2>3. view' \subseteq Party
    BY <1>7 DEF DepositAssign, At, JobOK
  <2>4. Typed' /\ UNCHANGED <<conn, wire, log, status, ready>> /\ missed' \subseteq Thread \cup {"me"}
    BY <1>7 DEF DepositAssign, TypeOK, Typed, sockVars, headVars
  <2> QED BY <2>2, <2>3, <2>4, TypeOKIs, TypeOKNext
<1> QED BY <1>1, <1>2, <1>3, <1>4, <1>5, <1>6, <1>7

\* recover.
LEMMA RecoverType ==
  ASSUME TypeOK, setup' = setup, NEW t \in Thread, RecoverCommits(t) \/ RecoverDelete(t)
  PROVE  TypeOK'
<1> DEFINE j == thr[t]
<1> USE PlaceTells
<1>1. ASSUME At(t, "commits"), NEW p \in Pending,
             thr' = [thr EXCEPT ![t].pc = "delete", ![t].got = {p}] /\ Local
      PROVE TypeOK'
  <2> DEFINE i == [j EXCEPT !.pc = "delete"]
             k == [i EXCEPT !.got = {p}]
  <2>1. thr' = [thr EXCEPT ![t] = k] /\ Local
    BY <1>1 DEF TypeOK, Job
  <2>2. {p} \in SUBSET (Party \cup {"none"})
    BY DEF Pending
  <2>3. JobOK(i) /\ i.pc = "delete"
    BY <1>1, PlaceOK DEF At, Job
  <2>4. JobOK(k)
    <3> HIDE DEF i
    <3> QED BY <2>2, <2>3, GotOK
  <2> HIDE DEF k
  <2> QED BY <2>1, <2>4, LocalType DEF Local, TypeOK
<1>2. ASSUME At(t, "delete"), NEW p \in j.got \cap Pending,
             thr' = [thr EXCEPT ![t].pc = "recover", ![t].seen = <<>>],
             txs' = txs \cup {Tx("recover", t, p)},
             UNCHANGED <<head, dep, sockVars, clientVars, missed>>
      PROVE TypeOK'
  <2> DEFINE i == [j EXCEPT !.pc = "recover"]
             k == [i EXCEPT !.seen = <<>>]
  <2>1. thr' = [thr EXCEPT ![t] = k]
    BY <1>2 DEF TypeOK, Job
  <2>2. JobOK(i)
    BY <1>2, PlaceOK DEF At
  <2>3. JobOK(k)
    <3> HIDE DEF i
    <3> QED BY <2>2, EmptyOK
  <2> HIDE DEF k
  <2>4. thr' \in [Thread -> Job] /\ \A u \in Thread : JobOK(thr'[u])
    BY <2>1, <2>3, JobSet
  <2>5. Tx("recover", t, p) \in Transaction
    BY DEF Tx, TypeOK, Job, Transaction, Pending
  <2>6. Typed' /\ UNCHANGED <<conn, wire, log, status, ready, view, missed>>
    BY <1>2, <2>5 DEF TypeOK, Typed, sockVars, clientVars
  <2> QED BY <2>4, <2>6, TypeOKIs, TypeOKNext
<1>3. ASSUME NEW r \in {"nothing", "refused"}, Reply(t, r) PROVE TypeOK'
  BY <1>3, ReplyType DEF Replies
<1> QED BY <1>1, <1>2, <1>3 DEF RecoverCommits, RecoverDelete

\* A command comes in.
LEMMA BeginType ==
  ASSUME TypeOK, setup' = setup, NEW t \in Thread, NEW c \in Command, Begin(t, c)
  PROVE  TypeOK'
<1> DEFINE P == UNION {Places[x] : x \in DOMAIN Places}
           p == CASE c = "fanout" -> "look" [] c = "deposit" -> "commit" [] c = "recover" -> "commits"
                  [] OTHER -> "send"
           d == IF c = "init" THEN "init" ELSE "close"
           s == IF c = "fanout" /\ ready THEN log ELSE <<>>
           b == Sure(c)
           k == [New EXCEPT !.cmd = c, !.no = head.no, !.sure = b, !.pc = p, !.do = d, !.seen = s]
<1>1. p \in Places[c] /\ p \in P /\ p # "assign"
  BY PlacesAre DEF Command
<1>2. s \in Seq(Event) /\ head.no \in Nat /\ b \in BOOLEAN
  BY DEF TypeOK, Sure
<1>3. JobOK(New)
  BY NewOK
<1>4. JobOK(k)
  <2> HIDE DEF P, p, s, b
  <2>1. k \in Job
    BY <1>1, <1>2, <1>3 DEF JobOK, Job, P
  <2>2. k.cmd = c /\ k.pc = p /\ k.try = New.try /\ k.do = d
    BY <1>3 DEF JobOK, Job
  <2>3. k.try = 1
    BY <2>2 DEF New
  <2> QED BY <1>1, <2>1, <2>2, <2>3, HeadAssumption DEF JobOK
<1>5. ASSUME NEW u \in Thread PROVE thr'[u] \in Job /\ JobOK(thr'[u])
  <2>1. CASE u = t
    <3>1. thr'[t] = k
      BY DEF Begin
    <3> HIDE DEF k
    <3> QED BY <1>4, <2>1, <3>1 DEF JobOK
  <2>2. CASE u # t
    <3> DEFINE x == thr[u].sure /\ thr[u].cmd # "close"
    <3>1. thr'[u] = [thr[u] EXCEPT !.sure = x]
      BY <2>2 DEF Begin
    <3>2. x \in BOOLEAN /\ JobOK(thr[u])
      BY TypeOKIs
    <3> HIDE DEF x
    <3>3. thr'[u] \in Job
      BY <3>1, <3>2 DEF JobOK, Job
    <3>4. thr'[u].cmd = thr[u].cmd /\ thr'[u].pc = thr[u].pc /\ thr'[u].try = thr[u].try
          /\ thr'[u].do = thr[u].do /\ thr'[u].got = thr[u].got
      BY <3>1, <3>2 DEF JobOK, Job
    <3> QED BY <3>2, <3>3, <3>4 DEF JobOK
  <2> QED BY <2>1, <2>2
<1>6. thr' \in [Thread -> Job]
  <2>1. thr' = [u \in Thread |-> thr'[u]]
    BY DEF Begin
  <2> QED BY <1>5, <2>1
<1>7. Typed' /\ UNCHANGED <<conn, wire, log, status, ready, view>>
  BY DEF Begin, TypeOK, Typed, headVars, sockVars, clientVars
<1>8. missed' \subseteq Thread \cup {"me"}
  BY DEF Begin, TypeOK
<1> QED BY <1>5, <1>6, <1>7, <1>8, TypeOKIs, TypeOKNext

\* Each step keeps the types.
LEMMA TypeStep ==
  ASSUME TypeOK, [Next]_vars
  PROVE  TypeOK'
<1>1. CASE UNCHANGED vars
  BY <1>1 DEF vars, headVars, sockVars, clientVars, TypeOK
<1>2. ASSUME Next PROVE TypeOK'
  <2>1. ASSUME NEW t \in Thread, Acts(t) PROVE TypeOK'
    <3>1. setup' = setup
      BY <1>2, Steps
    <3>2. CASE Raises(t)
      BY <3>1, <3>2, ReplyType DEF Raises, Replies
    <3>3. CASE InitDone(t) \/ FanoutDone(t) \/ RecoverDone(t)
      BY <3>1, <3>3, ConcludesType DEF InitDone, FanoutDone, RecoverDone
    <3>4. ASSUME NEW c \in Command, Begin(t, c) PROVE TypeOK'
      BY <3>1, <3>4, BeginType
    <3> QED BY <2>1, <3>1, <3>2, <3>3, <3>4, SendType, CloseType, FanoutType, DepositType, RecoverType DEF Acts
  <2> QED BY <1>2, <2>1, Steps, NodeType, SocketType
<1> QED BY <1>1, <1>2

\* Every variable has its type (TypeOK) in every reachable state, whatever the
\* commands, the peer, the websocket and layer 1 do: a thread of hydrapay.py is
\* where its command may be, sends at most Attempts closes (cmd_close) and is in
\* one of three stages of a deposit (cmd_deposit).
THEOREM TypeCorrect == Spec => []TypeOK
<1>1. Init => TypeOK
  <2> SUFFICES ASSUME Init PROVE TypeOK
    OBVIOUS
  <2>1. setup \in Setups /\ setup.heads \in Nat \ {0}
    BY HeadAssumption DEF Init
  <2>2. head \in [no : 0..setup.heads, st : State, ready : BOOLEAN]
    BY <2>1 DEF Init, State
  <2>3. ASSUME NEW t \in Thread PROVE thr[t] \in Job /\ JobOK(thr[t])
    BY NewOK DEF Init, JobOK
  <2>4. thr \in [Thread -> Job]
    BY <2>3 DEF Init
  <2>5. Typed
    BY <2>1, <2>2 DEF Init, Typed
  <2>6. wire \in Seq(Message) /\ log \in Seq(Event) /\ conn = FALSE /\ ready = FALSE /\ status = "unknown"
        /\ view = {} /\ missed = {}
    BY DEF Init
  <2> QED BY <2>3, <2>4, <2>5, <2>6, TypeOKIs
<1>2. TypeOK /\ [Next]_vars => TypeOK'
  BY TypeStep
<1> QED BY <1>1, <1>2, PTL DEF Spec

-----------------------------------------------------------------------------
(* The websocket.  Another head is opened only when nothing is on its way  *)
(* (Prompt), so what is on the wire is about the head there is.            *)

\* A message after which the client believes the head to be closed.
Closing(m) == m.tag = "HeadIsClosed" \/ (m.tag = "Greetings" /\ m.st = "Closed")

OnWire(tag) == \E i \in DOMAIN wire : wire[i].tag = tag

WireInv ==
  /\ head.ready => head.st = "Closed"
  /\ ~conn => wire = <<>>
  /\ \A i \in DOMAIN wire : wire[i].tag = "Greetings" => i = 1
  /\ OnWire("HeadIsFinalized") => head.st = "Idle"
  /\ OnWire("ReadyToFanout") => head.ready \/ head.st = "Idle"
  /\ \A i \in DOMAIN wire : Closing(wire[i]) =>
       /\ head.st # "Open"
       /\ head.st = "Idle" => \E j \in DOMAIN wire : j > i /\ wire[j].tag = "HeadIsFinalized"
       /\ \A j \in DOMAIN wire : j > i => wire[j].tag # "HeadIsClosed"

\* A client that missed nothing: its flag is the one of this closure, and the
\* head it believes to be closed is.
ClientInv ==
  "me" \notin missed =>
    /\ ready /\ head.st = "Closed" /\ ~OnWire("HeadIsClosed") => head.ready
    /\ status = "Closed" /\ ~OnWire("Greetings") =>
         /\ ~OnWire("HeadIsClosed") /\ head.st # "Open"
         /\ head.st = "Idle" => OnWire("HeadIsFinalized")

\* A message behind the others.
LEMMA Pushed ==
  ASSUME TypeOK, NEW m, wire' = Append(wire, m)
  PROVE  /\ Len(wire) \in Nat /\ DOMAIN wire = 1..Len(wire) /\ DOMAIN wire' = 1..(Len(wire) + 1)
         /\ \A i \in DOMAIN wire : wire'[i] = wire[i]
         /\ wire'[Len(wire) + 1] = m
         /\ \A tag : OnWire(tag)' <=> OnWire(tag) \/ m.tag = tag
<1>1. wire \in Seq(Message)
  BY DEF TypeOK
<1>2. Len(wire) \in Nat /\ DOMAIN wire = 1..Len(wire) /\ DOMAIN wire' = 1..(Len(wire) + 1)
      /\ (\A i \in DOMAIN wire : wire'[i] = wire[i]) /\ wire'[Len(wire) + 1] = m
  BY <1>1
<1>3. ASSUME NEW tag PROVE OnWire(tag)' <=> OnWire(tag) \/ m.tag = tag
  <2>1. OnWire(tag)' <=> \E i \in 1..(Len(wire) + 1) : wire'[i].tag = tag
    BY <1>2 DEF OnWire
  <2>2. \A i \in 1..(Len(wire) + 1) : i \in 1..Len(wire) \/ i = Len(wire) + 1
    BY <1>2
  <2>3. Len(wire) + 1 \in 1..(Len(wire) + 1) /\ \A i \in 1..Len(wire) : i \in 1..(Len(wire) + 1)
    BY <1>2
  <2> QED BY <1>2, <2>1, <2>2, <2>3 DEF OnWire
<1> QED BY <1>2, <1>3

\* The first message is taken.
LEMMA Popped ==
  ASSUME TypeOK, wire # <<>>, wire' = Tail(wire)
  PROVE  /\ Head(wire) = wire[1] /\ 1 \in DOMAIN wire /\ DOMAIN wire \subseteq Nat
         /\ \A i \in DOMAIN wire' : i \in Nat /\ i >= 1 /\ i + 1 \in DOMAIN wire /\ wire'[i] = wire[i + 1]
         /\ \A i \in DOMAIN wire : i > 1 => i - 1 \in DOMAIN wire'
         /\ \A i \in DOMAIN wire : i = 1 \/ i > 1
         /\ \A tag : OnWire(tag) <=> Head(wire).tag = tag \/ OnWire(tag)'
<1>1. wire \in Seq(Message)
  BY DEF TypeOK
<1>2. Len(wire) \in Nat \ {0} /\ DOMAIN wire = 1..Len(wire) /\ DOMAIN wire' = 1..(Len(wire) - 1)
      /\ (\A i \in DOMAIN wire' : wire'[i] = wire[i + 1]) /\ Head(wire) = wire[1]
  <2>1. Len(wire) \in Nat \ {0} /\ DOMAIN wire = 1..Len(wire) /\ Head(wire) = wire[1]
    BY <1>1
  <2>2. wire' \in Seq(Message) /\ Len(wire') = Len(wire) - 1 /\ \A i \in 1..Len(wire') : wire'[i] = wire[i + 1]
    BY <1>1, <2>1, HeadTailProperties
  <2> QED BY <2>1, <2>2
<1>3. /\ \A i \in DOMAIN wire' : i \in Nat /\ i >= 1 /\ i + 1 \in DOMAIN wire
      /\ \A i \in DOMAIN wire : i > 1 => i - 1 \in DOMAIN wire'
      /\ \A i \in DOMAIN wire : i = 1 \/ i > 1
  BY <1>2
<1>4. ASSUME NEW tag PROVE OnWire(tag) <=> Head(wire).tag = tag \/ OnWire(tag)'
  <2>1. ASSUME NEW i \in DOMAIN wire, wire[i].tag = tag, i > 1 PROVE OnWire(tag)'
    <3>1. i - 1 \in DOMAIN wire' /\ wire'[i - 1] = wire[i]
      BY <1>2, <1>3, <2>1
    <3> QED BY <2>1, <3>1 DEF OnWire
  <2>2. ASSUME NEW i \in DOMAIN wire', wire'[i].tag = tag PROVE OnWire(tag)
    BY <1>2, <1>3, <2>2 DEF OnWire
  <2>3. 1 \in DOMAIN wire
    BY <1>2
  <2> QED BY <1>2, <1>3, <2>1, <2>2, <2>3 DEF OnWire
<1>5. 1 \in DOMAIN wire /\ DOMAIN wire \subseteq Nat
  BY <1>2
<1> QED BY <1>2, <1>3, <1>4, <1>5

LEMMA EmptyWire ==
  ASSUME wire = <<>>
  PROVE  DOMAIN wire = {} /\ \A tag : ~OnWire(tag)
  BY DEF OnWire

\* What the step of a thread leaves alone.
LEMMA ActsFrame ==
  ASSUME TypeOK, NEW t \in Thread, Acts(t)
  PROVE  /\ head' = head /\ conn' = conn /\ log' = log /\ status' = status /\ ready' = ready
         /\ Send(t) \/ wire' = wire
         /\ Send(t) \/ missed' = missed \/ missed' = missed \ {t} \/ missed' = missed \cup {t}
         /\ (\E c \in Command : Begin(t, c)) \/ \A u \in Thread \ {t} : thr'[u] = thr[u]
<1> USE DEF Reply, Goto, Local, headVars, sockVars, clientVars
<1> DEFINE Frame == /\ head' = head /\ conn' = conn /\ log' = log /\ status' = status /\ ready' = ready
                    /\ wire' = wire
                    /\ missed' = missed \/ missed' = missed \ {t} \/ missed' = missed \cup {t}
                    /\ \A u \in Thread \ {t} : thr'[u] = thr[u]
<1>0. thr \in [Thread -> Job]
  BY DEF TypeOK
<1>1. ASSUME NEW r, Reply(t, r) PROVE Frame
  BY <1>0, <1>1
<1>2. ASSUME NEW p, Goto(t, p) PROVE Frame
  BY <1>0, <1>2
<1>3. CASE DepositSubmit(t) \/ RecoverDelete(t) \/ DepositAssign(t) \/ CloseAgain(t)
  BY <1>0, <1>1, <1>3 DEF DepositSubmit, RecoverDelete, DepositAssign, CloseAgain
<1>4. CASE CloseDone(t) \/ FanoutReady(t) \/ Raises(t) \/ DepositDraft(t) \/ DepositSubmitted(t) \/ DepositTimesOut(t)
  BY <1>1, <1>2, <1>4, Zenon DEF CloseDone, FanoutReady, Raises, DepositDraft, DepositSubmitted, DepositTimesOut
<1>5. CASE FanoutLooks(t) \/ FanoutMarks(t) \/ DepositGet(t) \/ RecoverCommits(t)
  BY <1>0, <1>1, <1>5 DEF FanoutLooks, FanoutMarks, DepositGet, RecoverCommits
<1>6. CASE FanoutDone(t) \/ InitDone(t) \/ RecoverDone(t)
  BY <1>1, <1>6, Zenon DEF FanoutDone, InitDone, RecoverDone, Concludes
<1>7. CASE DepositStage(t)
  BY <1>0, <1>7 DEF DepositStage, Expired, NextStage
<1>8. ASSUME NEW c \in Command, Begin(t, c)
      PROVE  /\ head' = head /\ conn' = conn /\ log' = log /\ status' = status /\ ready' = ready /\ wire' = wire
             /\ missed' = missed \/ missed' = missed \cup {t}
  BY <1>8 DEF Begin
<1>9. CASE Send(t)
  <2>1. head' = head /\ conn' = conn /\ log' = log /\ status' = status /\ ready' = ready
    BY <1>9 DEF Send
  <2>2. \E lost \in {0, 1} : Sent(t, lost)
    BY <1>9 DEF Send
  <2>3. \A u \in Thread \ {t} : thr'[u] = thr[u]
    BY <1>0, <2>2 DEF Sent
  <2> QED BY <1>9, <2>1, <2>3
<1> HIDE DEF Reply, Goto, Local, headVars, sockVars, clientVars
<1> QED BY <1>3, <1>4, <1>5, <1>6, <1>7, <1>8, <1>9 DEF Acts

\* What happens to a thread that does not act itself.
LEMMA OthersSame ==
  ASSUME TypeOK, Next, NEW t \in Thread, ~OnMessage, ~ClientRestart, ~Acts(t)
  PROVE  /\ thr'[t].cmd = thr[t].cmd /\ thr'[t].pc = thr[t].pc /\ thr'[t].do = thr[t].do
         /\ thr'[t].seen = thr[t].seen /\ thr'[t].try = thr[t].try /\ thr'[t].got = thr[t].got
         /\ thr'[t].no = thr[t].no /\ thr'[t].mixed = thr[t].mixed /\ (thr'[t].sure => thr[t].sure)
<1>0. thr[t] \in Job /\ thr \in [Thread -> Job]
  BY DEF TypeOK
<1>1. CASE thr'[t] = thr[t]
  BY <1>1
<1>2. ASSUME NEW x \in txs, Expire(x) PROVE thr'[t] = thr[t] \/ thr'[t] = [thr[t] EXCEPT !.lost = @ + 1]
  BY <1>0, <1>2 DEF Expire
<1>3. CASE thr'[t] = [thr[t] EXCEPT !.lost = @ + 1]
  BY <1>0, <1>3 DEF Job
<1>4. ASSUME NEW u \in Thread, NEW c \in Command, Begin(u, c), u # t
      PROVE  thr'[t] = [thr[t] EXCEPT !.sure = thr[t].sure /\ thr[t].cmd # "close"]
  BY <1>4 DEF Begin
<1>5. CASE thr'[t] = [thr[t] EXCEPT !.sure = thr[t].sure /\ thr[t].cmd # "close"]
  <2> DEFINE b == thr[t].sure /\ thr[t].cmd # "close"
  <2>1. (thr'[t] = [thr[t] EXCEPT !.sure = b]) /\ (b => thr[t].sure)
    BY <1>5
  <2> HIDE DEF b
  <2> QED BY <1>0, <2>1 DEF Job
<1>6. CASE Observes \/ Deadline \/ PeerDeposits \/ Snapshot \/ OnOpen \/ OnClose
  BY <1>1, <1>6 DEF Observes, Observe, Deadline, PeerDeposits, Snapshot, OnOpen, OnClose
<1>7. ASSUME NEW x \in txs, Fail(x) PROVE thr' = thr
  BY <1>7 DEF Fail
<1>8. ASSUME NEW p \in Party, NEW s \in Stages, DepositMoves(p, s) PROVE thr' = thr
  BY <1>8 DEF DepositMoves
<1>9. ASSUME NEW u \in Thread, Acts(u)
      PROVE  thr'[t] = thr[t] \/ \E c \in Command : Begin(u, c) /\ u # t
  BY <1>9, ActsFrame
<1> QED BY <1>1, <1>2, <1>3, <1>4, <1>5, <1>6, <1>7, <1>8, <1>9, Steps

\* What the node says, and who misses it.
LEMMA Says ==
  ASSUME TypeOK, WireInv, NEW tag, NEW of, Emit(tag, of)
  PROVE  /\ conn => wire' = Append(wire, Msg(tag, of)) /\ missed' = missed /\ Msg(tag, of).tag = tag
         /\ ~conn => /\ wire' = wire /\ wire = <<>>
                     /\ "me" \in missed' /\ \A t \in Thread : Active(t) => t \in missed'
  BY DEF Emit, Missing, WireInv, Msg

\* An event that is not about the state of the head.
LEMMA SaysOther ==
  ASSUME TypeOK, WireInv, ClientInv, NEW of, head' = head, conn' = conn, UNCHANGED <<status, ready>>,
         NEW tag, tag \notin {"Greetings", "HeadIsClosed", "ReadyToFanout", "HeadIsFinalized"}, Emit(tag, of)
  PROVE  WireInv' /\ ClientInv' /\ (\A x : OnWire(x) => OnWire(x)') /\ (conn => OnWire(tag)')
<1>1. CASE ~conn
  <2>1. wire' = wire /\ "me" \in missed'
    BY <1>1, Says
  <2> QED BY <1>1, <2>1 DEF WireInv, ClientInv, OnWire
<1>2. CASE conn
  <2> DEFINE m == Msg(tag, of)
             n == Len(wire) + 1
  <2>1. wire' = Append(wire, m) /\ missed' = missed /\ m.tag = tag /\ ~Closing(m)
    BY <1>2, Says DEF Closing
  <2> HIDE DEF m
  <2>2. /\ DOMAIN wire = 1..Len(wire) /\ DOMAIN wire' = 1..(Len(wire) + 1) /\ Len(wire) \in Nat
        /\ \A i \in DOMAIN wire : wire'[i] = wire[i]
        /\ wire'[Len(wire) + 1] = m
        /\ \A x : OnWire(x)' <=> OnWire(x) \/ m.tag = x
    BY <2>1, Pushed
  <2>3. \A i \in DOMAIN wire' : (i \in DOMAIN wire /\ wire'[i] = wire[i]) \/ (i = n /\ wire'[i] = m)
    BY <2>2
  <2>4. \A i \in DOMAIN wire : i \in DOMAIN wire' /\ wire'[i] = wire[i]
    BY <2>2
  <2>5. \A i \in DOMAIN wire' : Closing(wire'[i]) => i \in DOMAIN wire /\ Closing(wire[i])
    BY <2>1, <2>3
  <2>6. WireInv'
    <3>1. \A i \in DOMAIN wire' : wire'[i].tag = "Greetings" => i = 1
      BY <2>1, <2>3 DEF WireInv
    <3>2. \A i \in DOMAIN wire' : Closing(wire'[i]) =>
             /\ head.st # "Open"
             /\ head.st = "Idle" => \E j \in DOMAIN wire' : j > i /\ wire'[j].tag = "HeadIsFinalized"
             /\ \A j \in DOMAIN wire' : j > i => wire'[j].tag # "HeadIsClosed"
      BY <2>1, <2>3, <2>4, <2>5 DEF WireInv
    <3>3. ~OnWire("HeadIsFinalized") <=> ~OnWire("HeadIsFinalized")'
      BY <2>1, <2>2
    <3>4. ~OnWire("ReadyToFanout") <=> ~OnWire("ReadyToFanout")'
      BY <2>1, <2>2
    <3> QED BY <1>2, <3>1, <3>2, <3>3, <3>4 DEF WireInv
  <2>7. ClientInv'
    <3>1. \A x \in {"HeadIsClosed", "Greetings", "HeadIsFinalized"} : OnWire(x)' <=> OnWire(x)
      BY <2>1, <2>2
    <3> QED BY <2>1, <3>1 DEF ClientInv
  <2> QED BY <2>1, <2>2, <2>6, <2>7
<1> QED BY <1>1, <1>2

\* The only message there is.
LEMMA OneMessage ==
  ASSUME TypeOK, NEW m, wire = <<>>, wire' = Append(wire, m) \/ wire' = <<m>>
  PROVE  DOMAIN wire' = {1} /\ wire'[1] = m /\ \A tag : OnWire(tag)' <=> m.tag = tag
<1>1. wire' = <<m>>
  BY DEF TypeOK
<1> QED BY <1>1 DEF OnWire

\* What an observed transaction makes of the head.
LEMMA ObserveIs ==
  ASSUME TypeOK, NEW do \in DOMAIN Observed, NEW of, Observe(do, of)
  PROVE  /\ UNCHANGED <<conn, log, status, ready, view, thr>>
         /\ do = "init" => /\ head.st = "Idle" /\ Prompt /\ Emit("HeadIsOpen", of)
                           /\ head'.no = head.no + 1 /\ head'.st = "Open" /\ ~head'.ready
         /\ do = "close" => /\ head.st = "Open" /\ Emit("HeadIsClosed", of)
                            /\ head'.no = head.no /\ head'.st = "Closed" /\ head'.ready = head.ready
         /\ do = "fanout" => /\ head.st = "Closed" /\ head.ready /\ Emit("HeadIsFinalized", of)
                             /\ head'.no = head.no /\ head'.st = "Idle" /\ ~head'.ready
         /\ do = "recover" => head' = head /\ Emit("CommitRecovered", of)
<1>1. UNCHANGED <<conn, log, status, ready, view, thr>> /\ Accepts(do, of) /\ Emit(Observed[do], of) /\ (do = "init" => Prompt)
  BY DEF Observe, clientVars
<1>2. head \in [no : 0..setup.heads, st : State, ready : BOOLEAN]
  BY DEF TypeOK
<1>3. CASE do = "init"
  BY <1>1, <1>2, <1>3 DEF Observe, Accepts, Observed
<1>4. CASE do = "close"
  BY <1>1, <1>2, <1>4 DEF Observe, Accepts, Observed
<1>5. CASE do = "fanout"
  BY <1>1, <1>2, <1>5 DEF Observe, Accepts, Observed
<1>6. CASE do = "recover"
  BY <1>1, <1>2, <1>6 DEF Observe, Accepts, Observed
<1> QED BY <1>1, <1>3, <1>4, <1>5, <1>6, ObservedType

\* A new head, and the deadline, find the wire empty.
LEMMA FreshStep ==
  ASSUME TypeOK, WireInv, ClientInv, NEW of, UNCHANGED <<conn, status, ready>>, wire = <<>>,
         \/ /\ head.st = "Idle" /\ head'.st = "Open" /\ ~head'.ready /\ Emit("HeadIsOpen", of)
         \/ /\ head.st = "Closed" /\ head'.st = "Closed" /\ head'.ready /\ Emit("ReadyToFanout", of)
  PROVE  WireInv' /\ ClientInv'
<1> DEFINE tag == IF head.st = "Idle" THEN "HeadIsOpen" ELSE "ReadyToFanout"
<1>1. Emit(tag, of)
  OBVIOUS
<1>2. CASE ~conn
  <2>1. wire' = <<>> /\ "me" \in missed'
    BY <1>1, <1>2, Says
  <2>2. DOMAIN wire' = {} /\ \A x : ~OnWire(x)'
    BY <2>1 DEF OnWire
  <2> QED BY <1>2, <2>1, <2>2 DEF WireInv, ClientInv
<1>3. CASE conn
  <2> DEFINE m == Msg(tag, of)
  <2>1. wire' = Append(wire, m) /\ missed' = missed /\ m.tag = tag
    BY <1>1, <1>3, Says
  <2>2. ~Closing(m) /\ tag # "Greetings" /\ tag # "HeadIsClosed" /\ tag # "HeadIsFinalized"
    BY <2>1 DEF Closing
  <2> HIDE DEF m
  <2>3. DOMAIN wire' = {1} /\ wire'[1] = m /\ \A x : OnWire(x)' <=> m.tag = x
    BY <2>1, OneMessage
  <2>4. \A x : ~OnWire(x)
    BY EmptyWire
  <2>5. WireInv'
    BY <1>3, <2>1, <2>2, <2>3 DEF WireInv
  <2>6. ClientInv'
    BY <2>1, <2>2, <2>3, <2>4 DEF ClientInv
  <2> QED BY <2>5, <2>6
<1> QED BY <1>2, <1>3

\* A closure.
LEMMA CloseObserved ==
  ASSUME TypeOK, WireInv, ClientInv, NEW of, UNCHANGED <<conn, status, ready>>,
         head.st = "Open", head'.st = "Closed", head'.ready = head.ready, Emit("HeadIsClosed", of)
  PROVE  WireInv' /\ ClientInv'
<1>0. ~head.ready /\ ~OnWire("HeadIsFinalized") /\ ~OnWire("ReadyToFanout") /\ \A i \in DOMAIN wire : ~Closing(wire[i])
  BY DEF WireInv
<1>1. CASE ~conn
  <2>1. wire' = <<>> /\ "me" \in missed'
    BY <1>1, Says
  <2>2. DOMAIN wire' = {} /\ \A x : ~OnWire(x)'
    BY <2>1 DEF OnWire
  <2> QED BY <1>0, <1>1, <2>1, <2>2 DEF WireInv, ClientInv
<1>2. CASE conn
  <2> DEFINE m == Msg("HeadIsClosed", of)
             n == Len(wire) + 1
  <2>1. wire' = Append(wire, m) /\ missed' = missed /\ m.tag = "HeadIsClosed"
    BY <1>2, Says
  <2> HIDE DEF m
  <2>2. /\ DOMAIN wire = 1..Len(wire) /\ DOMAIN wire' = 1..(Len(wire) + 1) /\ Len(wire) \in Nat
        /\ \A i \in DOMAIN wire : wire'[i] = wire[i]
        /\ wire'[Len(wire) + 1] = m
        /\ \A x : OnWire(x)' <=> OnWire(x) \/ m.tag = x
    BY <2>1, Pushed
  <2>3. \A i \in DOMAIN wire' : (i \in DOMAIN wire /\ wire'[i] = wire[i]) \/ (i = n /\ wire'[i] = m)
    BY <2>2
  <2>4. \A i \in DOMAIN wire' : Closing(wire'[i]) => i = n
    BY <1>0, <2>3
  <2>5. \A j \in DOMAIN wire' : ~(j > n)
    BY <2>2
  <2>6. WireInv'
    <3>1. \A i \in DOMAIN wire' : wire'[i].tag = "Greetings" => i = 1
      BY <2>1, <2>3 DEF WireInv
    <3>2. \A i \in DOMAIN wire' : Closing(wire'[i]) => \A j \in DOMAIN wire' : j > i => wire'[j].tag # "HeadIsClosed"
      BY <2>4, <2>5
    <3>3. ~OnWire("HeadIsFinalized")' /\ ~OnWire("ReadyToFanout")'
      BY <1>0, <2>1, <2>2
    <3> QED BY <1>0, <1>2, <3>1, <3>2, <3>3 DEF WireInv
  <2>7. ClientInv'
    <3>1. OnWire("HeadIsClosed")' /\ (~OnWire("Greetings")' => ~OnWire("Greetings"))
      BY <2>1, <2>2
    <3> QED BY <2>1, <3>1 DEF ClientInv
  <2> QED BY <2>6, <2>7
<1> QED BY <1>1, <1>2

\* A fan-out.
LEMMA FanoutObserved ==
  ASSUME TypeOK, WireInv, ClientInv, NEW of, UNCHANGED <<conn, status, ready>>,
         head.st = "Closed", head'.st = "Idle", ~head'.ready, Emit("HeadIsFinalized", of)
  PROVE  WireInv' /\ ClientInv'
<1>1. CASE ~conn
  <2>1. wire' = <<>> /\ "me" \in missed'
    BY <1>1, Says
  <2>2. DOMAIN wire' = {} /\ \A x : ~OnWire(x)'
    BY <2>1 DEF OnWire
  <2> QED BY <1>1, <2>1, <2>2 DEF WireInv, ClientInv
<1>2. CASE conn
  <2> DEFINE m == Msg("HeadIsFinalized", of)
             n == Len(wire) + 1
  <2>1. wire' = Append(wire, m) /\ missed' = missed /\ m.tag = "HeadIsFinalized" /\ ~Closing(m)
    BY <1>2, Says DEF Closing
  <2> HIDE DEF m
  <2>2. /\ DOMAIN wire = 1..Len(wire) /\ DOMAIN wire' = 1..(Len(wire) + 1) /\ Len(wire) \in Nat
        /\ \A i \in DOMAIN wire : wire'[i] = wire[i]
        /\ wire'[Len(wire) + 1] = m
        /\ \A x : OnWire(x)' <=> OnWire(x) \/ m.tag = x
    BY <2>1, Pushed
  <2>3. \A i \in DOMAIN wire' : (i \in DOMAIN wire /\ wire'[i] = wire[i] /\ n > i) \/ (i = n /\ wire'[i] = m)
    BY <2>2
  <2>4. n \in DOMAIN wire' /\ wire'[n] = m
    BY <2>2
  <2>5. \A i \in DOMAIN wire' : Closing(wire'[i]) => i \in DOMAIN wire /\ Closing(wire[i]) /\ n > i
    BY <2>1, <2>3
  <2>6. WireInv'
    <3>1. \A i \in DOMAIN wire' : wire'[i].tag = "Greetings" => i = 1
      BY <2>1, <2>3 DEF WireInv
    <3>2. \A i \in DOMAIN wire' : Closing(wire'[i]) =>
             /\ \E j \in DOMAIN wire' : j > i /\ wire'[j].tag = "HeadIsFinalized"
             /\ \A j \in DOMAIN wire' : j > i => wire'[j].tag # "HeadIsClosed"
      BY <2>1, <2>3, <2>4, <2>5 DEF WireInv
    <3> QED BY <1>2, <3>1, <3>2 DEF WireInv
  <2>7. ClientInv'
    <3>1. OnWire("HeadIsFinalized")' /\ (~OnWire("Greetings")' => ~OnWire("Greetings"))
          /\ (OnWire("HeadIsClosed")' => OnWire("HeadIsClosed"))
      BY <2>1, <2>2
    <3> QED BY <2>1, <3>1 DEF ClientInv
  <2> QED BY <2>6, <2>7
<1> QED BY <1>1, <1>2

\* The client takes a message.
LEMMA MessageTaken ==
  ASSUME TypeOK, WireInv, ClientInv, OnMessage
  PROVE  WireInv' /\ ClientInv'
<1> DEFINE m == Head(wire)
<1>1. wire # <<>> /\ wire' = Tail(wire) /\ head' = head /\ conn' = conn /\ missed' = missed
      /\ ready' = ReadyAfter(m) /\ status' = StatusAfter(m)
  BY DEF OnMessage, headVars
<1> HIDE DEF m
<1>2. /\ m = wire[1] /\ 1 \in DOMAIN wire /\ DOMAIN wire \subseteq Nat
      /\ \A i \in DOMAIN wire' : i \in Nat /\ i >= 1 /\ i + 1 \in DOMAIN wire /\ wire'[i] = wire[i + 1]
      /\ \A i \in DOMAIN wire : i > 1 => i - 1 \in DOMAIN wire'
      /\ \A i \in DOMAIN wire : i = 1 \/ i > 1
      /\ \A tag : OnWire(tag) <=> m.tag = tag \/ OnWire(tag)'
  BY <1>1, Popped DEF m
<1>3. \A i \in DOMAIN wire' : wire'[i].tag # "Greetings"
  <2> SUFFICES ASSUME NEW i \in DOMAIN wire', wire[i + 1].tag = "Greetings" PROVE FALSE
    BY <1>2
  <2>1. i + 1 = 1 /\ i \in Nat /\ i >= 1
    BY <1>2 DEF WireInv
  <2> QED BY <2>1
<1>4. WireInv'
  <2>1. ASSUME NEW i \in DOMAIN wire', Closing(wire'[i])
        PROVE  /\ head.st # "Open"
               /\ head.st = "Idle" => \E j \in DOMAIN wire' : j > i /\ wire'[j].tag = "HeadIsFinalized"
               /\ \A j \in DOMAIN wire' : j > i => wire'[j].tag # "HeadIsClosed"
    <3>1. i + 1 \in DOMAIN wire /\ Closing(wire[i + 1]) /\ i \in Nat /\ i >= 1
      BY <1>2, <2>1
    <3>2. head.st # "Open"
      BY <3>1 DEF WireInv
    <3>3. ASSUME head.st = "Idle" PROVE \E j \in DOMAIN wire' : j > i /\ wire'[j].tag = "HeadIsFinalized"
      <4>1. PICK j \in DOMAIN wire : j > i + 1 /\ wire[j].tag = "HeadIsFinalized"
        BY <3>1, <3>3 DEF WireInv
      <4>2. j \in Nat /\ j > 1 /\ j - 1 > i /\ (j - 1) + 1 = j
        BY <1>2, <3>1, <4>1
      <4>3. j - 1 \in DOMAIN wire'
        BY <1>2, <4>2
      <4>4. wire'[j - 1] = wire[j]
        BY <1>2, <4>2, <4>3
      <4> QED BY <4>1, <4>2, <4>3, <4>4
    <3>4. ASSUME NEW j \in DOMAIN wire', j > i PROVE wire'[j].tag # "HeadIsClosed"
      <4>1. j + 1 \in DOMAIN wire /\ wire'[j] = wire[j + 1] /\ j + 1 > i + 1
        BY <1>2, <3>1, <3>4
      <4> QED BY <3>1, <4>1 DEF WireInv
    <3> QED BY <3>2, <3>3, <3>4
  <2>2. ~conn => wire' = <<>>
    BY <1>1 DEF WireInv
  <2> QED BY <1>1, <1>2, <1>3, <2>1, <2>2 DEF WireInv
<1>5. ASSUME "me" \notin missed, ready', head.st = "Closed", ~OnWire("HeadIsClosed")' PROVE head.ready
  <2>1. CASE m.tag = "ReadyToFanout"
    BY <1>2, <1>5, <2>1 DEF WireInv
  <2>2. CASE m.tag = "HeadIsClosed"
    BY <1>1, <1>5, <2>2 DEF ReadyAfter
  <2>3. CASE m.tag \notin {"ReadyToFanout", "HeadIsClosed"}
    BY <1>1, <1>2, <1>5, <2>3 DEF ReadyAfter, ClientInv
  <2> QED BY <2>1, <2>2, <2>3
<1>6. ASSUME "me" \notin missed, status' = "Closed"
      PROVE  ~OnWire("HeadIsClosed")' /\ head.st # "Open" /\ (head.st = "Idle" => OnWire("HeadIsFinalized")')
  <2>1. CASE Closing(m)
    <3>1. /\ head.st # "Open"
          /\ head.st = "Idle" => \E j \in DOMAIN wire : j > 1 /\ wire[j].tag = "HeadIsFinalized"
          /\ \A j \in DOMAIN wire : j > 1 => wire[j].tag # "HeadIsClosed"
      BY <1>2, <2>1 DEF WireInv
    <3>2. ~OnWire("HeadIsClosed")'
      <4>1. ASSUME NEW i \in DOMAIN wire' PROVE wire'[i].tag # "HeadIsClosed"
        <5>1. i + 1 \in DOMAIN wire /\ wire'[i] = wire[i + 1] /\ i + 1 > 1
          BY <1>2
        <5> QED BY <3>1, <5>1
      <4> QED BY <4>1 DEF OnWire
    <3>3. m.tag # "HeadIsFinalized"
      BY <2>1 DEF Closing
    <3>4. head.st = "Idle" => OnWire("HeadIsFinalized")
      BY <3>1 DEF OnWire
    <3> QED BY <1>2, <3>1, <3>2, <3>3, <3>4
  <2>2. CASE ~Closing(m)
    <3>1. status = "Closed" /\ m.tag # "Greetings" /\ m.tag # "HeadIsFinalized" /\ m.tag # "HeadIsClosed"
      BY <1>1, <1>6, <2>2 DEF StatusAfter, Closing
    <3>2. ~OnWire("Greetings")
      BY <1>2, <1>3, <3>1 DEF OnWire
    <3> QED BY <1>2, <1>6, <3>1, <3>2 DEF ClientInv
  <2> QED BY <2>1, <2>2
<1>7. ClientInv'
  BY <1>1, <1>5, <1>6 DEF ClientInv
<1> QED BY <1>4, <1>7

\* A client that connects is greeted, one that goes has nothing.
LEMMA ConnectStep ==
  ASSUME TypeOK, WireInv, ClientInv, OnOpen \/ OnClose \/ ClientRestart
  PROVE  WireInv' /\ ClientInv'
<1>1. CASE OnOpen
  <2> DEFINE m == Msg("Greetings", "none")
  <2>1. ~conn /\ conn' = TRUE /\ head' = head /\ wire' = <<m>> /\ UNCHANGED <<status, ready, missed>>
    BY <1>1 DEF OnOpen, headVars, clientVars
  <2>2. m.tag = "Greetings" /\ m.st = head.st
    BY <2>1 DEF Msg
  <2> HIDE DEF m
  <2>3. wire = <<>>
    BY <2>1 DEF WireInv
  <2>4. (\A x : ~OnWire(x)) /\ DOMAIN wire' = {1} /\ wire'[1] = m /\ \A x : OnWire(x)' <=> m.tag = x
    BY <2>1, <2>3, EmptyWire, OneMessage
  <2>5. Closing(m) => head.st = "Closed"
    BY <2>2 DEF Closing
  <2>6. WireInv'
    <3>1. \A i \in DOMAIN wire' : i = 1 /\ ~(i > 1) /\ wire'[i] = m
      BY <2>4
    <3> QED BY <2>1, <2>2, <2>4, <2>5, <3>1 DEF WireInv
  <2>7. ClientInv'
    BY <2>1, <2>2, <2>4 DEF ClientInv
  <2> QED BY <2>6, <2>7
<1>2. CASE OnClose
  <2>1. conn' = FALSE /\ wire' = <<>> /\ head' = head /\ UNCHANGED <<status, ready>>
        /\ (wire = <<>> => missed' = missed) /\ (wire # <<>> => "me" \in missed')
    BY <1>2 DEF OnClose, headVars, clientVars, Missing
  <2>2. DOMAIN wire' = {} /\ \A x : ~OnWire(x)'
    BY <2>1 DEF OnWire
  <2>3. WireInv'
    BY <2>1, <2>2 DEF WireInv
  <2>4. CASE wire = <<>>
    <3>1. \A x : ~OnWire(x)
      BY <2>4, EmptyWire
    <3> QED BY <2>1, <2>2, <2>3, <2>4, <3>1 DEF ClientInv
  <2>5. CASE wire # <<>>
    BY <2>1, <2>3, <2>5 DEF ClientInv
  <2> QED BY <2>4, <2>5
<1>3. CASE ClientRestart
  <2>1. conn' = FALSE /\ wire' = <<>> /\ head' = head /\ status' = "unknown" /\ ready' = FALSE
    BY <1>3 DEF ClientRestart, headVars
  <2>2. DOMAIN wire' = {} /\ \A x : ~OnWire(x)'
    BY <2>1 DEF OnWire
  <2> QED BY <2>1, <2>2 DEF WireInv, ClientInv
<1> QED BY <1>1, <1>2, <1>3

\* Of a thread, the input alone is answered; its reply ends its own history.
LEMMA ActsWire ==
  ASSUME TypeOK, WireInv, ClientInv, NEW t \in Thread, Acts(t)
  PROVE  WireInv' /\ ClientInv' /\ \A x : OnWire(x) => OnWire(x)'
<1>0. head' = head /\ conn' = conn /\ UNCHANGED <<status, ready>>
  BY ActsFrame
<1>1. CASE Send(t)
  <2>1. Silent \/ Emit("CommandFailed", "none") \/ Emit("RejectedInputBecauseUnsynced", "none")
    BY <1>1 DEF Send
  <2>2. CASE Silent
    BY <1>0, <2>2 DEF Silent, WireInv, ClientInv, OnWire
  <2> QED BY <1>0, <2>1, <2>2, SaysOther
<1>2. CASE ~Send(t)
  <2>1. wire' = wire /\ ("me" \in missed => "me" \in missed')
    BY <1>2, ActsFrame, HeadAssumption DEF Party
  <2> QED BY <1>0, <2>1 DEF WireInv, ClientInv, OnWire
<1> QED BY <1>1, <1>2

LEMMA WireStep ==
  ASSUME TypeOK, WireInv, ClientInv, [Next]_vars
  PROVE  WireInv' /\ ClientInv'
<1>1. CASE UNCHANGED vars
  BY <1>1 DEF vars, headVars, sockVars, clientVars, WireInv, ClientInv, OnWire
<1>2. CASE Next
  <2>1. CASE Observes
    <3>1. PICK do \in DOMAIN Observed, of \in Party \cup {"none"} : Observe(do, of)
      BY <2>1 DEF Observes
    <3>2. CASE do = "init"
      BY <3>1, <3>2, ObserveIs, FreshStep DEF Prompt
    <3>3. CASE do = "close"
      BY <3>1, <3>3, ObserveIs, CloseObserved
    <3>4. CASE do = "fanout"
      BY <3>1, <3>4, ObserveIs, FanoutObserved
    <3>5. CASE do = "recover"
      BY <3>1, <3>5, ObserveIs, SaysOther
    <3> QED BY <3>2, <3>3, <3>4, <3>5, ObservedType
  <2>2. CASE Deadline
    <3>1. wire = <<>> /\ head.st = "Closed" /\ head'.st = "Closed" /\ head'.ready /\ Emit("ReadyToFanout", "none")
          /\ UNCHANGED <<conn, status, ready>>
      BY <2>2 DEF Deadline, Prompt, clientVars, TypeOK
    <3> QED BY <3>1, FreshStep
  <2>3. ASSUME NEW x \in txs, Fail(x) PROVE WireInv' /\ ClientInv'
    BY <2>3, SaysOther DEF Fail, clientVars
  <2>4. ASSUME NEW x \in txs, Expire(x) PROVE WireInv' /\ ClientInv'
    BY <2>4 DEF Expire, sockVars, clientVars, WireInv, ClientInv, OnWire
  <2>5. ASSUME NEW p \in Party, NEW s \in Stages, DepositMoves(p, s) PROVE WireInv' /\ ClientInv'
    <3>1. head' = head /\ UNCHANGED <<conn, status, ready>> /\ \E of : Emit(s[3], of)
      BY <2>5 DEF DepositMoves, clientVars
    <3> QED BY <3>1, SaysOther, StagesType
  <2>6. CASE PeerDeposits
    BY <2>6 DEF PeerDeposits, sockVars, clientVars, WireInv, ClientInv, OnWire
  <2>7. CASE Snapshot
    BY <2>7, SaysOther DEF Snapshot, headVars, clientVars
  <2> QED BY <1>2, <2>1, <2>2, <2>3, <2>4, <2>5, <2>6, <2>7, Steps, ConnectStep, MessageTaken, ActsWire
<1> QED BY <1>1, <1>2

-----------------------------------------------------------------------------
(* The threads.  What a fanout, or the second half of a close, has seen is *)
(* about the head it is about.                                             *)

Saw(t, tag) == \E i \in DOMAIN thr[t].seen : thr[t].seen[i].tag = tag

\* The answer to a close is there, or on its way.
Answered(t) == \E tag \in Answers("close") : Saw(t, tag) \/ OnWire(tag)

Ready(t) == Gone(thr[t].no) \/ head.ready

\* It knows of the closure and missed nothing.
Trusted(t) == Knowing(t) /\ t \notin missed

\* A close that waits, whose head is open or that has an answer: a head is not
\* opened over its head.
Closes(t) == thr[t].cmd = "close" /\ thr[t].pc = "wait" /\ thr[t].do = "close" => head.st = "Open" \/ Answered(t)

Ending(t) == Saw(t, "ReadyToFanout") \/ Saw(t, "HeadIsFinalized")

\* Before fanout looks at the head.
Looks(t) == thr[t].pc = "look" \/ (thr[t].cmd = "close" /\ thr[t].do = "close" /\ thr[t].pc \in {"send", "wait"})
              => (Ending(t) => head.ready \/ head.st = "Idle")

\* And after, with the head it found.
Waits(t) == thr[t].pc = "ready" => /\ Saw(t, "ReadyToFanout") => Ready(t)
                                   /\ Saw(t, "HeadIsFinalized") => Gone(thr[t].no)

Timely(t) == thr[t].pc \in {"mark", "send"} /\ thr[t].do = "fanout" => Ready(t)

Final(t) == thr[t].pc \in {"send", "wait"} /\ thr[t].do = "fanout" => (Saw(t, "HeadIsFinalized") => Gone(thr[t].no))

ThreadInv(t) == /\ thr[t].no <= head.no
                /\ Trusted(t) => Closes(t) /\ Looks(t) /\ Waits(t) /\ Timely(t) /\ Final(t)

ThreadsInv == \A t \in Thread : ThreadInv(t)

HeadInv == TypeOK /\ WireInv /\ ClientInv /\ ThreadsInv

\* A thread to which nothing happens.
LEMMA ThreadKept ==
  ASSUME NEW t \in Thread, ThreadInv(t), head' = head, \A x : OnWire(x) => OnWire(x)',
         \/ Active(t) /\ t \notin missed' => t \notin missed
         \/ ~Active(t),
         \/ thr'[t] = thr[t]
         \/ /\ \A f \in {"cmd", "pc", "do", "no", "seen"} : thr'[t][f] = thr[t][f]
            /\ thr'[t].sure => thr[t].sure
  PROVE  ThreadInv(t)'
<1>1. /\ thr'[t].cmd = thr[t].cmd /\ thr'[t].pc = thr[t].pc /\ thr'[t].do = thr[t].do
      /\ thr'[t].no = thr[t].no /\ thr'[t].seen = thr[t].seen /\ (thr'[t].sure => thr[t].sure)
  OBVIOUS
<1>2. \A x : Saw(t, x)' <=> Saw(t, x)
  BY <1>1 DEF Saw
<1>3. Answered(t) => Answered(t)'
  BY <1>2 DEF Answered
<1>4. (Ready(t)' <=> Ready(t)) /\ (Gone(thr[t].no)' <=> Gone(thr[t].no))
  BY <1>1 DEF Ready, Gone
<1>5. CASE Active(t)
  <2>1. Trusted(t)' => Trusted(t)
    BY <1>1, <1>5 DEF Trusted, Knowing
  <2> QED BY <1>1, <1>2, <1>3, <1>4, <2>1 DEF ThreadInv, Closes, Looks, Ending, Waits, Timely, Final
<1>6. CASE ~Active(t)
  <2>1. thr'[t].pc \in {"new", "done"}
    BY <1>1, <1>6 DEF Active
  <2> QED BY <1>1, <2>1 DEF ThreadInv, Closes, Looks, Waits, Timely, Final
<1> QED BY <1>5, <1>6

\* The events a thread waits for are those it finds.
LEMMA Prompted ==
  ASSUME TypeOK, NEW t \in Thread, NEW tag, Saw(t, tag), tag \in Awaited(t)
  PROVE  Returns(t)
  BY DEF Saw, Returns, Found

\* A new head: no thread waits for the end of another one.
LEMMA OpenThreads ==
  ASSUME HeadInv, NEW t \in Thread, Prompt, head.st = "Idle", head'.no = head.no + 1, head'.st = "Open",
         thr' = thr, t \notin missed' /\ Active(t) => t \notin missed
  PROVE  ThreadInv(t)'
<1>1. ThreadInv(t) /\ head.no \in Nat /\ thr[t].no \in Nat
  BY DEF HeadInv, ThreadsInv, TypeOK, Job
<1>2. thr[t].no <= head'.no
  BY <1>1 DEF ThreadInv
<1>3. wire = <<>> /\ thr[t].pc \notin {"send", "look", "mark", "delete"} /\ ~Returns(t)
  BY DEF Prompt
<1>4. \A x : ~OnWire(x)
  BY <1>3, EmptyWire
<1>5. \A x : Saw(t, x) => x \notin Awaited(t)
  BY <1>3, Prompted DEF HeadInv
<1>6. CASE ~Active(t)
  BY <1>2, <1>6 DEF Active, ThreadInv, Closes, Looks, Waits, Timely, Final
<1>7. CASE Active(t)
  <2>1. Trusted(t)' => Trusted(t)
    BY <1>7 DEF Trusted, Knowing
  <2>2. CASE thr[t].pc = "wait" /\ thr[t].do = "close"
    <3>1. Awaited(t) = Answers("close")
      BY <2>2 DEF Awaited, At
    <3>2. ~Answered(t)
      BY <1>4, <1>5, <3>1 DEF Answered
    <3>3. thr[t].cmd = "close" => ~Trusted(t)
      BY <1>1, <2>2, <3>2 DEF ThreadInv, Closes
    <3> QED BY <1>2, <2>1, <2>2, <3>3 DEF ThreadInv, Closes, Looks, Waits, Timely, Final
  <2>3. CASE thr[t].pc = "wait" /\ thr[t].do = "fanout"
    <3>1. "HeadIsFinalized" \in Awaited(t)
      BY <2>3 DEF Awaited, At, Answers, Observed
    <3>2. ~Saw(t, "HeadIsFinalized")'
      BY <1>5, <3>1 DEF Saw
    <3> QED BY <1>2, <2>3, <3>2 DEF ThreadInv, Closes, Looks, Waits, Timely, Final
  <2>4. CASE thr[t].pc = "ready"
    <3>1. Awaited(t) = {"ReadyToFanout", "HeadIsFinalized"}
      BY <2>4 DEF Awaited, At
    <3>2. ~Saw(t, "HeadIsFinalized")' /\ ~Saw(t, "ReadyToFanout")'
      BY <1>5, <3>1 DEF Saw
    <3> QED BY <1>2, <2>4, <3>2 DEF ThreadInv, Closes, Looks, Waits, Timely, Final
  <2>5. CASE thr[t].pc # "ready" /\ ~(thr[t].pc = "wait" /\ thr[t].do \in {"close", "fanout"})
    BY <1>2, <1>3, <2>5 DEF ThreadInv, Closes, Looks, Waits, Timely, Final
  <2> QED BY <2>2, <2>3, <2>4, <2>5
<1> QED BY <1>6, <1>7

\* Another state of the same head, of which the client is told.
LEMMA StateThreads ==
  ASSUME HeadInv, NEW t \in Thread, head'.no = head.no, thr' = thr,
         \A x : OnWire(x) => OnWire(x)', t \notin missed' /\ Active(t) => t \notin missed,
         \/ head.st = "Open" /\ head'.st = "Closed" /\ head'.ready = head.ready
            /\ (Active(t) /\ t \notin missed' => OnWire("HeadIsClosed")')
         \/ head.st = "Closed" /\ head'.st = "Idle"
         \/ head.st = "Closed" /\ head'.st = "Closed" /\ head'.ready
  PROVE  ThreadInv(t)'
<1>1. ThreadInv(t) /\ (head.ready => head.st = "Closed")
  BY DEF HeadInv, ThreadsInv, WireInv
<1>2. (\A x : Saw(t, x)' <=> Saw(t, x)) /\ (Ending(t)' <=> Ending(t))
  BY DEF Saw, Ending
<1>3. Answered(t) => Answered(t)'
  BY <1>2 DEF Answered
<1>4. (Gone(thr[t].no) => Gone(thr[t].no)') /\ (Ready(t) => Ready(t)')
  BY <1>1 DEF Ready, Gone
<1>5. CASE ~Active(t)
  BY <1>1, <1>5 DEF Active, ThreadInv, Closes, Looks, Waits, Timely, Final
<1>6. CASE Active(t) /\ Trusted(t)'
  <2>1. Trusted(t)
    BY <1>6 DEF Trusted, Knowing
  <2>2. Closes(t)'
    <3>1. OnWire("HeadIsClosed")' => Answered(t)'
      BY DEF Answered, Answers, Observed
    <3> QED BY <1>1, <1>3, <1>6, <2>1, <3>1 DEF ThreadInv, Closes, Trusted
  <2>3. Looks(t)'
    BY <1>1, <1>2, <2>1 DEF ThreadInv, Looks
  <2>4. Waits(t)' /\ Timely(t)' /\ Final(t)'
    BY <1>1, <1>2, <1>4, <2>1 DEF ThreadInv, Waits, Timely, Final
  <2> QED BY <1>1, <2>2, <2>3, <2>4 DEF ThreadInv
<1>7. CASE ~Trusted(t)'
  BY <1>1, <1>7 DEF ThreadInv
<1> QED BY <1>5, <1>6, <1>7

\* The client takes a message.
LEMMA MessageThreads ==
  ASSUME HeadInv, NEW t \in Thread, OnMessage
  PROVE  ThreadInv(t)'
<1> DEFINE m == Head(wire)
           e == [tag |-> m.tag, of |-> m.of]
<1>1. wire # <<>> /\ wire' = Tail(wire) /\ head' = head /\ missed' = missed
  BY DEF OnMessage, headVars
<1>2. thr'[t] = IF m.tag \in Listens(t)
                THEN [thr[t] EXCEPT !.seen = Append(@, e), !.mixed = @ \/ m.of = "peer"] ELSE thr[t]
  BY DEF OnMessage
<1>3. TypeOK /\ thr[t] \in Job /\ thr[t].seen \in Seq(Event) /\ e.tag = m.tag /\ ThreadInv(t)
  BY DEF HeadInv, TypeOK, Job, ThreadsInv
<1>4. \A x : OnWire(x) <=> m.tag = x \/ OnWire(x)'
  BY <1>1, <1>3, Popped
<1>5. OnWire(m.tag)
  BY <1>4
<1> HIDE DEF m
<1>6. /\ thr'[t].cmd = thr[t].cmd /\ thr'[t].pc = thr[t].pc /\ thr'[t].do = thr[t].do
      /\ thr'[t].no = thr[t].no /\ thr'[t].sure = thr[t].sure
      /\ thr'[t].seen = IF m.tag \in Listens(t) THEN Append(thr[t].seen, e) ELSE thr[t].seen
  <2> HIDE DEF e
  <2> QED BY <1>2, <1>3 DEF Job
<1>7. \A x : Saw(t, x)' <=> Saw(t, x) \/ (m.tag = x /\ m.tag \in Listens(t))
  <2> HIDE DEF e
  <2>1. CASE m.tag \notin Listens(t)
    BY <1>6, <2>1 DEF Saw
  <2>2. CASE m.tag \in Listens(t)
    <3> DEFINE s == thr[t].seen
               n == Len(thr[t].seen) + 1
    <3>1. thr'[t].seen = Append(s, e)
      BY <1>6, <2>2
    <3>2. /\ DOMAIN thr'[t].seen = 1..n /\ Len(s) \in Nat /\ DOMAIN s = 1..Len(s)
          /\ \A i \in DOMAIN s : thr'[t].seen[i] = s[i]
          /\ thr'[t].seen[n] = e
      BY <1>3, <3>1
    <3>3. /\ \A i \in DOMAIN thr'[t].seen : i \in DOMAIN s \/ i = n
          /\ \A i \in DOMAIN s : i \in DOMAIN thr'[t].seen
          /\ n \in DOMAIN thr'[t].seen
      BY <3>2
    <3>4. ASSUME NEW x PROVE Saw(t, x)' <=> Saw(t, x) \/ m.tag = x
      BY <1>3, <3>2, <3>3 DEF Saw
    <3> QED BY <2>2, <3>4
  <2> QED BY <2>1, <2>2
<1>8. (m.tag = "HeadIsFinalized" => head.st = "Idle") /\ (m.tag = "ReadyToFanout" => head.ready \/ head.st = "Idle")
  BY <1>5 DEF HeadInv, WireInv
<1>9. CASE Trusted(t)'
  <2>1. Trusted(t) /\ (Gone(thr[t].no)' <=> Gone(thr[t].no)) /\ (Ready(t)' <=> Ready(t))
    BY <1>1, <1>6, <1>9 DEF Trusted, Knowing, Gone, Ready
  <2>2. Closes(t)'
    <3> SUFFICES ASSUME thr[t].cmd = "close", thr[t].pc = "wait", thr[t].do = "close", head.st # "Open"
                 PROVE  Answered(t)'
      BY <1>1, <1>6 DEF Closes
    <3>1. PICK tag \in Answers("close") : Saw(t, tag) \/ OnWire(tag)
      BY <1>3, <2>1 DEF ThreadInv, Closes, Answered
    <3>2. Answers("close") \subseteq Listens(t)
      BY DEF Listens, Answers, Observed
    <3>3. Saw(t, tag)' \/ OnWire(tag)'
      BY <1>4, <1>7, <3>1, <3>2
    <3> QED BY <3>1, <3>3 DEF Answered
  <2>3. Looks(t)'
    BY <1>1, <1>3, <1>6, <1>7, <1>8, <2>1 DEF ThreadInv, Looks, Ending
  <2>4. Waits(t)'
    BY <1>3, <1>6, <1>7, <1>8, <2>1 DEF ThreadInv, Waits, Ready, Gone
  <2>5. Timely(t)'
    BY <1>3, <1>6, <2>1 DEF ThreadInv, Timely
  <2>6. Final(t)'
    BY <1>3, <1>6, <1>7, <1>8, <2>1 DEF ThreadInv, Final, Gone
  <2> QED BY <1>1, <1>3, <1>6, <2>2, <2>3, <2>4, <2>5, <2>6 DEF ThreadInv
<1>10. CASE ~Trusted(t)'
  BY <1>1, <1>3, <1>6, <1>10 DEF ThreadInv
<1> QED BY <1>9, <1>10

\* A thread that is done, or elsewhere.
LEMMA Elsewhere ==
  ASSUME NEW t \in Thread, thr'[t].no <= head'.no, thr'[t].pc \notin {"wait", "look", "send", "ready", "mark"}
  PROVE  ThreadInv(t)'
  BY DEF ThreadInv, Closes, Looks, Waits, Timely, Final

LEMMA ReplyThread ==
  ASSUME HeadInv, NEW t \in Thread, NEW r, thr' = [thr EXCEPT ![t] = Done(r)], head' = head
  PROVE  ThreadInv(t)' /\ thr'[t].reply = r
<1>1. thr'[t] = Done(r) /\ head.no \in Nat
  BY DEF HeadInv, TypeOK
<1>2. Done(r).no = 0 /\ Done(r).pc = "done" /\ Done(r).reply = r
  BY DEF Done, New
<1> QED BY <1>1, <1>2, Elsewhere

\* A command comes in.
LEMMA BeginThread ==
  ASSUME HeadInv, NEW t \in Thread, NEW c \in Command, Begin(t, c)
  PROVE  ThreadInv(t)'
<1> DEFINE s == IF c = "fanout" /\ ready THEN log ELSE <<>>
           b == Sure(c)
           p == CASE c = "fanout" -> "look" [] c = "deposit" -> "commit" [] c = "recover" -> "commits"
                  [] OTHER -> "send"
<1>1. thr'[t] = [New EXCEPT !.cmd = c, !.no = head.no, !.sure = b, !.pc = p,
                 !.do = IF c = "init" THEN "init" ELSE "close", !.seen = s]
  BY DEF Begin
<1>2. /\ thr'[t].cmd = c /\ thr'[t].no = head.no /\ thr'[t].sure = b /\ thr'[t].pc = p
      /\ thr'[t].do \in {"init", "close"} /\ thr'[t].seen = s
  <2> HIDE DEF s, b, p
  <2> QED BY <1>1 DEF New
<1>3. head' = head /\ head.no \in Nat
  BY DEF Begin, HeadInv, TypeOK, headVars
<1>4. p \notin {"wait", "ready", "mark"} /\ (p = "look" => c = "fanout") /\ (p = "send" => c # "fanout")
  OBVIOUS
<1>5. ASSUME Trusted(t)' PROVE Looks(t)'
  <2>1. CASE c # "fanout"
    <3>1. s = <<>> /\ p # "look"
      BY <2>1, <1>4
    <3>2. \A x : ~Saw(t, x)'
      BY <1>2, <3>1 DEF Saw
    <3> QED BY <3>2 DEF Looks, Ending
  <2>2. CASE c = "fanout" /\ ~ready
    <3>1. s = <<>>
      BY <2>2
    <3>2. \A x : ~Saw(t, x)'
      BY <1>2, <3>1 DEF Saw
    <3> QED BY <3>2 DEF Looks, Ending
  <2>3. CASE c = "fanout" /\ ready
    <3>1. Sure("fanout") /\ t \notin missed'
      BY <1>2, <1>5, <2>3 DEF Trusted, Knowing
    <3>2. "me" \notin missed
      BY <2>3, <3>1 DEF Begin
    <3>3. status = "Closed" /\ ~OnWire("Greetings")
      BY <3>1 DEF Sure, OnWire
    <3>4. ~OnWire("HeadIsClosed") /\ head.st # "Open"
      BY <3>2, <3>3 DEF HeadInv, ClientInv
    <3>5. head.st \in {"Idle", "Open", "Closed"}
      BY DEF HeadInv, TypeOK, State
    <3>6. head.ready \/ head.st = "Idle"
      BY <2>3, <3>2, <3>4, <3>5 DEF HeadInv, ClientInv
    <3> QED BY <1>3, <3>6 DEF Looks
  <2> QED BY <2>1, <2>2, <2>3
<1>6. Closes(t)' /\ Waits(t)' /\ Timely(t)' /\ Final(t)'
  BY <1>2, <1>4 DEF Closes, Waits, Timely, Final
<1> QED BY <1>2, <1>3, <1>5, <1>6 DEF ThreadInv

\* An input is sent, and answered at once or posted.
LEMMA SendThread ==
  ASSUME HeadInv, NEW t \in Thread, Send(t), \A x : OnWire(x) => OnWire(x)'
  PROVE  ThreadInv(t)'
<1>1. thr[t] \in Job /\ thr \in [Thread -> Job] /\ ThreadInv(t) /\ At(t, "send") /\ conn /\ head' = head
  BY DEF HeadInv, TypeOK, ThreadsInv, Send
<1>2. PICK lost \in {0, 1} : Sent(t, lost)
  BY DEF Send
<1>3. /\ thr'[t].cmd = thr[t].cmd /\ thr'[t].pc = "wait" /\ thr'[t].do = thr[t].do
      /\ thr'[t].no = thr[t].no /\ thr'[t].sure = thr[t].sure /\ thr'[t].seen = thr[t].seen
  BY <1>1, <1>2 DEF Sent, Job
<1>4. missed' = missed
  BY <1>1 DEF Send, Silent, Emit
<1>5. (\A x : Saw(t, x)' <=> Saw(t, x)) /\ (Gone(thr[t].no)' <=> Gone(thr[t].no)) /\ (Trusted(t)' <=> Trusted(t))
  BY <1>1, <1>3, <1>4 DEF Saw, Gone, Trusted, Knowing
<1>6. Closes(t)'
  <2> SUFFICES ASSUME thr[t].do = "close", head.st # "Open" PROVE Answered(t)'
    BY <1>1, <1>3 DEF Closes
  <2>1. ~Accepts("close", "none")
    BY DEF Accepts
  <2>2. PICK tag \in {"CommandFailed", "RejectedInputBecauseUnsynced"} : Emit(tag, "none")
    BY <2>1 DEF Send
  <2>3. OnWire(tag)'
    <3>1. UNCHANGED <<conn, status, ready>>
      BY DEF Send, clientVars
    <3> QED BY <1>1, <2>2, <3>1, SaysOther DEF HeadInv
  <2>4. tag \in Answers("close")
    BY <2>2 DEF Answers, Refusals
  <2> QED BY <2>3, <2>4 DEF Answered
<1>7. Looks(t) => Looks(t)'
  BY <1>1, <1>3, <1>5 DEF Looks, Ending, At
<1>8. Waits(t)' /\ Timely(t)' /\ (Final(t) => Final(t)')
  BY <1>1, <1>3, <1>5 DEF Waits, Timely, Final, At
<1> QED BY <1>1, <1>3, <1>5, <1>6, <1>7, <1>8 DEF ThreadInv

\* A close goes on, and becomes a fanout.
LEMMA CloseThread ==
  ASSUME HeadInv, NEW t \in Thread, CloseAgain(t) \/ CloseDone(t), missed' = missed, head' = head,
         \/ thr' = [thr EXCEPT ![t].pc = "send", ![t].try = @ + 1]
         \/ thr' = [thr EXCEPT ![t].pc = "look"] /\ thr[t].cmd = "close"
  PROVE  ThreadInv(t)'
<1>1. thr[t] \in Job /\ thr \in [Thread -> Job] /\ ThreadInv(t) /\ At(t, "wait") /\ thr[t].do = "close"
  BY DEF HeadInv, TypeOK, ThreadsInv, CloseAgain, CloseDone
<1>2. /\ thr'[t].cmd = thr[t].cmd /\ thr'[t].do = "close" /\ thr'[t].no = thr[t].no
      /\ thr'[t].sure = thr[t].sure /\ thr'[t].seen = thr[t].seen
      /\ thr'[t].pc = "send" \/ (thr'[t].pc = "look" /\ thr[t].cmd = "close")
  BY <1>1 DEF Job
<1>3. (\A x : Saw(t, x)' <=> Saw(t, x)) /\ (Trusted(t)' <=> Trusted(t))
  BY <1>2 DEF Saw, Trusted, Knowing
<1>4. Looks(t) => Looks(t)'
  BY <1>1, <1>2, <1>3 DEF Looks, Ending, At
<1>5. Closes(t)' /\ Waits(t)' /\ Timely(t)' /\ Final(t)'
  BY <1>2 DEF Closes, Waits, Timely, Final
<1> QED BY <1>1, <1>2, <1>3, <1>4, <1>5 DEF ThreadInv

\* A fanout.
LEMMA FanoutThread ==
  ASSUME HeadInv, NEW t \in Thread, missed' = missed, head' = head,
         \/ FanoutLooks(t) /\ head.st # "Idle"
         \/ FanoutMarks(t)
         \/ At(t, "ready") /\ Returns(t) /\ Tag(t) = "ReadyToFanout" /\ Goto(t, "mark")
  PROVE  ThreadInv(t)'
<1>1. thr[t] \in Job /\ thr \in [Thread -> Job] /\ ThreadInv(t) /\ (head.ready => head.st = "Closed")
      /\ head.no \in Nat /\ TypeOK
  BY DEF HeadInv, TypeOK, ThreadsInv, WireInv
<1>2. CASE FanoutLooks(t) /\ head.st # "Idle"
  <2>0. At(t, "look")
    BY <1>2 DEF FanoutLooks
  <2>1. /\ thr'[t].cmd = thr[t].cmd /\ thr'[t].do = "fanout" /\ thr'[t].sure = thr[t].sure
        /\ thr'[t].seen = thr[t].seen /\ thr'[t].no = IF head.st = "Closed" THEN head.no ELSE thr[t].no
        /\ thr'[t].pc = IF head.st = "Closed" /\ head.ready THEN "mark" ELSE "ready"
    BY <1>1, <1>2 DEF FanoutLooks, Job
  <2>2. (\A x : Saw(t, x)' <=> Saw(t, x)) /\ (Trusted(t)' <=> Trusted(t))
    BY <2>1 DEF Saw, Trusted, Knowing
  <2>3. thr'[t].no <= head.no
    BY <1>1, <2>1 DEF ThreadInv
  <2>4. Trusted(t) => Waits(t)'
    BY <1>1, <1>2, <2>0, <2>1, <2>2 DEF ThreadInv, Looks, Ending, Waits, At
  <2>5. Timely(t)'
    BY <1>1, <2>1 DEF Timely, Ready
  <2>6. Closes(t)' /\ Looks(t)' /\ Final(t)'
    BY <2>1 DEF Closes, Looks, Final
  <2> QED BY <1>1, <2>2, <2>3, <2>4, <2>5, <2>6 DEF ThreadInv
<1>3. CASE FanoutMarks(t)
  <2>0. At(t, "mark")
    BY <1>3 DEF FanoutMarks
  <2>1. /\ thr'[t].cmd = thr[t].cmd /\ thr'[t].do = thr[t].do /\ thr'[t].sure = thr[t].sure
        /\ thr'[t].seen = <<>> /\ thr'[t].no = thr[t].no /\ thr'[t].pc = "send"
    BY <1>1, <1>3 DEF FanoutMarks, Job
  <2>2. (\A x : ~Saw(t, x)') /\ (Trusted(t)' <=> Trusted(t)) /\ (Ready(t)' <=> Ready(t))
    BY <2>1 DEF Saw, Trusted, Knowing, Ready, Gone
  <2>3. Trusted(t) => Timely(t)'
    BY <1>1, <2>0, <2>1, <2>2 DEF ThreadInv, Timely, At
  <2>4. Closes(t)' /\ Looks(t)' /\ Waits(t)' /\ Final(t)'
    BY <2>1, <2>2 DEF Closes, Looks, Ending, Waits, Final
  <2> QED BY <1>1, <2>1, <2>2, <2>3, <2>4 DEF ThreadInv
<1>4. CASE At(t, "ready") /\ Returns(t) /\ Tag(t) = "ReadyToFanout" /\ Goto(t, "mark")
  <2>1. /\ thr'[t].cmd = thr[t].cmd /\ thr'[t].do = thr[t].do /\ thr'[t].sure = thr[t].sure
        /\ thr'[t].no = thr[t].no /\ thr'[t].pc = "mark"
    BY <1>1, <1>4 DEF Goto, Job
  <2>2. (Trusted(t)' <=> Trusted(t)) /\ (Ready(t)' <=> Ready(t))
    BY <2>1 DEF Trusted, Knowing, Ready, Gone
  <2>3. Saw(t, "ReadyToFanout")
    BY <1>1, <1>4, FirstFound DEF Saw, Tag
  <2>4. Trusted(t) => Timely(t)'
    BY <1>1, <1>4, <2>1, <2>2, <2>3 DEF ThreadInv, Waits, Timely, At
  <2>5. Closes(t)' /\ Looks(t)' /\ Waits(t)' /\ Final(t)'
    BY <2>1 DEF Closes, Looks, Waits, Final
  <2> QED BY <1>1, <2>1, <2>2, <2>4, <2>5 DEF ThreadInv
<1> QED BY <1>2, <1>3, <1>4

\* Whatever its own step is.
LEMMA ActsThread ==
  ASSUME HeadInv, NEW t \in Thread, Acts(t)
  PROVE  ThreadInv(t)'
<1>1. thr[t] \in Job /\ thr \in [Thread -> Job] /\ ThreadInv(t) /\ TypeOK /\ WireInv /\ ClientInv
  BY DEF HeadInv, TypeOK, ThreadsInv
<1>2. head' = head /\ (\A x : OnWire(x) => OnWire(x)')
  BY <1>1, ActsFrame, ActsWire
<1>3. ASSUME NEW r, Reply(t, r) PROVE ThreadInv(t)'
  BY <1>2, <1>3, ReplyThread DEF Reply
<1>4. ASSUME NEW c \in Command, Begin(t, c) PROVE ThreadInv(t)'
  BY <1>4, BeginThread
<1>5. CASE Send(t)
  BY <1>2, <1>5, SendThread
<1>6. CASE CloseAgain(t)
  BY <1>2, <1>3, <1>6, CloseThread DEF CloseAgain, Local
<1>7. CASE CloseDone(t)
  BY <1>2, <1>3, <1>7, CloseThread DEF CloseDone, Goto, Local
<1>8. CASE FanoutLooks(t)
  BY <1>2, <1>3, <1>8, FanoutThread DEF FanoutLooks, Local
<1>9. CASE FanoutReady(t)
  BY <1>2, <1>3, <1>9, FanoutThread DEF FanoutReady, Goto, Local
<1>10. CASE FanoutMarks(t)
  BY <1>2, <1>10, FanoutThread DEF FanoutMarks, Local
<1>11. CASE Raises(t) \/ InitDone(t) \/ FanoutDone(t) \/ RecoverDone(t) \/ DepositTimesOut(t)
  BY <1>3, <1>11 DEF Raises, InitDone, FanoutDone, RecoverDone, DepositTimesOut, Concludes
<1>12. CASE DepositAssign(t)
  BY <1>2, <1>12, ReplyThread DEF DepositAssign
<1>13. ASSUME thr'[t].no = thr[t].no, thr'[t].pc \notin {"wait", "look", "send", "ready", "mark"}
       PROVE  ThreadInv(t)'
  <2>1. thr'[t].no <= head'.no
    BY <1>1, <1>2, <1>13 DEF ThreadInv
  <2> QED BY <1>13, <2>1, Elsewhere
<1>14. CASE DepositDraft(t) \/ DepositSubmit(t) \/ DepositSubmitted(t)
  BY <1>1, <1>3, <1>13, <1>14 DEF DepositDraft, DepositSubmit, DepositSubmitted, Goto, Job
<1>15. CASE DepositStage(t)
  <2>1. At(t, "stage")
    BY <1>15 DEF DepositStage
  <2>2. CASE Expired(t)
    BY <1>1, <1>13, <2>2 DEF Expired, Job
  <2>3. CASE thr' = [thr EXCEPT ![t].pc = "get", ![t].seen = <<>>]
    BY <1>1, <1>13, <2>3 DEF Job
  <2>4. CASE NextStage(t)
    BY <1>1, <1>13, <2>1, <2>4 DEF NextStage, Job, At
  <2> QED BY <1>15, <2>2, <2>3, <2>4 DEF DepositStage
<1>16. CASE DepositGet(t)
  BY <1>1, <1>3, <1>13, <1>16 DEF DepositGet, Job
<1>17. CASE RecoverCommits(t) \/ RecoverDelete(t)
  BY <1>1, <1>3, <1>13, <1>17 DEF RecoverCommits, RecoverDelete, Job
<1> QED BY <1>4, <1>5, <1>6, <1>7, <1>8, <1>9, <1>10, <1>11, <1>12, <1>14, <1>15, <1>16, <1>17 DEF Acts

\* A step of another thread.
LEMMA OtherThread ==
  ASSUME HeadInv, NEW u \in Thread, Acts(u), NEW t \in Thread, t # u
  PROVE  ThreadInv(t)'
<1>1. TypeOK /\ WireInv /\ ClientInv /\ ThreadInv(t) /\ thr[t] \in Job /\ thr \in [Thread -> Job]
  BY DEF HeadInv, ThreadsInv, TypeOK
<1>2. head' = head /\ (\A x : OnWire(x) => OnWire(x)')
  BY <1>1, ActsFrame, ActsWire
<1>3. t \notin missed' => t \notin missed
  <2>1. CASE Send(u)
    BY <2>1 DEF Send, Silent, Emit, Missing
  <2> QED BY <1>1, <2>1, ActsFrame
<1>4. CASE thr'[t] = thr[t]
  BY <1>1, <1>2, <1>3, <1>4, ThreadKept
<1>5. ASSUME NEW c \in Command, Begin(u, c) PROVE ThreadInv(t)'
  <2> DEFINE b == thr[t].sure /\ thr[t].cmd # "close"
  <2>1. thr'[t] = [thr[t] EXCEPT !.sure = b]
    BY <1>5 DEF Begin
  <2>2. thr'[t].sure = b
    <3> HIDE DEF b
    <3> QED BY <1>1, <2>1 DEF Job
  <2>3. /\ thr'[t].cmd = thr[t].cmd /\ thr'[t].pc = thr[t].pc /\ thr'[t].do = thr[t].do
        /\ thr'[t].no = thr[t].no /\ thr'[t].seen = thr[t].seen
    <3> HIDE DEF b
    <3> QED BY <1>1, <2>1 DEF Job
  <2>4. thr'[t].sure => thr[t].sure
    BY <2>2
  <2> QED BY <1>1, <1>2, <1>3, <2>3, <2>4, ThreadKept
<1> QED BY <1>1, <1>4, <1>5, ActsFrame

\* Each step keeps what the threads know.
LEMMA ThreadStep ==
  ASSUME HeadInv, [Next]_vars, NEW t \in Thread
  PROVE  ThreadInv(t)'
<1>0. TypeOK /\ WireInv /\ ClientInv /\ ThreadInv(t) /\ thr[t] \in Job /\ thr \in [Thread -> Job]
  BY DEF HeadInv, ThreadsInv, TypeOK
<1>1. CASE UNCHANGED vars
  <2>1. head' = head /\ thr' = thr /\ wire' = wire /\ missed' = missed
    BY <1>1 DEF vars, headVars, sockVars
  <2> QED BY <1>0, <2>1, ThreadKept DEF OnWire
  \* The node tells all that is observed.
<1>2. ASSUME NEW tag, NEW of, Emit(tag, of), conn' = conn
      PROVE  /\ \A x : OnWire(x) => OnWire(x)'
             /\ t \notin missed' /\ Active(t) => t \notin missed /\ OnWire(tag)'
  <2>1. CASE conn
    <3>1. wire' = Append(wire, Msg(tag, of)) /\ missed' = missed /\ Msg(tag, of).tag = tag
      BY <1>0, <1>2, <2>1, Says
    <3> QED BY <1>0, <3>1, Pushed
  <2>2. CASE ~conn
    BY <1>0, <1>2, <2>2, Says DEF OnWire
  <2> QED BY <2>1, <2>2
<1>3. ASSUME NEW tag, NEW of, Emit(tag, of), conn' = conn, head' = head, thr' = thr PROVE ThreadInv(t)'
  BY <1>0, <1>2, <1>3, ThreadKept
<1>4. CASE Observes
  <2>1. PICK do \in DOMAIN Observed, of \in Party \cup {"none"} : Observe(do, of)
    BY <1>4 DEF Observes
  <2>2. conn' = conn /\ thr' = thr /\ Emit(Observed[do], of)
    BY <2>1 DEF Observe
  <2>3. CASE do = "init"
    <3>1. t \notin missed' /\ Active(t) => t \notin missed
      BY <1>2, <2>2
    <3> QED BY <1>0, <2>1, <2>2, <2>3, <3>1, ObserveIs, OpenThreads
  <2>4. CASE do = "close"
    <3>1. /\ \A x : OnWire(x) => OnWire(x)'
          /\ t \notin missed' /\ Active(t) => t \notin missed /\ OnWire("HeadIsClosed")'
      BY <1>0, <1>2, <2>1, <2>2, <2>4, ObserveIs
    <3> QED BY <1>0, <2>1, <2>2, <2>4, <3>1, ObserveIs, StateThreads
  <2>5. CASE do = "fanout"
    <3>1. (\A x : OnWire(x) => OnWire(x)') /\ (t \notin missed' /\ Active(t) => t \notin missed)
      BY <1>2, <2>2
    <3> QED BY <1>0, <2>1, <2>2, <2>5, <3>1, ObserveIs, StateThreads
  <2>6. CASE do = "recover"
    BY <1>0, <1>3, <2>1, <2>2, <2>6, ObserveIs
  <2> QED BY <2>3, <2>4, <2>5, <2>6, ObservedType
<1>5. CASE Deadline
  <2>1. conn' = conn /\ thr' = thr /\ Emit("ReadyToFanout", "none") /\ head.st = "Closed"
        /\ head'.st = "Closed" /\ head'.ready /\ head'.no = head.no
    BY <1>0, <1>5 DEF Deadline, TypeOK
  <2>2. (\A x : OnWire(x) => OnWire(x)') /\ (t \notin missed' /\ Active(t) => t \notin missed)
    BY <1>2, <2>1
  <2> QED BY <2>1, <2>2, StateThreads
<1>6. ASSUME NEW x \in txs, Fail(x) PROVE ThreadInv(t)'
  BY <1>3, <1>6 DEF Fail
<1>7. ASSUME NEW x \in txs, Expire(x) PROVE ThreadInv(t)'
  <2>1. head' = head /\ wire' = wire /\ missed' = missed /\ thr' = [thr EXCEPT ![x.by].lost = @ + 1]
    BY <1>7 DEF Expire, sockVars
  <2>2. /\ thr'[t].cmd = thr[t].cmd /\ thr'[t].pc = thr[t].pc /\ thr'[t].do = thr[t].do
        /\ thr'[t].no = thr[t].no /\ thr'[t].seen = thr[t].seen /\ thr'[t].sure = thr[t].sure
    BY <1>0, <2>1 DEF Job
  <2> QED BY <1>0, <2>1, <2>2, ThreadKept DEF OnWire
<1>8. ASSUME NEW p \in Party, NEW s \in Stages, DepositMoves(p, s) PROVE ThreadInv(t)'
  <2>1. head' = head /\ conn' = conn /\ thr' = thr /\ \E of : Emit(s[3], of)
    BY <1>8 DEF DepositMoves
  <2> QED BY <1>3, <2>1
<1>9. CASE PeerDeposits
  <2>1. head' = head /\ thr' = thr /\ wire' = wire /\ missed' = missed
    BY <1>9 DEF PeerDeposits, sockVars
  <2> QED BY <1>0, <2>1, ThreadKept DEF OnWire
<1>10. CASE Snapshot
  BY <1>3, <1>10 DEF Snapshot, headVars
<1>11. CASE OnOpen
  <2>1. ~conn /\ head' = head /\ thr' = thr /\ missed' = missed
    BY <1>11 DEF OnOpen, headVars
  <2>2. \A x : ~OnWire(x)
    BY <1>0, <2>1, EmptyWire DEF WireInv
  <2> QED BY <1>0, <2>1, <2>2, ThreadKept
<1>12. CASE OnClose
  <2>1. head' = head /\ thr' = thr /\ wire' = <<>>
        /\ missed' = IF wire = <<>> THEN missed ELSE Missing
    BY <1>12 DEF OnClose, headVars
  <2>2. CASE wire = <<>>
    BY <1>0, <2>1, <2>2, ThreadKept DEF OnWire
  <2>3. CASE wire # <<>> /\ ~Active(t)
    <3>1. thr'[t].pc \notin {"wait", "look", "send", "ready", "mark"} /\ thr'[t].no <= head'.no
      BY <1>0, <2>1, <2>3 DEF Active, ThreadInv
    <3> QED BY <3>1, Elsewhere
  <2>4. CASE wire # <<>> /\ Active(t)
    <3>1. t \in missed'
      BY <2>1, <2>4 DEF Missing
    <3> QED BY <1>0, <2>1, <3>1 DEF ThreadInv, Trusted
  <2> QED BY <2>2, <2>3, <2>4
<1>13. CASE ClientRestart
  <2>1. head' = head /\ head.no \in Nat /\ thr'[t] = IF Active(t) THEN Done("dead") ELSE thr[t]
    BY <1>0, <1>13 DEF ClientRestart, headVars, TypeOK
  <2>2. Done("dead").no = 0 /\ Done("dead").pc = "done"
    BY DEF Done, New
  <2>3. thr'[t].pc \in {"new", "done"} /\ thr'[t].no <= head'.no
    BY <1>0, <2>1, <2>2 DEF Active, ThreadInv
  <2> QED BY <2>3, Elsewhere
<1>14. ASSUME NEW u \in Thread, Acts(u) PROVE ThreadInv(t)'
  BY <1>14, ActsThread, OtherThread
<1> QED BY <1>0, <1>1, <1>4, <1>5, <1>6, <1>7, <1>8, <1>9, <1>10, <1>11, <1>12, <1>13, <1>14, Steps, MessageThreads

LEMMA HeadInvCorrect == Spec => []HeadInv
<1>1. Init => WireInv /\ ClientInv /\ ThreadsInv
  <2> SUFFICES ASSUME Init PROVE WireInv /\ ClientInv /\ ThreadsInv
    OBVIOUS
  <2>1. DOMAIN wire = {} /\ (\A x : ~OnWire(x)) /\ wire = <<>>
    BY EmptyWire DEF Init
  <2>2. WireInv /\ ClientInv
    BY <2>1 DEF Init, WireInv, ClientInv
  <2>3. ASSUME NEW t \in Thread PROVE ThreadInv(t)
    <3>1. thr[t] = New /\ head.no \in {0, 1}
      BY DEF Init
    <3>2. New.no = 0 /\ New.pc = "new"
      BY DEF New
    <3> QED BY <3>1, <3>2 DEF ThreadInv, Closes, Looks, Waits, Timely, Final
  <2> QED BY <2>2, <2>3 DEF ThreadsInv
<1>2. TypeOK /\ WireInv /\ ClientInv /\ ThreadsInv /\ [Next]_vars => (WireInv /\ ClientInv /\ ThreadsInv)'
  <2> SUFFICES ASSUME HeadInv, [Next]_vars PROVE WireInv' /\ ClientInv' /\ ThreadsInv'
    BY DEF HeadInv
  <2> QED BY WireStep, ThreadStep DEF HeadInv, ThreadsInv
<1> QED BY <1>1, <1>2, TypeCorrect, PTL DEF Spec, HeadInv

\* A client that knew of the closure, and missed no event, never sends Fanout
\* before the contestation deadline (NeverTooEarly): the flag ready_to_fanout
\* it relies on in cmd_fanout is never the one of an earlier head.
THEOREM EarlyCorrect == Spec => []NeverTooEarly
<1>1. HeadInv => NeverTooEarly
  BY DEF HeadInv, ThreadsInv, ThreadInv, Trusted, Timely, Ready, NeverTooEarly
<1> QED BY <1>1, HeadInvCorrect, PTL

\* A command that reports HeadIsFinalized (cmd_fanout, and the end of
\* cmd_close) reports it of the head it found closed, not of an earlier one of
\* which the event is still in self.events (FinalIsFinal).
THEOREM FinalCorrect == Spec => FinalIsFinal
<1> DEFINE Reports(t) == Ends(t) /\ thr[t].do = "fanout" /\ thr'[t].reply = "HeadIsFinalized" /\ Knowing(t) /\ t \notin missed
           A == \A t \in Thread : Reports(t) => Gone(thr[t].no)
<1>1. HeadInv /\ Next => A
  <2> SUFFICES ASSUME HeadInv, Next, NEW t \in Thread, Reports(t) PROVE Gone(thr[t].no)
    OBVIOUS
  <2>0. TypeOK /\ ThreadInv(t) /\ Trusted(t) /\ thr[t] \in Job /\ thr \in [Thread -> Job]
    BY DEF HeadInv, ThreadsInv, Trusted, TypeOK
  <2>1. Active(t) /\ thr'[t].pc = "done" /\ thr[t].do = "fanout" /\ thr'[t].reply = "HeadIsFinalized"
        /\ thr[t].pc \notin {"new", "done"}
    BY DEF Ends, Active
  <2> HIDE DEF Reports
  <2>2. thr'[t].pc # thr[t].pc
    BY <2>1
  <2>4. CASE Acts(t)
    <3>1. ASSUME NEW r, thr' = [thr EXCEPT ![t] = Done(r)] PROVE r = "HeadIsFinalized"
      <4>1. thr'[t] = Done(r)
        BY <2>0, <3>1
      <4>2. Done(r).reply = r
        BY DEF Done, New
      <4> QED BY <2>1, <4>1, <4>2
    <3>2. ASSUME NEW r, Reply(t, r) PROVE r = "HeadIsFinalized"
      BY <3>1, <3>2 DEF Reply
    <3>3. ASSUME Returns(t), Tag(t) = "HeadIsFinalized" PROVE Saw(t, "HeadIsFinalized") /\ "HeadIsFinalized" \in Awaited(t)
      BY <2>0, <3>3, FirstFound DEF Saw, Tag
    <3>4. CASE FanoutReady(t)
      <4>1. ~Goto(t, "mark")
        BY <2>0, <2>1 DEF Goto, Job
      <4>2. Returns(t) /\ Tag(t) = "HeadIsFinalized" /\ thr[t].pc = "ready"
        BY <3>2, <3>4, <4>1 DEF FanoutReady, At
      <4> QED BY <2>0, <3>3, <4>2 DEF ThreadInv, Waits
    <3>5. CASE FanoutDone(t)
      <4>1. Returns(t) /\ Tag(t) = "HeadIsFinalized" /\ thr[t].pc = "wait"
        BY <3>2, <3>5 DEF FanoutDone, Concludes, At
      <4> QED BY <2>0, <2>1, <3>3, <4>1 DEF ThreadInv, Final
    <3>6. ~RecoverDone(t)
      <4> SUFFICES ASSUME RecoverDone(t) PROVE FALSE
        OBVIOUS
      <4>1. Returns(t) /\ Tag(t) = "HeadIsFinalized" /\ At(t, "recover")
        BY <3>2 DEF RecoverDone, Concludes
      <4>2. Awaited(t) = {"CommitRecovered", "PostTxOnChainFailed"}
        BY <4>1 DEF Awaited, At
      <4> QED BY <3>3, <4>1, <4>2
    <3>7. ~InitDone(t) /\ ~CloseAgain(t) /\ ~CloseDone(t)
      BY <2>1 DEF InitDone, CloseAgain, CloseDone
    <3>8. ~Raises(t) /\ ~DepositTimesOut(t) /\ ~DepositAssign(t) /\ ~FanoutLooks(t)
      <4>1. ~Raises(t) /\ ~DepositTimesOut(t) /\ ~DepositAssign(t)
        BY <3>1, <3>2 DEF Raises, DepositTimesOut, DepositAssign
      <4>2. ASSUME FanoutLooks(t), head.st # "Idle" PROVE FALSE
        BY <2>0, <2>1, <4>2 DEF FanoutLooks, Job
      <4>3. ASSUME FanoutLooks(t), head.st = "Idle" PROVE FALSE
        BY <3>2, <4>3 DEF FanoutLooks
      <4> QED BY <4>1, <4>2, <4>3
    <3>9. ~FanoutMarks(t) /\ ~Send(t) /\ ~DepositSubmitted(t)
      <4>1. ~FanoutMarks(t) /\ ~DepositSubmitted(t)
        BY <2>0, <2>1 DEF FanoutMarks, DepositSubmitted, Goto, Job
      <4>2. ASSUME NEW lost, Sent(t, lost) PROVE FALSE
        BY <2>0, <2>1, <4>2 DEF Sent, Job
      <4> QED BY <4>1, <4>2 DEF Send
    <3>10. ~DepositDraft(t) /\ ~DepositSubmit(t) /\ ~DepositGet(t) /\ ~RecoverCommits(t) /\ ~RecoverDelete(t)
      <4>1. ~DepositDraft(t)
        BY <2>0, <2>1, <3>2 DEF DepositDraft, Goto, Job
      <4>2. ~DepositSubmit(t)
        BY <2>0, <2>1, <3>2 DEF DepositSubmit, Job
      <4>3. ~DepositGet(t)
        BY <2>0, <2>1, <3>2 DEF DepositGet, Job
      <4>4. ~RecoverCommits(t)
        BY <2>0, <2>1, <3>2 DEF RecoverCommits, Job
      <4>5. ~RecoverDelete(t)
        BY <2>0, <2>1, <3>2 DEF RecoverDelete, Job
      <4> QED BY <4>1, <4>2, <4>3, <4>4, <4>5
    <3>11. ~DepositStage(t)
      <4>1. ~Expired(t)
        BY <2>0, <2>1 DEF Expired, Job
      <4>2. ~(thr' = [thr EXCEPT ![t].pc = "get", ![t].seen = <<>>])
        BY <2>0, <2>1 DEF Job
      <4>3. ASSUME NextStage(t) PROVE thr'[t].pc = thr[t].pc
        <5> DEFINE s == SubSeq(thr[t].seen, First(t) + 1, Len(thr[t].seen))
        <5>1. thr' = [thr EXCEPT ![t].seen = s, ![t].try = @ + 1]
          BY <4>3 DEF NextStage
        <5> HIDE DEF s
        <5> QED BY <2>0, <5>1 DEF Job
      <4> QED BY <2>2, <4>1, <4>2, <4>3 DEF DepositStage
    <3>12. ASSUME NEW c \in Command PROVE ~Begin(t, c)
      BY <2>1 DEF Begin, At
    <3> QED BY <2>4, <3>4, <3>5, <3>6, <3>7, <3>8, <3>9, <3>10, <3>11, <3>12 DEF Acts
  <2>5. ~OnMessage
    <3> SUFFICES ASSUME OnMessage PROVE FALSE
      OBVIOUS
    <3> DEFINE m == Head(wire)
               e == [tag |-> m.tag, of |-> m.of]
               mx == thr[t].mixed \/ m.of = "peer"
    <3>1. thr'[t] = IF m.tag \in Listens(t) THEN [thr[t] EXCEPT !.seen = Append(@, e), !.mixed = mx] ELSE thr[t]
      BY DEF OnMessage
    <3> HIDE DEF m, e, mx
    <3> QED BY <2>0, <2>2, <3>1 DEF Job
  <2>6. ~ClientRestart
    <3> SUFFICES ASSUME ClientRestart PROVE FALSE
      OBVIOUS
    <3>1. thr'[t] = Done("dead")
      BY <2>1 DEF ClientRestart
    <3>2. Done("dead").reply = "dead"
      BY DEF Done, New
    <3> QED BY <2>1, <3>1, <3>2
  <2> QED BY <2>0, <2>2, <2>4, <2>5, <2>6, OthersSame
<1>2. HeadInv /\ [Next]_vars => [A]_vars
  BY <1>1
<1>3. [][A]_vars => FinalIsFinal
  BY PTL DEF FinalIsFinal
<1> QED BY <1>2, <1>3, HeadInvCorrect, PTL DEF Spec

=============================================================================
