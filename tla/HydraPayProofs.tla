--------------------------- MODULE HydraPayProofs ---------------------------
(***************************************************************************)
(* Proofs about the payments of the Cardano arm, for every set of threads  *)
(* and amounts, every length of the event list and any faults.             *)
(***************************************************************************)
EXTENDS HydraPay, TLAPS

-----------------------------------------------------------------------------
(* Types.                                                                  *)

\* What a transaction makes of a coin are coins.
LEMMA OutputsType ==
  ASSUME NEW tx \in Tx, NEW c \in Coin
  PROVE  Outputs(tx, c) \subseteq Coin
<1> DEFINE paid == Append(c.id, [amount |-> tx.amount, out |-> "pay"])
           kept == Append(c.id, [amount |-> tx.amount, out |-> "change"])
<1>1. tx.amount \in Amount /\ tx.change \in Nat /\ c.id \in Seq(Step) /\ c.mine \in BOOLEAN
  BY DEF Tx, Coin
<1>2. paid \in Seq(Step) /\ kept \in Seq(Step)
  BY <1>1 DEF Step
<1>3. tx.amount \in Nat
  BY <1>1, HydraAssumption
<1>4. [id |-> paid, mine |-> ~c.mine, value |-> tx.amount] \in Coin
  BY <1>1, <1>2, <1>3 DEF Coin
<1>5. ASSUME NEW v \in {tx.change} \ {0} PROVE [id |-> kept, mine |-> c.mine, value |-> v] \in Coin
  BY <1>1, <1>2 DEF Coin
<1> QED BY <1>4, <1>5, Zenon DEF Outputs

\* A payment with a coin that covers it is a transaction of the coin's owner.
LEMMA PaymentType ==
  ASSUME NEW c \in Coin, NEW a \in Amount, Covers(c, a)
  PROVE  Payment(c, a) \in Tx /\ Payment(c, a).mine = c.mine
<1>1. c.value - a \in Nat
  BY HydraAssumption DEF Covers, Coin
<1> QED BY <1>1 DEF Payment, Tx, Coin

\* The list stays within its limit, cut or not (on_message).
LEMMA ListedType ==
  ASSUME TypeOK, NEW e \in Event
  PROVE  Listed(e) \in Seq(Event) /\ Len(Listed(e)) <= MaxEvents
<1> DEFINE all == Append(events, e)
<1>1. all \in Seq(Event) /\ Len(all) = Len(events) + 1 /\ Len(events) \in Nat /\ Len(events) <= MaxEvents
  BY DEF TypeOK
<1>2. CASE Len(all) > MaxEvents
  <2>1. Listed(e) = SubSeq(all, Cut + 1, Len(all))
    BY <1>2 DEF Listed
  <2>2. Cut \in Nat /\ Cut >= 1 /\ Cut <= MaxEvents /\ MaxEvents \in Nat
    BY HydraAssumption
  <2>3. SubSeq(all, Cut + 1, Len(all)) \in Seq(Event)
    BY <1>1, <2>2
  <2>4. Len(SubSeq(all, Cut + 1, Len(all))) <= MaxEvents
    BY <1>1, <1>2, <2>2
  <2> QED BY <2>1, <2>3, <2>4
<1>3. CASE ~(Len(all) > MaxEvents)
  BY <1>1, <1>3, HydraAssumption DEF Listed
<1> QED BY <1>2, <1>3

LEMMA EmptySequences == /\ <<>> \in Seq(Message) /\ <<>> \in Seq(Event) /\ <<>> \in Seq(Tx)
                        /\ Len(<<>>) <= MaxEvents
  BY HydraAssumption

\* The initial state is typed.
LEMMA InitType == Init => TypeOK
<1>1. ASSUME NEW mine \in BOOLEAN, NEW v \in Nat PROVE Deposited(mine, v) \subseteq Coin
  <2>1. <<>> \in Seq(Step)
    OBVIOUS
  <2>2. ASSUME NEW w \in {v} \ {0} PROVE [id |-> <<>>, mine |-> mine, value |-> w] \in Coin
    BY <2>1 DEF Coin
  <2> QED BY <2>2, Zenon DEF Deposited
<1>2. Deposited(TRUE, Funds) \cup Deposited(FALSE, PeerFunds) \subseteq Coin
  BY <1>1, HydraAssumption
<1>3. Idle \in Command
  BY HydraAssumption DEF Idle, Command
<1>4. ASSUME Init PROVE thr \in [Thread -> Command] /\ \A t \in Thread : At(t, "idle")
  BY <1>3, <1>4, Zenon DEF Init, At, Idle
<1> QED BY <1>2, <1>4, EmptySequences, Zenon DEF Init, TypeOK

\* A message that is emitted leaves the wire a sequence of messages.
LEMMA EmitType ==
  ASSUME TypeOK, NEW m \in Message, Emit(m)
  PROVE  wire' \in Seq(Message)
  BY DEF TypeOK, Emit

\* A thread that goes on, or back to idle, keeps its type.
ThreadsOK == thr \in [Thread -> Command] /\ \A t \in Thread : At(t, "idle") \/ thr[t].tx \in Tx

LEMMA CommandType ==
  ASSUME TypeOK, NEW t \in Thread, NEW r \in Command, r.pc = "idle" \/ r.tx \in Tx,
         thr' = [thr EXCEPT ![t] = r]
  PROVE  ThreadsOK'
  BY DEF TypeOK, ThreadsOK, At

LEMMA ReplyType ==
  ASSUME TypeOK, NEW t \in Thread, Reply(t)
  PROVE  ThreadsOK'
<1>1. Idle \in Command /\ Idle.pc = "idle"
  BY HydraAssumption DEF Idle, Command
<1> QED BY <1>1, CommandType DEF Reply

\* The coins after a snapshot.
LEMMA ConfirmType ==
  ASSUME TypeOK, NEW txs \in SUBSET pending, Confirm(txs)
  PROVE  utxo' \subseteq Coin
<1> DEFINE spent == {c \in utxo : \E tx \in txs : Spends(tx, c)}
           made  == UNION {Outputs(p[1], p[2]) :
                             p \in {q \in txs \X spent : Spends(q[1], q[2])}}
<1>1. utxo' = (utxo \ spent) \cup made
  BY DEF Confirm
<1>2. ASSUME NEW p \in txs \X spent PROVE Outputs(p[1], p[2]) \subseteq Coin
  BY OutputsType DEF TypeOK
<1>3. made \subseteq Coin
  BY <1>2
<1> QED BY <1>1, <1>3 DEF TypeOK

LEMMA TypeStep == TypeOK /\ [Next]_vars => TypeOK'
<1> SUFFICES ASSUME TypeOK, [Next]_vars PROVE TypeOK'
  OBVIOUS
<1> USE HydraAssumption
<1>1. ASSUME NEW txs \in SUBSET pending, Confirm(txs) PROVE TypeOK'
  <2>1. utxo' \subseteq Coin
    BY <1>1, ConfirmType
  <2>2. Msg("SnapshotConfirmed", txs, utxo') \in Message
    BY <2>1 DEF Msg, Message, Tag, TypeOK
  <2>3. Emit(Msg("SnapshotConfirmed", txs, utxo'))
    BY <1>1 DEF Confirm
  <2>4. wire' \in Seq(Message)
    BY <2>2, <2>3, EmitType
  <2> QED BY <1>1, <2>1, <2>4 DEF Confirm, TypeOK, At, clientVars
<1>2. ASSUME NEW tx \in pending, Invalid(tx) PROVE TypeOK'
  <2>1. Msg("TxInvalid", {tx}, {}) \in Message
    BY DEF Msg, Message, Tag, TypeOK
  <2>2. wire' \in Seq(Message)
    BY <1>2, <2>1, EmitType DEF Invalid
  <2> QED BY <1>2, <2>2 DEF Invalid, TypeOK, At, clientVars, history
<1>3. ASSUME NEW c \in utxo, NEW a \in Amount, PeerPays(c, a) PROVE TypeOK'
  <2>1. Payment(c, a) \in Tx
    BY <1>3, PaymentType DEF PeerPays, TypeOK
  <2> QED BY <1>3, <2>1 DEF PeerPays, TypeOK, At, sockVars, clientVars, history
<1>4. CASE OtherEvent
  <2>1. Msg("other", {}, {}) \in Message
    BY DEF Msg, Message, Tag
  <2>2. wire' \in Seq(Message)
    BY <1>4, <2>1, EmitType DEF OtherEvent
  <2> QED BY <1>4, <2>2 DEF OtherEvent, TypeOK, At, headVars, clientVars, history
<1>5. CASE OnOpen
  <2>1. Msg("Greetings", {}, utxo) \in Message
    BY DEF Msg, Message, Tag, TypeOK
  <2> QED BY <1>5, <2>1 DEF OnOpen, TypeOK, At, headVars, clientVars, history
<1>6. CASE OnClose
  BY <1>6, EmptySequences DEF OnClose, TypeOK, At, headVars, clientVars, history
<1>7. CASE OnMessage
  <2> DEFINE m == Head(wire)
             e == [tag |-> m.tag, txs |-> m.txs]
  <2>1. m \in Message /\ e \in Event /\ wire' \in Seq(Message)
    <3>1. wire \in Seq(Message) /\ wire # <<>>
      BY <1>7 DEF OnMessage, TypeOK
    <3>2. m \in Message /\ Tail(wire) \in Seq(Message)
      BY <3>1
    <3> QED BY <1>7, <3>2 DEF OnMessage, Message, Event
  <2>2. events' \in Seq(Event) /\ Len(events') <= MaxEvents
    BY <1>7, <2>1, ListedType DEF OnMessage
  <2>3. view' \subseteq Coin
    BY <1>7, <2>1 DEF OnMessage, Handled, TypeOK, Message
  <2>4. ThreadsOK'
    <3> DEFINE cut(t) == thr[t].cut \/ (HasIndex(t) /\ Len(events) = MaxEvents)
               got(t) == thr[t].got \/ (Awaiting(t) /\ Done(e, thr[t].tx))
    <3>1. thr' = [t \in Thread |-> [thr[t] EXCEPT !.cut = cut(t), !.got = got(t)]]
      BY <1>7, Zenon DEF OnMessage
    <3>2. ASSUME NEW t \in Thread PROVE cut(t) \in BOOLEAN /\ got(t) \in BOOLEAN
      OBVIOUS
    <3> HIDE DEF cut, got
    <3>3. ASSUME NEW t \in Thread
          PROVE  thr'[t] \in Command /\ thr'[t].pc = thr[t].pc /\ thr'[t].tx = thr[t].tx
      BY <3>1, <3>2 DEF TypeOK, Command
    <3> QED BY <3>1, <3>3, Zenon DEF TypeOK, ThreadsOK, At
  <2> QED BY <1>7, <2>1, <2>2, <2>3, <2>4 DEF OnMessage, TypeOK, ThreadsOK, headVars, history
<1>8. ASSUME NEW t \in Thread, NEW a \in Amount, PayPick(t, a) PROVE TypeOK'
  <2>1. PICK c \in PickInput(a) :
          thr' = [thr EXCEPT ![t].pc = "picked", ![t].tx = Payment(c, a)]
    BY <1>8 DEF PayPick
  <2>2. Payment(c, a) \in Tx
    BY PaymentType DEF PickInput, TypeOK
  <2>3. ThreadsOK'
    BY <2>1, <2>2, ZenonT(30) DEF TypeOK, ThreadsOK, At, Command
  <2> QED BY <1>8, <2>3 DEF PayPick, TypeOK, ThreadsOK, headVars, sockVars, clientVars, history
<1>9. ASSUME NEW t \in Thread, Mark(t) PROVE TypeOK'
  <2>1. Len(events) \in 0..MaxEvents
    BY DEF TypeOK
  <2>2. ThreadsOK'
    BY <1>9, <2>1, ZenonT(30) DEF Mark, TypeOK, ThreadsOK, At, Command
  <2> QED BY <1>9, <2>2 DEF Mark, TypeOK, ThreadsOK, headVars, sockVars, clientVars, history
<1>10. ASSUME NEW t \in Thread, Post(t) PROVE TypeOK'
  BY <1>10 DEF Post, TypeOK, ThreadsOK, At, Command, sockVars, clientVars, history
<1>11. ASSUME NEW t \in Thread, PostAccepted(t) PROVE TypeOK'
  BY <1>11 DEF PostAccepted, TypeOK, ThreadsOK, At, Command, headVars, sockVars, clientVars, history
<1>12. ASSUME NEW t \in Thread, PostRefused(t) \/ PostFails(t) \/ WaitTimeout(t) PROVE TypeOK'
  BY <1>12, ReplyType
     DEF PostRefused, PostFails, WaitTimeout, TypeOK, ThreadsOK, headVars, sockVars, clientVars, history
<1>13. ASSUME NEW t \in Thread, WaitDone(t) PROVE TypeOK'
  <2>1. ok' \in Seq(Tx)
    BY <1>13 DEF WaitDone, TypeOK, At
  <2> QED BY <1>13, <2>1, ReplyType DEF WaitDone, TypeOK, ThreadsOK, headVars, sockVars, clientVars
<1>14. CASE ClientRestart
  <2>1. Idle \in Command /\ Idle.pc = "idle"
    BY DEF Idle, Command
  <2>2. ThreadsOK'
    BY <1>14, <2>1, Zenon DEF ClientRestart, ThreadsOK, At
  <2> QED BY <1>14, <2>2, EmptySequences, Zenon DEF ClientRestart, TypeOK, ThreadsOK, headVars, history
<1>15. CASE UNCHANGED vars
  BY <1>15 DEF vars, TypeOK, At, headVars, sockVars, clientVars, history
<1> QED BY <1>1, <1>2, <1>3, <1>4, <1>5, <1>6, <1>7, <1>8, <1>9, <1>10, <1>11, <1>12, <1>13, <1>14, <1>15
        DEF Next, Node, Socket, Pay

\* Every variable has its type, and the event list stays within its limit,
\* whatever is cut from it (on_message, cmd_pay).
THEOREM TypeCorrect == Spec => []TypeOK
<1>1. Init => TypeOK
  BY InitType
<1>2. TypeOK /\ [Next]_vars => TypeOK'
  BY TypeStep
<1> QED BY <1>1, <1>2, PTL DEF Spec

-----------------------------------------------------------------------------
(* The view: the last UTxO set on the wire is the one of the head, and     *)
(* with none on the wire the view is.                                      *)

IsView(m) == m.tag \in {"Greetings", "SnapshotConfirmed"}

\* From index i on, the wire brings no other UTxO set.
LastView(i) == \A j \in DOMAIN wire : j > i => ~IsView(wire[j])

ViewInv ==
  conn => \/ view = utxo /\ LastView(0)
          \/ \E i \in DOMAIN wire : IsView(wire[i]) /\ wire[i].utxo = utxo /\ LastView(i)

\* What brings no UTxO set may be emitted at any time.
LEMMA EmitKeepsView ==
  ASSUME TypeOK, ViewInv, NEW m \in Message, ~IsView(m), Emit(m), UNCHANGED <<utxo, view, conn>>
  PROVE  ViewInv'
<1> SUFFICES ASSUME conn PROVE ViewInv'
  BY DEF ViewInv
<1>1. wire' = Append(wire, m) /\ wire \in Seq(Message)
  BY DEF Emit, TypeOK
<1>2. /\ DOMAIN wire' = 1..(Len(wire) + 1) /\ DOMAIN wire = 1..Len(wire) /\ Len(wire) \in Nat
      /\ wire'[Len(wire) + 1] = m /\ \A i \in DOMAIN wire : wire'[i] = wire[i]
  BY <1>1
<1>3. ASSUME NEW i, LastView(i) PROVE LastView(i)'
  BY <1>2, <1>3 DEF LastView
<1> QED BY <1>2, <1>3 DEF ViewInv

\* A snapshot brings the new UTxO set with it.
LEMMA EmitNewView ==
  ASSUME TypeOK, NEW m \in Message, IsView(m), m.utxo = utxo', Emit(m), UNCHANGED conn
  PROVE  ViewInv'
<1> SUFFICES ASSUME conn PROVE ViewInv'
  BY DEF ViewInv
<1>1. wire' = Append(wire, m) /\ wire \in Seq(Message)
  BY DEF Emit, TypeOK
<1>2. /\ DOMAIN wire' = 1..(Len(wire) + 1) /\ Len(wire) \in Nat
      /\ wire'[Len(wire) + 1] = m
  BY <1>1
<1>0. PICK n \in Nat : n = Len(wire) + 1
  BY <1>2
<1>3. n \in DOMAIN wire' /\ IsView(wire'[n]) /\ wire'[n].utxo = utxo'
  BY <1>0, <1>2
<1>4. LastView(n)'
  BY <1>0, <1>2 DEF LastView
<1> QED BY <1>3, <1>4 DEF ViewInv

LEMMA ViewStep == TypeOK /\ TypeOK' /\ ViewInv /\ [Next]_vars => ViewInv'
<1> SUFFICES ASSUME TypeOK, TypeOK', ViewInv, [Next]_vars PROVE ViewInv'
  OBVIOUS
<1>0. ASSUME UNCHANGED <<utxo, view, conn, wire>> PROVE ViewInv'
  BY <1>0 DEF ViewInv, LastView
<1>1. ASSUME NEW txs \in SUBSET pending, Confirm(txs) PROVE ViewInv'
  <2> DEFINE m == Msg("SnapshotConfirmed", txs, utxo')
  <2>1. m \in Message /\ IsView(m) /\ m.utxo = utxo'
    BY DEF Msg, Message, Tag, TypeOK, IsView
  <2>2. Emit(m) /\ UNCHANGED conn
    BY <1>1 DEF Confirm
  <2> QED BY <2>1, <2>2, EmitNewView
<1>2. ASSUME NEW tx \in pending, Invalid(tx) PROVE ViewInv'
  <2> DEFINE m == Msg("TxInvalid", {tx}, {})
  <2>1. m \in Message /\ ~IsView(m)
    BY DEF Msg, Message, Tag, TypeOK, IsView
  <2>2. Emit(m) /\ UNCHANGED <<utxo, view, conn>>
    BY <1>2 DEF Invalid, clientVars
  <2> QED BY <2>1, <2>2, EmitKeepsView
<1>3. CASE OtherEvent
  <2> DEFINE m == Msg("other", {}, {})
  <2>1. m \in Message /\ ~IsView(m)
    BY DEF Msg, Message, Tag, TypeOK, IsView
  <2>2. Emit(m) /\ UNCHANGED <<utxo, view, conn>>
    BY <1>3 DEF OtherEvent, clientVars, headVars
  <2> QED BY <2>1, <2>2, EmitKeepsView
<1>4. CASE OnOpen
  <2>1. wire' = <<Msg("Greetings", {}, utxo)>> /\ utxo' = utxo
    BY <1>4 DEF OnOpen, headVars
  <2>2. DOMAIN wire' = {1} /\ IsView(wire'[1]) /\ wire'[1].utxo = utxo'
    BY <2>1 DEF Msg, IsView
  <2> QED BY <2>2 DEF ViewInv, LastView
<1>5. CASE OnClose \/ ClientRestart
  BY <1>5 DEF OnClose, ClientRestart, ViewInv
<1>6. CASE OnMessage
  <2> SUFFICES ASSUME conn PROVE ViewInv'
    BY <1>6 DEF OnMessage, ViewInv
  <2>1. /\ wire \in Seq(Message) /\ wire # <<>> /\ wire' = Tail(wire)
        /\ view' = Handled(wire[1]) /\ utxo' = utxo
    <3>1. wire \in Seq(Message) /\ wire # <<>> /\ wire' = Tail(wire) /\ utxo' = utxo
      BY <1>6 DEF OnMessage, TypeOK, headVars
    <3>2. view' = Handled(Head(wire))
      BY <1>6, Zenon DEF OnMessage
    <3>3. Head(wire) = wire[1]
      BY <3>1
    <3> QED BY <3>1, <3>2, <3>3
  <2>2. /\ DOMAIN wire = 1..Len(wire) /\ Len(wire) \in Nat /\ Len(wire) >= 1
        /\ DOMAIN wire' = 1..(Len(wire) - 1)
        /\ \A j \in DOMAIN wire' : wire'[j] = wire[j + 1]
    BY <2>1
  <2>3. CASE view = utxo /\ LastView(0)
    <3>1. ~IsView(wire[1])
      BY <2>2, <2>3 DEF LastView
    <3>2. view' = utxo'
      BY <2>1, <2>3, <3>1 DEF Handled, IsView
    <3>3. LastView(0)'
      BY <2>2, <2>3 DEF LastView
    <3> QED BY <3>2, <3>3 DEF ViewInv
  <2>4. ASSUME NEW i \in DOMAIN wire, IsView(wire[i]), wire[i].utxo = utxo, LastView(i)
        PROVE  ViewInv'
    <3>1. LastView(i - 1)'
      BY <2>2, <2>4 DEF LastView
    <3>2. CASE i = 1
      <4>1. view' = utxo'
        BY <2>1, <2>4, <3>2 DEF Handled, IsView
      <4> QED BY <3>1, <3>2, <4>1 DEF ViewInv
    <3>3. CASE i > 1
      <4>1. i - 1 \in DOMAIN wire' /\ wire'[i - 1] = wire[i]
        BY <2>2, <3>3
      <4> QED BY <2>1, <2>4, <3>1, <4>1 DEF ViewInv
    <3> QED BY <2>2, <3>2, <3>3
  <2> QED BY <2>3, <2>4 DEF ViewInv
<1>7. ASSUME NEW c \in utxo, NEW a \in Amount, PeerPays(c, a) PROVE ViewInv'
  BY <1>0, <1>7 DEF PeerPays, sockVars, clientVars
<1>8. ASSUME NEW t \in Thread, Pay(t) PROVE ViewInv'
  BY <1>0, <1>8 DEF Pay, PayPick, Mark, Post, PostAccepted, PostRefused, PostFails, WaitDone,
                    WaitTimeout, headVars, sockVars, clientVars
<1>9. CASE UNCHANGED vars
  BY <1>0, <1>9 DEF vars, headVars, sockVars, clientVars
<1> QED BY <1>1, <1>2, <1>3, <1>4, <1>5, <1>6, <1>7, <1>8, <1>9 DEF Next, Node, Socket

\* A connected client that has handled all its events pays from the UTxO set of
\* the head, whatever connections were lost before (handle).
THEOREM ViewCorrect == Spec => []ViewIsCurrent
<1>1. Init => ViewInv
  BY DEF Init, ViewInv
<1>2. TypeOK /\ TypeOK' /\ ViewInv /\ [Next]_vars => ViewInv'
  BY ViewStep
<1>3. ViewInv => ViewIsCurrent
  BY DEF ViewInv, ViewIsCurrent
<1> QED BY <1>1, <1>2, <1>3, TypeCorrect, PTL DEF Spec

-----------------------------------------------------------------------------
(* The answers: what the list of events confirms is confirmed, and an      *)
(* answer that came stands in the list behind the index of its payment.    *)

\* An event or message that confirms a transaction of mine speaks the truth.
Truthful(e) == e.tag = "SnapshotConfirmed" => {tx \in e.txs : tx.mine} \subseteq confirmed

OkInv ==
  /\ \A i \in DOMAIN wire : Truthful(wire[i])
  /\ \A i \in DOMAIN events : Truthful(events[i])
  /\ \A t \in Thread : At(t, "idle") \/ thr[t].tx.mine
  /\ OkIsConfirmed

WaitInv ==
  \A t \in Thread :
    /\ thr[t].got => Awaiting(t)
    /\ HasIndex(t) /\ ~thr[t].cut => thr[t].since <= Len(events)
    /\ thr[t].got /\ ~thr[t].cut => Found(t) # {}

\* Whatever is cut, the list holds events it held before and the new one.
LEMMA ListedElements ==
  ASSUME TypeOK, NEW e \in Event, NEW i \in DOMAIN Listed(e)
  PROVE  Listed(e)[i] = e \/ \E j \in DOMAIN events : Listed(e)[i] = events[j]
<1> DEFINE all == Append(events, e)
<1>1. all \in Seq(Event) /\ Len(all) = Len(events) + 1 /\ Len(events) \in Nat
  BY DEF TypeOK
<1>2. ASSUME NEW k \in DOMAIN all
      PROVE  all[k] = e \/ \E j \in DOMAIN events : all[k] = events[j]
  <2>1. k \in 1..(Len(events) + 1) /\ DOMAIN events = 1..Len(events) /\ events \in Seq(Event)
    BY <1>1 DEF TypeOK
  <2>2. CASE k = Len(events) + 1
    BY <2>1, <2>2
  <2>3. CASE k \in DOMAIN events
    BY <2>1, <2>3
  <2> QED BY <2>1, <2>2, <2>3
<1>3. CASE Len(all) > MaxEvents
  <2>1. Listed(e) = SubSeq(all, Cut + 1, Len(all))
    BY <1>3 DEF Listed
  <2>2. Cut \in Nat /\ Cut >= 1 /\ Cut <= MaxEvents /\ MaxEvents \in Nat
    BY HydraAssumption
  <2> HIDE DEF all
  <2>3. i + Cut \in DOMAIN all /\ SubSeq(all, Cut + 1, Len(all))[i] = all[i + Cut]
    BY <1>1, <1>3, <2>1, <2>2
  <2> QED BY <1>2, <2>1, <2>3
<1>4. CASE ~(Len(all) > MaxEvents)
  <2>1. Listed(e) = all
    BY <1>4 DEF Listed
  <2> QED BY <1>2, <2>1
<1> QED BY <1>3, <1>4

\* A list that is not full only grows.
LEMMA ListedGrows ==
  ASSUME TypeOK, NEW e \in Event, Len(events) # MaxEvents
  PROVE  Listed(e) = Append(events, e)
  BY HydraAssumption DEF TypeOK, Listed

\* A truthful message may be emitted at any time.
LEMMA EmitTruthful ==
  ASSUME TypeOK, \A i \in DOMAIN wire : Truthful(wire[i]), confirmed \subseteq confirmed',
         NEW m \in Message, m.tag = "SnapshotConfirmed" => {tx \in m.txs : tx.mine} \subseteq confirmed',
         Emit(m)
  PROVE  (\A i \in DOMAIN wire : Truthful(wire[i]))'
<1>1. CASE ~conn
  BY <1>1 DEF Emit, Truthful
<1>2. CASE conn
  <2>1. wire' = Append(wire, m) /\ wire \in Seq(Message)
    BY <1>2 DEF Emit, TypeOK
  <2>2. /\ DOMAIN wire' = DOMAIN wire \cup {Len(wire) + 1}
        /\ wire'[Len(wire) + 1] = m /\ \A i \in DOMAIN wire : wire'[i] = wire[i]
    BY <2>1
  <2> QED BY <2>2 DEF Truthful
<1> QED BY <1>1, <1>2

LEMMA OkStep == TypeOK /\ OkInv /\ [Next]_vars => OkInv'
<1> SUFFICES ASSUME TypeOK, OkInv, [Next]_vars PROVE OkInv'
  OBVIOUS
<1>1. ASSUME NEW txs \in SUBSET pending, Confirm(txs) PROVE OkInv'
  <2> DEFINE m == Msg("SnapshotConfirmed", txs, utxo')
  <2>1. m \in Message
    <3>1. utxo' \subseteq Coin
      BY <1>1, ConfirmType
    <3> QED BY <3>1 DEF Msg, Message, Tag, TypeOK
  <2>2. {tx \in m.txs : tx.mine} \subseteq confirmed' /\ confirmed \subseteq confirmed'
    BY <1>1 DEF Confirm, Msg
  <2>3. Emit(m) /\ UNCHANGED <<events, thr, ok>>
    BY <1>1 DEF Confirm, clientVars
  <2>4. (\A i \in DOMAIN wire : Truthful(wire[i]))'
    BY <2>1, <2>2, <2>3, EmitTruthful DEF OkInv
  <2> QED BY <2>2, <2>3, <2>4 DEF OkInv, OkIsConfirmed, Truthful, At
<1>2. ASSUME NEW tx \in pending, Invalid(tx) PROVE OkInv'
  <2> DEFINE m == Msg("TxInvalid", {tx}, {})
  <2>1. m \in Message /\ m.tag # "SnapshotConfirmed"
    BY DEF Msg, Message, Tag, TypeOK
  <2>2. Emit(m) /\ UNCHANGED <<events, thr, ok, confirmed>>
    BY <1>2 DEF Invalid, clientVars, history
  <2>3. (\A i \in DOMAIN wire : Truthful(wire[i]))'
    BY <2>1, <2>2, EmitTruthful DEF OkInv
  <2> QED BY <2>2, <2>3 DEF OkInv, OkIsConfirmed, Truthful, At
<1>3. CASE OtherEvent
  <2> DEFINE m == Msg("other", {}, {})
  <2>1. m \in Message /\ m.tag # "SnapshotConfirmed"
    BY DEF Msg, Message, Tag, TypeOK
  <2>2. Emit(m) /\ UNCHANGED <<events, thr, ok, confirmed>>
    BY <1>3 DEF OtherEvent, clientVars, history
  <2>3. (\A i \in DOMAIN wire : Truthful(wire[i]))'
    BY <2>1, <2>2, EmitTruthful DEF OkInv
  <2> QED BY <2>2, <2>3 DEF OkInv, OkIsConfirmed, Truthful, At
<1>4. CASE OnOpen
  <2>1. wire' = <<Msg("Greetings", {}, utxo)>> /\ UNCHANGED <<events, thr, ok, confirmed>>
    BY <1>4 DEF OnOpen, clientVars, history
  <2>2. DOMAIN wire' = {1} /\ wire'[1].tag # "SnapshotConfirmed"
    BY <2>1 DEF Msg
  <2> QED BY <2>1, <2>2 DEF OkInv, OkIsConfirmed, Truthful, At
<1>5. CASE OnClose
  <2>1. DOMAIN wire' = {} /\ UNCHANGED <<events, thr, ok, confirmed>>
    BY <1>5 DEF OnClose, clientVars, history
  <2> QED BY <2>1 DEF OkInv, OkIsConfirmed, Truthful, At
<1>6. CASE OnMessage
  <2> DEFINE m == Head(wire)
             e == [tag |-> m.tag, txs |-> m.txs]
  <2>1. wire \in Seq(Message) /\ wire # <<>> /\ wire' = Tail(wire) /\ UNCHANGED <<ok, confirmed>>
    BY <1>6 DEF OnMessage, TypeOK, history
  <2>2. events' = Listed(e)
    BY <1>6 DEF OnMessage
  <2>3. /\ m = wire[1] /\ 1 \in DOMAIN wire
        /\ \A j \in DOMAIN wire' : j + 1 \in DOMAIN wire /\ wire'[j] = wire[j + 1]
    BY <2>1
  <2>4. m \in Message /\ e \in Event /\ Truthful(e)
    <3>1. m \in Message /\ Truthful(m)
      BY <2>1, <2>3 DEF OkInv
    <3> HIDE DEF m
    <3> QED BY <3>1 DEF Message, Event, Truthful
  <2>5. (\A i \in DOMAIN wire : Truthful(wire[i]))'
    BY <2>1, <2>3 DEF OkInv, Truthful
  <2> HIDE DEF e
  <2>6. (\A i \in DOMAIN events : Truthful(events[i]))'
    <3> SUFFICES ASSUME NEW i \in DOMAIN events', events'[i].tag = "SnapshotConfirmed"
                 PROVE  {tx \in events'[i].txs : tx.mine} \subseteq confirmed'
      BY DEF Truthful
    <3>1. events'[i] = e \/ \E j \in DOMAIN events : events'[i] = events[j]
      BY <2>2, <2>4, ListedElements
    <3> QED BY <2>1, <2>4, <3>1 DEF OkInv, Truthful
  <2>7. \A t \in Thread : thr'[t].pc = thr[t].pc /\ thr'[t].tx = thr[t].tx
    BY <1>6 DEF OnMessage, TypeOK, Command
  <2> QED BY <2>1, <2>5, <2>6, <2>7 DEF OkInv, OkIsConfirmed, At
<1>7. ASSUME NEW c \in utxo, NEW a \in Amount, PeerPays(c, a) PROVE OkInv'
  BY <1>7 DEF PeerPays, sockVars, clientVars, history, OkInv, OkIsConfirmed, Truthful, At
<1>8. ASSUME NEW t \in Thread, NEW a \in Amount, PayPick(t, a) PROVE OkInv'
  <2>1. PICK c \in PickInput(a) :
          thr' = [thr EXCEPT ![t].pc = "picked", ![t].tx = Payment(c, a)]
    BY <1>8 DEF PayPick
  <2>2. Payment(c, a) \in Tx /\ Payment(c, a).mine
    BY PaymentType DEF PickInput, TypeOK
  <2>3. (\A u \in Thread : At(u, "idle") \/ thr[u].tx.mine)'
    BY <2>1, <2>2 DEF TypeOK, Command, OkInv, At
  <2> QED BY <1>8, <2>3 DEF PayPick, sockVars, clientVars, history, OkInv, OkIsConfirmed, Truthful
<1>9. ASSUME NEW t \in Thread, Mark(t) \/ Post(t) \/ PostAccepted(t) PROVE OkInv'
  <2>1. \A u \in Thread : thr'[u].tx = thr[u].tx /\ (At(u, "idle") => thr'[u].pc = "idle")
    <3>1. CASE Mark(t)
      BY <3>1 DEF Mark, TypeOK, Command, At
    <3>2. CASE Post(t) \/ PostAccepted(t)
      BY <3>2 DEF Post, PostAccepted, TypeOK, Command, At
    <3> QED BY <1>9, <3>1, <3>2
  <2> QED BY <1>9, <2>1 DEF Mark, Post, PostAccepted, sockVars, clientVars, history, OkInv, OkIsConfirmed, Truthful, At
<1>10. ASSUME NEW t \in Thread, Reply(t) PROVE (\A u \in Thread : At(u, "idle") \/ thr[u].tx.mine)'
  BY <1>10 DEF Reply, Idle, TypeOK, OkInv, At
<1>11. ASSUME NEW t \in Thread, PostRefused(t) \/ PostFails(t) \/ WaitTimeout(t) PROVE OkInv'
  BY <1>10, <1>11 DEF PostRefused, PostFails, WaitTimeout, sockVars, clientVars, history, OkInv,
                      OkIsConfirmed, Truthful
<1>12. ASSUME NEW t \in Thread, WaitDone(t) PROVE OkInv'
  <2>1. PICK i \in Found(t) :
          ok' = IF events[i].tag = "SnapshotConfirmed" THEN Append(ok, thr[t].tx) ELSE ok
    BY <1>12 DEF WaitDone
  <2>2. At(t, "wait") /\ UNCHANGED <<wire, events, confirmed>> /\ Reply(t)
    BY <1>12 DEF WaitDone, sockVars, clientVars
  <2>3. thr[t].tx.mine /\ thr[t].tx \in Tx
    BY <2>2 DEF OkInv, TypeOK, At
  <2>4. i \in DOMAIN events /\ thr[t].tx \in events[i].txs
    BY DEF Found, Done, TypeOK, Command
  <2>5. OkIsConfirmed'
    <3>1. CASE events[i].tag # "SnapshotConfirmed"
      BY <2>1, <2>2, <3>1 DEF OkInv, OkIsConfirmed
    <3>2. CASE events[i].tag = "SnapshotConfirmed"
      <4>1. thr[t].tx \in confirmed
        BY <2>3, <2>4, <3>2 DEF OkInv, Truthful
      <4>2. ok' = Append(ok, thr[t].tx) /\ ok \in Seq(Tx)
        BY <2>1, <3>2 DEF TypeOK
      <4>3. \A k \in DOMAIN ok' : ok'[k] = thr[t].tx \/ (k \in DOMAIN ok /\ ok'[k] = ok[k])
        BY <4>2, <2>3
      <4> QED BY <2>2, <4>1, <4>3 DEF OkInv, OkIsConfirmed
    <3> QED BY <3>1, <3>2
  <2> QED BY <1>10, <2>2, <2>5 DEF OkInv, Truthful
<1>13. CASE ClientRestart
  <2>1. DOMAIN wire' = {} /\ DOMAIN events' = {} /\ UNCHANGED <<ok, confirmed>>
    BY <1>13 DEF ClientRestart, history
  <2>2. \A t \in Thread : thr'[t].pc = "idle"
    BY <1>13 DEF ClientRestart, Idle
  <2> QED BY <2>1, <2>2 DEF OkInv, OkIsConfirmed, At
<1>14. CASE UNCHANGED vars
  BY <1>14 DEF vars, sockVars, clientVars, history, OkInv, OkIsConfirmed, Truthful, At
<1> QED BY <1>1, <1>2, <1>3, <1>4, <1>5, <1>6, <1>7, <1>8, <1>9, <1>11, <1>12, <1>13, <1>14
        DEF Next, Node, Socket, Pay

\* A payment that is replied OK is confirmed in the head, whatever else is
\* confirmed, rejected or lost while it waits (done in cmd_pay).
THEOREM OkCorrect == Spec => []OkIsConfirmed
<1>1. Init => OkInv
  BY DEF Init, OkInv, OkIsConfirmed, Idle, At
<1>2. TypeOK /\ OkInv /\ [Next]_vars => OkInv'
  BY OkStep
<1>3. OkInv => OkIsConfirmed
  BY DEF OkInv
<1> QED BY <1>1, <1>2, <1>3, TypeCorrect, PTL DEF Spec

\* As long as the list is not cut, an answer that was found stays found.
LEMMA WaitMessage ==
  ASSUME TypeOK, WaitInv, OnMessage
  PROVE  WaitInv'
<1> DEFINE e == [tag |-> Head(wire).tag, txs |-> Head(wire).txs]
           cut(t) == thr[t].cut \/ (HasIndex(t) /\ Len(events) = MaxEvents)
           got(t) == thr[t].got \/ (Awaiting(t) /\ Done(e, thr[t].tx))
<1>1. e \in Event
  <2>1. wire \in Seq(Message) /\ wire # <<>>
    BY DEF OnMessage, TypeOK
  <2>2. Head(wire) \in Message
    BY <2>1
  <2> QED BY <2>2 DEF Message, Event
<1>2. events' = Listed(e) /\ thr' = [t \in Thread |-> [thr[t] EXCEPT !.cut = cut(t), !.got = got(t)]]
  BY Zenon DEF OnMessage
<1> SUFFICES ASSUME NEW t \in Thread
             PROVE  /\ thr'[t].got => Awaiting(t)'
                    /\ HasIndex(t)' /\ ~thr'[t].cut => thr'[t].since <= Len(events')
                    /\ thr'[t].got /\ ~thr'[t].cut => Found(t)' # {}
  BY DEF WaitInv
<1> HIDE DEF e
<1>3. /\ thr'[t].pc = thr[t].pc /\ thr'[t].tx = thr[t].tx /\ thr'[t].since = thr[t].since
      /\ thr'[t].cut = cut(t) /\ thr'[t].got = got(t)
  BY <1>2 DEF TypeOK, Command
<1>4. thr[t].since \in Nat /\ events \in Seq(Event) /\ Len(events) \in Nat
  BY DEF TypeOK, Command
<1>5. thr'[t].got => Awaiting(t)'
  BY <1>3 DEF WaitInv, Awaiting
<1>6. Awaiting(t) => HasIndex(t)
  BY DEF Awaiting, HasIndex
<1>7. ASSUME HasIndex(t), ~cut(t)
      PROVE  thr'[t].since <= Len(events') /\ (thr'[t].got => Found(t)' # {})
  <2>1. events' = Append(events, e)
    BY <1>1, <1>2, <1>7, ListedGrows
  <2>2. /\ Len(events') = Len(events) + 1 /\ events'[Len(events) + 1] = e
        /\ \A i \in 1..Len(events) : events'[i] = events[i]
    BY <1>1, <1>4, <2>1
  <2>3. thr[t].since <= Len(events)
    BY <1>7 DEF WaitInv
  <2>4. ASSUME thr[t].got PROVE Found(t)' # {}
    <3>1. PICK i \in Found(t) : TRUE
      BY <1>7, <2>4 DEF WaitInv
    <3>2. i \in Found(t)'
      BY <1>3, <1>4, <2>2, <3>1 DEF Found
    <3> QED BY <3>2
  <2>5. ASSUME Done(e, thr[t].tx) PROVE Found(t)' # {}
    <3>1. PICK i \in Nat : i = Len(events) + 1
      BY <1>4
    <3>2. i \in thr'[t].since + 1 .. Len(events') /\ events'[i] = e
      BY <1>3, <1>4, <2>2, <2>3, <3>1
    <3> QED BY <1>3, <2>5, <3>2 DEF Found
  <2>6. thr'[t].since <= Len(events')
    BY <1>3, <1>4, <2>2, <2>3
  <2>7. thr'[t].got => Found(t)' # {}
    BY <1>3, <2>4, <2>5, Zenon
  <2> QED BY <2>6, <2>7
<1>8. HasIndex(t)' => HasIndex(t)
  BY <1>3 DEF HasIndex
<1>9. thr'[t].got /\ ~thr'[t].cut => Found(t)' # {}
  BY <1>3, <1>6, <1>7 DEF WaitInv
<1> QED BY <1>3, <1>5, <1>7, <1>8, <1>9

LEMMA WaitStep == TypeOK /\ WaitInv /\ [Next]_vars => WaitInv'
<1> SUFFICES ASSUME TypeOK, WaitInv, [Next]_vars PROVE WaitInv'
  OBVIOUS
<1> DEFINE I(t) == /\ thr[t].got => Awaiting(t)
                   /\ HasIndex(t) /\ ~thr[t].cut => thr[t].since <= Len(events)
                   /\ thr[t].got /\ ~thr[t].cut => Found(t) # {}
<1>0. ASSUME NEW t \in Thread, thr'[t] = thr[t], events' = events PROVE I(t)'
  BY <1>0 DEF WaitInv, Awaiting, HasIndex, Found
<1>1. ASSUME UNCHANGED <<thr, events>> PROVE WaitInv'
  BY <1>0, <1>1 DEF WaitInv
<1>2. ASSUME NEW t \in Thread, thr'[t] = Idle PROVE I(t)'
  BY <1>2 DEF Idle, HasIndex
<1>3. ASSUME NEW t \in Thread, Reply(t), events' = events PROVE WaitInv'
  <2>1. \A u \in Thread : thr'[u] = IF u = t THEN Idle ELSE thr[u]
    BY <1>3 DEF Reply, TypeOK
  <2>2. \A u \in Thread : I(u)'
    BY <1>0, <1>2, <1>3, <2>1
  <2> QED BY <2>2 DEF WaitInv
<1>4. CASE Node
  BY <1>1, <1>4 DEF Node, Confirm, Invalid, PeerPays, OtherEvent, clientVars
<1>5. CASE OnOpen \/ OnClose
  BY <1>1, <1>5 DEF OnOpen, OnClose, clientVars
<1>6. CASE OnMessage
  BY <1>6, WaitMessage
<1>7. ASSUME NEW t \in Thread, NEW a \in Amount, PayPick(t, a) PROVE WaitInv'
  <2>1. At(t, "idle") /\ events' = events
    BY <1>7 DEF PayPick, clientVars
  <2>2. PICK c : thr' = [thr EXCEPT ![t].pc = "picked", ![t].tx = Payment(c, a)]
    BY <1>7 DEF PayPick
  <2>3. thr'[t].pc = "picked" /\ thr'[t].got = thr[t].got
    BY <2>2 DEF TypeOK, Command
  <2>4. \A u \in Thread : u # t => thr'[u] = thr[u]
    BY <2>2 DEF TypeOK
  <2>5. I(t)'
    BY <2>1, <2>3 DEF WaitInv, At, Awaiting, HasIndex
  <2> QED BY <1>0, <2>1, <2>4, <2>5 DEF WaitInv
<1>8. ASSUME NEW t \in Thread, Mark(t) PROVE WaitInv'
  <2>1. At(t, "picked") /\ events' = events /\ Len(events) \in Nat
    BY <1>8 DEF Mark, clientVars, TypeOK
  <2>2. /\ thr'[t].pc = "marked" /\ thr'[t].got = thr[t].got /\ thr'[t].since = Len(events)
        /\ \A u \in Thread : u # t => thr'[u] = thr[u]
    BY <1>8 DEF Mark, TypeOK, Command
  <2>3. I(t)'
    BY <2>1, <2>2 DEF WaitInv, At, Awaiting, HasIndex
  <2> QED BY <1>0, <2>1, <2>2, <2>3 DEF WaitInv
<1>9. ASSUME NEW t \in Thread, Post(t) \/ PostAccepted(t) PROVE WaitInv'
  <2>1. HasIndex(t) /\ events' = events
    BY <1>9 DEF Post, PostAccepted, clientVars, At, HasIndex
  <2>2. /\ thr'[t].pc \in {"posted", "wait"} /\ thr'[t].got = thr[t].got /\ thr'[t].cut = thr[t].cut
        /\ thr'[t].since = thr[t].since /\ thr'[t].tx = thr[t].tx
        /\ \A u \in Thread : u # t => thr'[u] = thr[u]
    BY <1>9 DEF Post, PostAccepted, TypeOK, Command
  <2>3. I(t)'
    BY <2>1, <2>2 DEF WaitInv, Awaiting, HasIndex, Found
  <2> QED BY <1>0, <2>1, <2>2, <2>3 DEF WaitInv
<1>10. ASSUME NEW t \in Thread, PostRefused(t) \/ PostFails(t) \/ WaitDone(t) \/ WaitTimeout(t)
       PROVE  WaitInv'
  BY <1>3, <1>10 DEF PostRefused, PostFails, WaitDone, WaitTimeout, clientVars
<1>11. CASE ClientRestart
  <2>1. \A t \in Thread : thr'[t] = Idle
    BY <1>11 DEF ClientRestart
  <2> QED BY <1>2, <2>1 DEF WaitInv
<1>12. CASE UNCHANGED vars
  BY <1>1, <1>12 DEF vars, clientVars
<1> QED BY <1>4, <1>5, <1>6, <1>7, <1>8, <1>9, <1>10, <1>11, <1>12 DEF Next, Socket, Pay

\* A command whose answer came after its POST finds it in the list, unless the
\* list was cut (mark before post_transaction in cmd_pay, wait_pred).
THEOREM WaitCorrect == Spec => []WaiterSees
<1>1. Init => WaitInv
  BY DEF Init, WaitInv, Idle, HasIndex
<1>2. TypeOK /\ WaitInv /\ [Next]_vars => WaitInv'
  BY WaitStep
<1>3. WaitInv => WaiterSees
  BY DEF WaitInv, WaiterSees
<1> QED BY <1>1, <1>2, <1>3, TypeCorrect, PTL DEF Spec
=============================================================================
