------------------------------ MODULE HydraPay ------------------------------
(***************************************************************************)
(* Payments of the Cardano arm: the client cardano-mvp/hydrapay/hydrapay.py *)
(* next to a hydra-node, while the head is open and the deposits are made. *)
(*                                                                         *)
(* Every control connection is served by a thread (handle_ctl); one more   *)
(* thread runs the websocket and appends every event to a list, which it   *)
(* cuts when it gets long.  A payment waits in that list, from an index it *)
(* took before it posted its transaction over HTTP.                        *)
(*                                                                         *)
(* A transaction is its body, because its id is the hash of the body: the  *)
(* coin it spends, the amount and the change.  A coin is named after the   *)
(* payments it descends from; its name and its owner identify it.  All coins are plain *)
(* lovelace.  hydra-node is external: a snapshot confirms submitted        *)
(* transactions whose coins are unspent, and a submitted transaction whose *)
(* coin is gone is reported invalid.  Submitting a transaction that is     *)
(* pending already changes nothing.                                        *)
(***************************************************************************)
EXTENDS Naturals, Sequences, FiniteSets, Functions

CONSTANTS Thread,     \* control connections that carry `pay' commands
          Amount,     \* amounts of a `pay' command
          MinUtxo,    \* floor of an output (args.min_utxo)
          Funds,      \* what I have deposited
          PeerFunds,  \* what the peer has deposited
          MaxDepth,   \* bound: payments a coin descends from
          MaxEvents,  \* length the event list may reach (5000)
          Cut,        \* events cut off beyond it (1000)
          MaxWire,    \* bound: events on the websocket
          Faults,     \* the websocket may "drop", the client may "crash", a POST
                      \* may "fail", a payment may "timeout", the peer may "pay",
                      \* and "other" events may come
          None        \* no transaction

Step == [amount : Amount, out : {"pay", "change"}]

Coin == [id : Seq(Step), mine : BOOLEAN, value : Nat]

Tx == [mine : BOOLEAN, in : Seq(Step), amount : Amount, change : Nat]

Tag == {"Greetings", "SnapshotConfirmed", "TxInvalid", "other"}

Message == [tag : Tag, txs : SUBSET Tx, utxo : SUBSET Coin]

Event == [tag : Tag, txs : SUBSET Tx]

\* What a control thread knows.
Command == [pc : {"idle", "picked", "marked", "posted", "wait"}, tx : Tx \cup {None},
            since : 0..MaxEvents, cut : BOOLEAN, got : BOOLEAN]

ASSUME HydraAssumption == /\ None \notin Tx
                          /\ Amount \subseteq Nat
                          /\ MinUtxo \in Nat /\ Funds \in Nat /\ PeerFunds \in Nat
                          /\ MaxEvents \in Nat /\ Cut \in 1..MaxEvents

VARIABLES
  utxo, pending,   \* head: the confirmed UTxO set, submitted transactions
  conn, wire,      \* websocket: connected, messages on their way
  view, events,    \* client: self.utxo, self.events
  thr,             \* client: what each control thread does; `cut' and `got' are
                   \* history: the list was cut since the thread took its index,
                   \* and the answer to the payment came since it was posted
  confirmed, ok    \* history: my confirmed transactions, transactions replied OK

headVars == <<utxo, pending>>
sockVars == <<conn, wire>>
clientVars == <<view, events>>
history == <<confirmed, ok>>
vars == <<headVars, sockVars, clientVars, thr, history>>

Idle == [pc |-> "idle", tx |-> None, since |-> 0, cut |-> FALSE, got |-> FALSE]

Deposited(mine, v) == {[id |-> <<>>, mine |-> mine, value |-> w] : w \in {v} \ {0}}

Init == /\ utxo = Deposited(TRUE, Funds) \cup Deposited(FALSE, PeerFunds) /\ pending = {}
        /\ conn = FALSE /\ wire = <<>>
        /\ view = {} /\ events = <<>>
        /\ thr = [t \in Thread |-> Idle]
        /\ confirmed = {} /\ ok = <<>>

-----------------------------------------------------------------------------
(* hydra-node and the head *)

\* What a transaction spends it pays out again: there is no fee in a head.
Spends(tx, c) == c.id = tx.in /\ c.mine = tx.mine /\ c.value = tx.amount + tx.change

Unspent(tx) == \E c \in utxo : Spends(tx, c)

\* What a transaction makes of the coin it spends: the amount for the other
\* party, and the change.
Outputs(tx, c) ==
  {[id |-> Append(c.id, [amount |-> tx.amount, out |-> "pay"]),
    mine |-> ~c.mine, value |-> tx.amount]}
    \cup
  {[id |-> Append(c.id, [amount |-> tx.amount, out |-> "change"]),
    mine |-> c.mine, value |-> v] : v \in {tx.change} \ {0}}

\* The transaction that pays an amount with a coin.
Payment(c, a) == [mine |-> c.mine, in |-> c.id, amount |-> a, change |-> c.value - a]

\* The input of a payment: its coin covers the amount exactly or leaves change
\* above the floor.
Covers(c, need) == c.value = need \/ c.value >= need + MinUtxo

\* The API sends an event to a connected client.
Emit(m) == /\ conn => Len(wire) < MaxWire
           /\ wire' = IF conn THEN Append(wire, m) ELSE wire

Msg(tag, txs, u) == [tag |-> tag, txs |-> txs, utxo |-> u]

\* A snapshot is confirmed by both parties.
Confirm(txs) ==
  /\ txs # {}
  /\ \A tx \in txs : Unspent(tx)
  /\ \A tx, other \in txs : tx.in = other.in /\ tx.mine = other.mine => tx = other
  /\ LET spent == {c \in utxo : \E tx \in txs : Spends(tx, c)}
         made  == UNION {Outputs(p[1], p[2]) :
                           p \in {q \in txs \X spent : Spends(q[1], q[2])}}
     IN /\ utxo' = (utxo \ spent) \cup made
        /\ Emit(Msg("SnapshotConfirmed", txs, utxo'))
  /\ pending' = pending \ txs
  /\ confirmed' = confirmed \cup {tx \in txs : tx.mine}
  /\ UNCHANGED <<conn, clientVars, thr, ok>>

Invalid(tx) ==
  /\ ~Unspent(tx)
  /\ Emit(Msg("TxInvalid", {tx}, {}))
  /\ pending' = pending \ {tx}
  /\ UNCHANGED <<utxo, conn, clientVars, thr, history>>

\* The peer submits a payment to its own node.
PeerPays(c, a) ==
  /\ "pay" \in Faults
  /\ ~c.mine /\ Covers(c, a) /\ Len(c.id) < MaxDepth
  /\ pending' = pending \cup {Payment(c, a)}
  /\ UNCHANGED <<utxo, sockVars, clientVars, thr, history>>

\* Events that do not concern payments.
OtherEvent ==
  /\ "other" \in Faults
  /\ conn
  /\ Emit(Msg("other", {}, {}))
  /\ UNCHANGED <<headVars, conn, clientVars, thr, history>>

-----------------------------------------------------------------------------
(* The websocket thread *)

\* A new connection is greeted with the confirmed UTxO set and, because the
\* client asks for no history, with nothing else.
OnOpen ==
  /\ ~conn
  /\ conn' = TRUE
  /\ wire' = <<Msg("Greetings", {}, utxo)>>
  /\ UNCHANGED <<headVars, clientVars, thr, history>>

OnClose ==
  /\ "drop" \in Faults
  /\ conn
  /\ conn' = FALSE /\ wire' = <<>>
  /\ UNCHANGED <<headVars, clientVars, thr, history>>

\* mutant: the list is never cut
ListedNever(e) == Append(events, e)

\* What a new event makes of the list.
Listed(e) == LET all == Append(events, e)
             IN IF Len(all) > MaxEvents THEN SubSeq(all, Cut + 1, Len(all)) ELSE all

\* mutant: handle ignores the UTxO set of the Greetings
HandledSnapshots(m) == IF m.tag = "SnapshotConfirmed" THEN m.utxo ELSE view

\* The UTxO set the client believes in after a message.
Handled(m) == IF m.tag \in {"Greetings", "SnapshotConfirmed"} THEN m.utxo ELSE view

\* mutant: any confirmed snapshot is taken for one's own
DoneAny(e, tx) == e.tag = "SnapshotConfirmed" \/ (e.tag = "TxInvalid" /\ tx \in e.txs)

\* The events a payment waits for: the snapshot that confirms it, or its rejection.
Done(e, tx) == e.tag \in {"SnapshotConfirmed", "TxInvalid"} /\ tx \in e.txs

HasIndex(t) == thr[t].pc \in {"marked", "posted", "wait"}

Awaiting(t) == thr[t].pc \in {"posted", "wait"}

OnMessage ==
  /\ wire # <<>>
  /\ LET m == Head(wire)
         e == [tag |-> m.tag, txs |-> m.txs]
     IN /\ events' = Listed(e)
        /\ view' = Handled(m)
        /\ thr' = [t \in Thread |->
                     [thr[t] EXCEPT !.cut = @ \/ (HasIndex(t) /\ Len(events) = MaxEvents),
                                    !.got = @ \/ (Awaiting(t) /\ Done(e, thr[t].tx))]]
  /\ wire' = Tail(wire)
  /\ UNCHANGED <<headVars, conn, history>>

-----------------------------------------------------------------------------
(* The control threads: cmd_pay *)

At(t, pc) == thr[t].pc = pc

\* A reply ends the command, and with it the thread.
Reply(t) == thr' = [thr EXCEPT ![t] = Idle]

\* pick_input: my largest coin in the view that covers the amount.
PickInput(need) ==
  {c \in view : /\ c.mine /\ Covers(c, need)
                /\ \A d \in view : d.mine /\ Covers(d, need) => d.value <= c.value}

\* Under the lock the input is chosen; without it the transaction is built and
\* signed.  An amount below the floor, or without an input, is refused at once.
PayPick(t, a) ==
  /\ At(t, "idle")
  /\ a >= MinUtxo
  /\ \E c \in PickInput(a) :
       /\ Len(c.id) < MaxDepth
       /\ thr' = [thr EXCEPT ![t].pc = "picked", ![t].tx = Payment(c, a)]
  /\ UNCHANGED <<headVars, sockVars, clientVars, history>>

\* mark: the index the payment will wait from.
Mark(t) ==
  /\ At(t, "picked")
  /\ thr' = [thr EXCEPT ![t].pc = "marked", ![t].since = Len(events)]
  /\ UNCHANGED <<headVars, sockVars, clientVars, history>>

\* The request reaches hydra-node.
Post(t) ==
  /\ At(t, "marked")
  /\ thr' = [thr EXCEPT ![t].pc = "posted"]
  /\ pending' = pending \cup {thr[t].tx}
  /\ UNCHANGED <<utxo, sockVars, clientVars, history>>

\* mutant: the index is taken when the POST has returned
PostAcceptedMarks(t) ==
  /\ At(t, "posted")
  /\ thr' = [thr EXCEPT ![t].pc = "wait", ![t].since = Len(events)]
  /\ UNCHANGED <<headVars, sockVars, clientVars, history>>

\* 200, the transaction is confirmed, or 202, it is not decided yet.
PostAccepted(t) ==
  /\ At(t, "posted")
  /\ thr' = [thr EXCEPT ![t].pc = "wait"]
  /\ UNCHANGED <<headVars, sockVars, clientVars, history>>

\* Another status: the transaction is invalid.
PostRefused(t) ==
  /\ At(t, "posted") /\ ~Unspent(thr[t].tx)
  /\ Reply(t)
  /\ UNCHANGED <<headVars, sockVars, clientVars, history>>

\* The request, or the answer to it, is lost; handle_ctl catches the exception.
PostFails(t) ==
  /\ "fail" \in Faults
  /\ At(t, "marked") \/ At(t, "posted")
  /\ Reply(t)
  /\ UNCHANGED <<headVars, sockVars, clientVars, history>>

\* The indices where wait_pred finds an answer.
Found(t) == {i \in thr[t].since + 1 .. Len(events) : Done(events[i], thr[t].tx)}

\* wait_pred returns the first answer; OK is replied to a confirmation only.
WaitDone(t) ==
  /\ At(t, "wait")
  /\ \E i \in Found(t) :
       /\ \A j \in Found(t) : i <= j
       /\ ok' = IF events[i].tag = "SnapshotConfirmed" THEN Append(ok, thr[t].tx) ELSE ok
  /\ Reply(t)
  /\ UNCHANGED <<headVars, sockVars, clientVars, confirmed>>

WaitTimeout(t) ==
  /\ "timeout" \in Faults
  /\ At(t, "wait") /\ Found(t) = {}
  /\ Reply(t)
  /\ UNCHANGED <<headVars, sockVars, clientVars, history>>

\* The client dies and is started again: it keeps nothing.
ClientRestart ==
  /\ "crash" \in Faults
  /\ conn' = FALSE /\ wire' = <<>>
  /\ view' = {} /\ events' = <<>>
  /\ thr' = [t \in Thread |-> Idle]
  /\ UNCHANGED <<headVars, history>>

-----------------------------------------------------------------------------
Node == \/ \E txs \in SUBSET pending : Confirm(txs)
        \/ \E tx \in pending : Invalid(tx)
        \/ \E c \in utxo, a \in Amount : PeerPays(c, a)
        \/ OtherEvent

Socket == OnOpen \/ OnClose \/ OnMessage

Pay(t) == \/ \E a \in Amount : PayPick(t, a)
          \/ Mark(t) \/ Post(t)
          \/ PostAccepted(t) \/ PostRefused(t) \/ PostFails(t)
          \/ WaitDone(t) \/ WaitTimeout(t)

Next == Node \/ Socket \/ (\E t \in Thread : Pay(t)) \/ ClientRestart

Spec == Init /\ [][Next]_vars

-----------------------------------------------------------------------------
(* Properties *)

\* Every variable has its type; the event list never outgrows its limit
\* (on_message).
TypeOK ==
  /\ utxo \subseteq Coin /\ view \subseteq Coin
  /\ pending \subseteq Tx /\ confirmed \subseteq Tx
  /\ conn \in BOOLEAN /\ wire \in Seq(Message)
  /\ events \in Seq(Event) /\ Len(events) <= MaxEvents
  /\ thr \in [Thread -> Command] /\ \A t \in Thread : At(t, "idle") \/ thr[t].tx \in Tx
  /\ ok \in Seq(Tx)

\* The client that has handled every event of its connection pays from the
\* UTxO set the head has confirmed, whatever was confirmed while it was not
\* connected (Greetings and SnapshotConfirmed in handle, history=no in __init__).
ViewIsCurrent == conn /\ wire = <<>> => view = utxo

\* A command whose answer has come since its POST finds it, although the list
\* grows while the request is under way, unless the list was cut meanwhile (the
\* place of mark in cmd_pay, and wait_pred).
WaiterSees == \A t \in Thread : At(t, "wait") /\ thr[t].got /\ ~thr[t].cut => Found(t) # {}

\* Every payment that was replied OK is confirmed in the head, whatever other
\* payments of either party are confirmed while it waits (done in cmd_pay).
OkIsConfirmed == \A i \in DOMAIN ok : ok[i] \in confirmed

\* Every OK stands for a payment of its own: the peer has received all that pay
\* commands reported as paid.
PaidIsReceived == OkIsConfirmed /\ IsInjective(ok)

=============================================================================
