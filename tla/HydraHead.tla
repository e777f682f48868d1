----------------------------- MODULE HydraHead -----------------------------
(***************************************************************************)
(* The life of a head of the Cardano arm as the client                     *)
(* cardano-mvp/hydrapay/hydrapay.py drives it: init, deposit, recover,     *)
(* close, closeonly and fanout.  HydraPay has the payments in an open head *)
(* and the limit of the event list.                                        *)
(*                                                                         *)
(* Every control connection is a thread with one command.  Commands act    *)
(* through the websocket (Init, Close, Fanout) or over HTTP, and wait in   *)
(* the list of events for what comes back, each from an index it took      *)
(* before.  A thread has the part of that list behind its index, and of    *)
(* that the events it may wait for.                                        *)
(*                                                                         *)
(* hydra-node and layer 1 are external.  An input is refused in the wrong  *)
(* state; otherwise a transaction is posted, which is observed, fails, or  *)
(* expires in the mempool without any error.  A deposit is recorded,       *)
(* activated and finalized, or expires.  The peer does as it likes.        *)
(***************************************************************************)
EXTENDS Naturals, Sequences, FiniteSets

CONSTANTS Thread,    \* control connections
          MaxWire,   \* bound: messages on the websocket
          Attempts,  \* Close messages a close command sends (3)
          Setups     \* what may happen, a set of records:
                     \*   opened: the client is started next to an open head
                     \*   heads: bound: heads opened one after the other
                     \*   commands: the commands that may be given
                     \*   faults: the websocket may "drop", the client may "crash", a
                     \*     request may "fail", transactions may "expire", the node be
                     \*     "unsynced"; the "peer" may open, close and fan out, and
                     \*     "deposit"; a node may lose the race for an increment ("mirror")

Party == {"me", "peer"}

Refusals == {"CommandFailed", "PostTxOnChainFailed", "RejectedInputBecauseUnsynced"}

Command == {"init", "close", "closeonly", "fanout", "deposit", "recover"}

Fault == {"drop", "crash", "fail", "expire", "unsynced", "peer", "deposit", "mirror"}

ASSUME HeadAssumption == /\ MaxWire \in Nat /\ Attempts \in Nat \ {0}
                         /\ Party \cap Thread = {}
                         /\ Setups \subseteq [opened : BOOLEAN, heads : Nat \ {0},
                                             commands : SUBSET Command, faults : SUBSET Fault]

VARIABLES
  head,         \* the head: its number, its state, the deadline has passed
  dep,          \* the deposit of each party
  txs,          \* transactions on their way to layer 1
  conn, wire,   \* websocket: connected, messages on their way
  log, status, ready, view,  \* client: events that fanout looks for (of self.events),
                \* head_status, ready_to_fanout, the deposits in self.utxo
  thr,          \* client: the control threads
  missed,       \* history: the commands, and the client ("me"), that missed an event
  setup         \* what may happen

headVars == <<head, dep, txs>>
sockVars == <<conn, wire>>
clientVars == <<log, status, ready, view>>
vars == <<headVars, sockVars, clientVars, thr, missed, setup>>

Faults == setup.faults

\* A thread: its command, where it is, the input it has to send (do), the events
\* since its index, its attempt or stage, the answer to its last request (got)
\* and its reply.  The rest is history: the head it is about, whether the client
\* was sure of its state (open for a close, closed for a fanout), whether events
\* of the peer's deposit came in between, how many inputs came to nothing.
New == [cmd |-> "none", pc |-> "new", do |-> "none", seen |-> <<>>, try |-> 1, got |-> {},
        reply |-> "none", no |-> 0, sure |-> FALSE, mixed |-> FALSE, lost |-> 0]

Init == /\ setup \in Setups
        /\ head = IF setup.opened THEN [no |-> 1, st |-> "Open", ready |-> FALSE]
                  ELSE [no |-> 0, st |-> "Idle", ready |-> FALSE]
        /\ dep = [p \in Party |-> "none"] /\ txs = {}
        /\ conn = FALSE /\ wire = <<>>
        /\ log = <<>> /\ status = "unknown" /\ ready = FALSE /\ view = {}
        /\ thr = [t \in Thread |-> New]
        /\ missed = {}

At(t, pc) == thr[t].pc = pc

Active(t) == thr[t].pc \notin {"new", "done"}

-----------------------------------------------------------------------------
(* The API of hydra-node *)

Msg(tag, of) == [tag |-> tag, of |-> of, st |-> head'.st, utxo |-> {p \in Party : dep'[p] = "final"}]

\* Who misses what is lost now: the client, and every command that waits.
Missing == missed \cup {t \in Thread : Active(t)} \cup {"me"}

\* An event goes to a connected client; others never see it.
Emit(tag, of) == /\ conn => Len(wire) < MaxWire
                 /\ wire' = IF conn THEN Append(wire, Msg(tag, of)) ELSE wire
                 /\ missed' = IF conn THEN missed ELSE Missing

Silent == UNCHANGED <<wire, missed>>

\* The event that tells of an observed transaction.
Observed == [init |-> "HeadIsOpen", close |-> "HeadIsClosed", fanout |-> "HeadIsFinalized",
             recover |-> "CommitRecovered"]

\* The answers to an input; fanout does not wait for the last of them.
Answers(do) == {Observed[do]} \cup (Refusals \ IF do = "fanout" THEN {"RejectedInputBecauseUnsynced"} ELSE {})

DepositTag == <<"CommitRecorded", "DepositActivated", "CommitFinalized">>

\* What a thread waits for.
Awaited(t) ==
  CASE At(t, "wait") -> Answers(thr[t].do)
    [] At(t, "ready") -> {"ReadyToFanout", "HeadIsFinalized"}
    [] At(t, "stage") -> {DepositTag[thr[t].try], "DepositExpired"}
    [] At(t, "recover") -> {"CommitRecovered", "PostTxOnChainFailed"}
    [] OTHER -> {}

Found(t) == {i \in DOMAIN thr[t].seen : thr[t].seen[i].tag \in Awaited(t)}

\* wait_for returns the first of them.
First(t) == CHOOSE i \in Found(t) : \A j \in Found(t) : i <= j

Returns(t) == Found(t) # {}

Tag(t) == thr[t].seen[First(t)].tag

\* An input is accepted in this state, and its transaction valid.
Accepts(do, of) == CASE do = "init"    -> head.st = "Idle" /\ head.no < setup.heads
                     [] do = "close"   -> head.st = "Open"
                     [] do = "fanout"  -> head.st = "Closed" /\ head.ready
                     [] do = "recover" -> dep[of] = "expired"

\* A deadline, another head and the stages of a deposit come many seconds after
\* the event before: no message, and no thread between two waits, takes that long.
Prompt == wire = <<>> /\ \A t \in Thread : thr[t].pc \notin {"send", "look", "mark", "delete"} /\ ~Returns(t)

\* A transaction is observed in a block.
Observe(do, of) ==
  /\ Accepts(do, of)
  /\ do = "init" => Prompt
  /\ head' = CASE do = "init"   -> [no |-> head.no + 1, st |-> "Open", ready |-> FALSE]
               [] do = "close"  -> [head EXCEPT !.st = "Closed"]
               [] do = "fanout" -> [head EXCEPT !.st = "Idle", !.ready = FALSE]
               [] OTHER         -> head
  /\ dep' = [p \in Party |-> CASE p = of \/ (do = "fanout" /\ dep[p] = "final") -> "none"
                                [] do = "fanout" /\ dep[p] \notin {"none", "final", "expired"} -> "stale"
                                [] OTHER -> dep[p]]
  /\ Emit(Observed[do], of)
  /\ UNCHANGED <<conn, clientVars, thr>>

\* The transaction a thread posts, for this head.
Tx(do, by, of) == [do |-> do, by |-> by, try |-> thr[by].try, of |-> of, no |-> head.no]

Apply(x) == x.no = head.no /\ txs' = txs \ {x} /\ Observe(x.do, x.of)

\* The transaction of the peer.
PeerInput(do) == "peer" \in Faults /\ do # "recover" /\ txs' = txs /\ Observe(do, "none")

\* A transaction cannot be submitted: the head has moved on, or another one in
\* the mempool, of the peer perhaps, spends the same output.
Fail(x) ==
  /\ \/ x.no # head.no \/ ~Accepts(x.do, x.of)
     \/ "peer" \in Faults
     \/ \E y \in txs \ {x} : y.do = x.do
  /\ txs' = txs \ {x}
  /\ UNCHANGED <<head, dep>>
  /\ Emit("PostTxOnChainFailed", "none")
  /\ UNCHANGED <<conn, clientVars, thr>>

\* It expires in the mempool after a long block gap.
Expire(x) ==
  /\ "expire" \in Faults /\ x.do \in {"close", "fanout"}
  /\ txs' = txs \ {x}
  /\ thr' = [thr EXCEPT ![x.by].lost = @ + 1]
  /\ UNCHANGED <<head, dep, sockVars, clientVars, missed>>

\* The contestation deadline passes.
Deadline ==
  /\ head.st = "Closed" /\ ~head.ready /\ Prompt
  /\ head' = [head EXCEPT !.ready = TRUE]
  /\ UNCHANGED <<dep, txs>>
  /\ Emit("ReadyToFanout", "none")
  /\ UNCHANGED <<conn, clientVars, thr>>

\* The stages of a deposit: from, to, and the event.  Several nodes post its
\* increment, and mine may lose that race.  A deposit for a head that is gone is
\* stale, and can only expire.
Stages == {<<"sent", "recorded", "CommitRecorded">>, <<"recorded", "active", "DepositActivated">>,
           <<"active", "raced", "PostTxOnChainFailed">>,
           <<"active", "final", "CommitFinalized">>, <<"raced", "final", "CommitFinalized">>,
           <<"recorded", "expired", "DepositExpired">>, <<"active", "expired", "DepositExpired">>,
           <<"stale", "expired", "DepositExpired">>}

Pending == {p \in Party : dep[p] \in {"recorded", "active", "raced", "stale", "expired"}}

DepositMoves(p, s) ==
  /\ dep[p] = s[1] /\ Prompt
  /\ CASE s[2] = "expired" -> "expire" \in Faults
       [] s[2] = "raced" -> "mirror" \in Faults /\ head.st = "Open"
       [] OTHER -> head.st = "Open"
  /\ dep' = [dep EXCEPT ![p] = s[2]]
  /\ UNCHANGED <<head, txs>>
  /\ Emit(s[3], IF s[2] = "raced" THEN "none" ELSE p)
  /\ UNCHANGED <<conn, clientVars, thr>>

PeerDeposits ==
  /\ "deposit" \in Faults /\ head.st = "Open" /\ dep["peer"] = "none"
  /\ dep' = [dep EXCEPT !["peer"] = "sent"]
  /\ UNCHANGED <<head, txs, sockVars, clientVars, thr, missed>>

\* A payment is confirmed.
Snapshot ==
  /\ conn /\ head.st = "Open" /\ \E p \in Party : dep[p] = "final"
  /\ UNCHANGED headVars
  /\ Emit("SnapshotConfirmed", "none")
  /\ UNCHANGED <<conn, clientVars, thr>>

-----------------------------------------------------------------------------
(* The websocket thread *)

OnOpen ==
  /\ ~conn
  /\ conn' = TRUE
  /\ UNCHANGED headVars
  /\ wire' = <<Msg("Greetings", "none")>>
  /\ UNCHANGED <<clientVars, thr, missed>>

OnClose ==
  /\ "drop" \in Faults /\ conn
  /\ conn' = FALSE /\ wire' = <<>>
  /\ missed' = IF wire = <<>> THEN missed ELSE Missing
  /\ UNCHANGED <<headVars, clientVars, thr>>

\* mutant: a new closure does not reset the flag of the previous one
ReadyStays(m) == ready \/ m.tag = "ReadyToFanout"

\* What handle makes of self.ready_to_fanout.
ReadyAfter(m) == CASE m.tag = "ReadyToFanout" -> TRUE
                   [] m.tag = "HeadIsClosed" -> FALSE
                   [] OTHER -> ready

\* And of self.head_status.
StatusAfter(m) == CASE m.tag = "Greetings" -> m.st
                    [] m.tag = "HeadIsOpen" -> "Open"
                    [] m.tag = "HeadIsClosed" -> "Closed"
                    [] m.tag = "HeadIsFinalized" -> "Idle"
                    [] OTHER -> status

\* The events that a thread waits for, now or with the same index later.
Listens(t) ==
  CASE thr[t].cmd = "close" /\ thr[t].pc \in {"send", "wait"} /\ thr[t].do = "close" ->
         {"HeadIsClosed", "ReadyToFanout", "HeadIsFinalized"} \cup Refusals
    [] thr[t].pc \in {"look", "ready"} -> {"ReadyToFanout", "HeadIsFinalized"}
    [] thr[t].pc \in {"commit", "submit", "submitted", "stage"} ->
         {DepositTag[i] : i \in thr[t].try..3} \cup {"DepositExpired"}
    [] thr[t].pc \in {"send", "wait"} -> Answers(thr[t].do)
    [] OTHER -> Awaited(t)

OnMessage ==
  /\ wire # <<>>
  /\ LET m == Head(wire)
         e == [tag |-> m.tag, of |-> m.of]
     IN /\ log' = IF m.tag \in {"ReadyToFanout", "HeadIsFinalized"} THEN Append(log, e) ELSE log
        /\ ready' = ReadyAfter(m)
        /\ status' = StatusAfter(m)
        /\ view' = IF m.tag \in {"Greetings", "SnapshotConfirmed"} THEN m.utxo ELSE view
        /\ thr' = [t \in Thread |->
             IF m.tag \in Listens(t)
             THEN [thr[t] EXCEPT !.seen = Append(@, e), !.mixed = @ \/ m.of = "peer"] ELSE thr[t]]
  /\ wire' = Tail(wire)
  /\ UNCHANGED <<headVars, conn, missed>>

-----------------------------------------------------------------------------
(* The control threads *)

\* A step that only the thread itself notices.
Local == UNCHANGED <<headVars, sockVars, clientVars, missed>>

Goto(t, pc) == thr' = [thr EXCEPT ![t].pc = pc] /\ Local

Done(reply) == [New EXCEPT !.pc = "done", !.reply = reply]

Reply(t, reply) == /\ thr' = [thr EXCEPT ![t] = Done(reply)] /\ missed' = missed \ {t}
                   /\ UNCHANGED <<headVars, sockVars, clientVars>>

\* No other command is at work, and no answer to an earlier one is to come.
Alone == /\ \A u \in Thread : ~Active(u)
         /\ txs = {}
         /\ \A i \in DOMAIN wire : wire[i].tag \notin Refusals

\* The client is connected and greeted, and knows the head to be in the state
\* that the command is for; a close is given alone.
Sure(c) == /\ conn /\ \A i \in DOMAIN wire : wire[i].tag # "Greetings"
           /\ (c = "close" /\ status = "Open" /\ Alone) \/ (c = "fanout" /\ status = "Closed")

\* A command comes in.  init, close and deposit take their index at once (a
\* deposit with no funds is refused), fanout starts from the beginning if the
\* client knows that the deadline has passed.
Begin(t, c) ==
  /\ At(t, "new") /\ c \in setup.commands
  /\ c = "deposit" => dep["me"] = "none"
  /\ thr' = [u \in Thread |->
       IF u # t THEN [thr[u] EXCEPT !.sure = @ /\ thr[u].cmd # "close"]
       ELSE [New EXCEPT !.cmd = c, !.no = head.no, !.sure = Sure(c),
               !.pc = CASE c = "fanout" -> "look" [] c = "deposit" -> "commit" [] c = "recover" -> "commits"
                        [] OTHER -> "send",
               !.do = IF c = "init" THEN "init" ELSE "close",
               !.seen = IF c = "fanout" /\ ready THEN log ELSE <<>>]]
  /\ missed' = IF c = "fanout" /\ "me" \in missed THEN missed \cup {t} ELSE missed
  /\ UNCHANGED <<headVars, sockVars, clientVars>>

\* mutant: the events to wait for start behind the message
SentMarks(t, lost) == thr' = [thr EXCEPT ![t].pc = "wait", ![t].lost = @ + lost, ![t].seen = <<>>]

\* The message is sent; events since the index still count.
Sent(t, lost) == thr' = [thr EXCEPT ![t].pc = "wait", ![t].lost = @ + lost]

\* send, and what the node makes of the input.
Send(t) ==
  /\ At(t, "send") /\ conn
  /\ LET do == thr[t].do
     IN /\ UNCHANGED <<head, dep>>
        /\ \/ /\ Accepts(do, "none") /\ Silent /\ Sent(t, 0)
              /\ txs' = txs \cup {Tx(do, t, "none")}
           \/ /\ ~Accepts(do, "none") /\ Emit("CommandFailed", "none") /\ Sent(t, 0)
              /\ UNCHANGED txs
           \/ /\ "unsynced" \in Faults /\ Emit("RejectedInputBecauseUnsynced", "none") /\ Sent(t, 1)
              /\ UNCHANGED txs
  /\ UNCHANGED <<conn, clientVars>>

\* send raises without a connection, as does a request that fails.
Raises(t) ==
  /\ \/ At(t, "send") /\ ~conn
     \/ "fail" \in Faults /\ thr[t].pc \in {"look", "commit", "submit", "submitted", "commits", "get"}
  /\ Reply(t, "exception")

\* What it waits for is still to come.
UnderWay(t) == \/ wire # <<>>
               \/ \E x \in txs : x.by = t
               \/ At(t, "ready") /\ head.st = "Closed" /\ ~head.ready

\* wait_for gives up.  The answer to a close may be later than the 90 s it is
\* given, but not than the three of them; other time-outs are longer than what
\* they wait for takes.
TimesOut(t) == /\ Awaited(t) # {} /\ Found(t) = {}
               /\ ~UnderWay(t) \/ (At(t, "wait") /\ thr[t].do = "close" /\ thr[t].try < Attempts)

\* The last wait of a command ends with its reply.
Concludes(t) == (Returns(t) /\ Reply(t, Tag(t))) \/ (TimesOut(t) /\ Reply(t, "none"))

InitDone(t) == At(t, "wait") /\ thr[t].do = "init" /\ Concludes(t)

\* mutant: attempts without end
CloseAgainForever(t) ==
  /\ At(t, "wait") /\ thr[t].do = "close"
  /\ TimesOut(t)
  /\ thr' = [thr EXCEPT ![t].pc = "send", ![t].try = @ + 1] /\ Local

\* No close was observed within 90 s: it is sent again, with the same index.
CloseAgain(t) ==
  /\ At(t, "wait") /\ thr[t].do = "close"
  /\ TimesOut(t)
  /\ IF thr[t].try = Attempts THEN Reply(t, "none")
     ELSE thr' = [thr EXCEPT ![t].pc = "send", ![t].try = @ + 1] /\ Local

\* A close is observed, whose ever it is, or refused; `close' goes on to fan out.
CloseDone(t) ==
  /\ At(t, "wait") /\ thr[t].do = "close"
  /\ Returns(t)
  /\ IF Tag(t) = "HeadIsClosed" /\ thr[t].cmd = "close"
     THEN Goto(t, "look")
     ELSE Reply(t, Tag(t))

\* fanout asks for the state of the head: it is gone, or the deadline has
\* passed, or has to be waited for.
FanoutLooks(t) ==
  /\ At(t, "look")
  /\ IF head.st = "Idle" THEN Reply(t, "idle")
     ELSE /\ thr' = [thr EXCEPT ![t].do = "fanout", ![t].no = IF head.st = "Closed" THEN head.no ELSE @,
                       ![t].pc = IF head.st = "Closed" /\ head.ready THEN "mark" ELSE "ready"]
          /\ Local

FanoutReady(t) ==
  /\ At(t, "ready")
  /\ \/ Returns(t) /\ IF Tag(t) = "ReadyToFanout" THEN Goto(t, "mark") ELSE Reply(t, Tag(t))
     \/ TimesOut(t) /\ Reply(t, "none")

\* mutant: the wait for the fanout starts where the command started
FanoutMarksNot(t) == At(t, "mark") /\ Goto(t, "send")

\* A new index, before Fanout is sent.
FanoutMarks(t) ==
  /\ At(t, "mark")
  /\ thr' = [thr EXCEPT ![t].pc = "send", ![t].seen = <<>>]
  /\ Local

FanoutDone(t) == At(t, "wait") /\ thr[t].do = "fanout" /\ Concludes(t)

\* deposit: POST /commit gives a draft if the head is open, and it is signed.
DepositDraft(t) ==
  /\ At(t, "commit")
  /\ IF head.st = "Open" THEN Goto(t, "submit") ELSE Reply(t, "refused")

\* POST /cardano-transaction.  Layer 1 refuses to spend the funds twice.
DepositSubmit(t) ==
  /\ At(t, "submit")
  /\ \/ dep["me"] # "none" /\ Reply(t, "refused")
     \/ /\ dep["me"] = "none"
        /\ dep' = [dep EXCEPT !["me"] = "sent"]
        /\ thr' = [thr EXCEPT ![t].pc = "submitted"]
        /\ UNCHANGED <<head, txs, sockVars, clientVars, missed>>

DepositSubmitted(t) == At(t, "submitted") /\ Goto(t, "stage")

\* An expired deposit is recovered at once.
Expired(t) ==
  thr' = [thr EXCEPT ![t].pc = "delete", ![t].got = {thr[t].seen[First(t)].of}] /\ Local

NextStage(t) ==
  thr' = [thr EXCEPT ![t].seen = SubSeq(@, First(t) + 1, Len(@)), ![t].try = @ + 1] /\ Local

\* mutant: the set the client pays from is not fetched
DepositStageNoGet(t) ==
  /\ At(t, "stage")
  /\ Returns(t)
  /\ CASE Tag(t) = "DepositExpired" -> Expired(t)
       [] Tag(t) = "CommitFinalized" -> Reply(t, "deposited")
       [] OTHER -> NextStage(t)

\* One stage after the other, each behind the one before, whose ever they are.
DepositStage(t) ==
  /\ At(t, "stage")
  /\ Returns(t)
  /\ CASE Tag(t) = "DepositExpired" -> Expired(t)
       [] Tag(t) = "CommitFinalized" -> thr' = [thr EXCEPT ![t].pc = "get", ![t].seen = <<>>] /\ Local
       [] OTHER -> NextStage(t)

DepositTimesOut(t) == At(t, "stage") /\ TimesOut(t) /\ Reply(t, "none")

\* GET /snapshot/utxo, and the assignment, which comes later.
DepositGet(t) ==
  /\ At(t, "get")
  /\ IF head.st = "Idle" THEN Reply(t, "deposited")
     ELSE thr' = [thr EXCEPT ![t].pc = "assign", ![t].got = {p \in Party : dep[p] = "final"}] /\ Local

DepositAssign(t) ==
  /\ At(t, "assign")
  /\ view' = thr[t].got
  /\ thr' = [thr EXCEPT ![t] = Done("deposited")] /\ missed' = missed \ {t}
  /\ UNCHANGED <<headVars, sockVars, log, status, ready>>

\* recover: GET /commits names a pending deposit, of either party.
RecoverCommits(t) ==
  /\ At(t, "commits")
  /\ \/ Pending = {} /\ Reply(t, "nothing")
     \/ \E p \in Pending : thr' = [thr EXCEPT ![t].pc = "delete", ![t].got = {p}] /\ Local

\* mark and DELETE /commits, which posts a transaction.
RecoverDelete(t) ==
  /\ At(t, "delete")
  /\ \/ thr[t].got \cap Pending = {} /\ Reply(t, "refused")
     \/ \E p \in thr[t].got \cap Pending :
          /\ thr' = [thr EXCEPT ![t].pc = "recover", ![t].seen = <<>>]
          /\ txs' = txs \cup {Tx("recover", t, p)}
          /\ UNCHANGED <<head, dep, sockVars, clientVars, missed>>

RecoverDone(t) == At(t, "recover") /\ Concludes(t)

\* The client dies and is started again.
ClientRestart ==
  /\ "crash" \in Faults
  /\ conn' = FALSE /\ wire' = <<>>
  /\ log' = <<>> /\ status' = "unknown" /\ ready' = FALSE /\ view' = {}
  /\ thr' = [t \in Thread |-> IF Active(t) THEN Done("dead") ELSE thr[t]]
  /\ missed' = {}
  /\ UNCHANGED headVars

-----------------------------------------------------------------------------
Layer1 == \/ \E x \in txs : Apply(x) \/ Fail(x) \/ Expire(x)
          \/ Deadline
          \/ \E p \in Party, stage \in Stages : DepositMoves(p, stage)

Others == (\E do \in DOMAIN Observed : PeerInput(do)) \/ PeerDeposits \/ Snapshot

Socket == OnOpen \/ OnClose \/ OnMessage

Close(t) == CloseAgain(t) \/ CloseDone(t)

Fanout(t) == FanoutLooks(t) \/ FanoutReady(t) \/ FanoutMarks(t) \/ FanoutDone(t)

Deposit(t) == \/ DepositDraft(t) \/ DepositSubmit(t) \/ DepositSubmitted(t) \/ DepositStage(t)
              \/ DepositTimesOut(t) \/ DepositGet(t) \/ DepositAssign(t)

Recover(t) == RecoverCommits(t) \/ RecoverDelete(t) \/ RecoverDone(t)

Ctl(t) == \/ \E c \in Command : Begin(t, c)
          \/ Send(t) \/ Raises(t) \/ InitDone(t)
          \/ Close(t) \/ Fanout(t) \/ Deposit(t) \/ Recover(t)

Next == (Layer1 \/ Others \/ Socket \/ (\E t \in Thread : Ctl(t)) \/ ClientRestart) /\ UNCHANGED setup

Spec == Init /\ [][Next]_vars

-----------------------------------------------------------------------------
(* Properties *)

\* Where a thread with a command can be.
Places == [none |-> {"new", "done"}, init |-> {"send", "wait"}, closeonly |-> {"send", "wait"},
           close |-> {"send", "wait", "look", "ready", "mark"},
           fanout |-> {"look", "ready", "mark", "send", "wait"},
           deposit |-> {"commit", "submit", "submitted", "stage", "get", "assign", "delete", "recover"},
           recover |-> {"commits", "delete", "recover"}]

State == {"Idle", "Open", "Closed"}

EventTag == Refusals \cup {Observed[do] : do \in DOMAIN Observed} \cup {DepositTag[i] : i \in 1..3}
            \cup {"DepositExpired", "ReadyToFanout", "SnapshotConfirmed", "Greetings"}

Event == [tag : EventTag, of : Party \cup {"none"}]

Message == [tag : EventTag, of : Party \cup {"none"}, st : State, utxo : SUBSET Party]

Job == [cmd : Command \cup {"none"}, pc : UNION {Places[c] : c \in DOMAIN Places},
        do : {"none", "init", "close", "fanout"}, seen : Seq(Event), try : Nat,
        got : SUBSET (Party \cup {"none"}),
        reply : EventTag \cup {"none", "exception", "idle", "refused", "deposited", "nothing", "dead"},
        no : Nat, sure : BOOLEAN, mixed : BOOLEAN, lost : Nat]

\* Only the recovery of a deposit is somebody's.
Transaction == [do : {"init", "close", "fanout"}, by : Thread, try : Nat, of : {"none"}, no : Nat]
               \cup [do : {"recover"}, by : Thread, try : Nat, of : Party, no : Nat]

\* Every variable has its type; a thread is where its command may be, and within
\* the attempts of a close (cmd_close) and the stages of a deposit (cmd_deposit).
TypeOK ==
  /\ setup \in Setups
  /\ head \in [no : 0..setup.heads, st : State, ready : BOOLEAN]
  /\ dep \in [Party -> {"none", "sent", "recorded", "active", "raced", "final", "stale", "expired"}]
  /\ txs \subseteq Transaction
  /\ conn \in BOOLEAN /\ wire \in Seq(Message)
  /\ log \in Seq(Event) /\ status \in State \cup {"unknown"} /\ ready \in BOOLEAN /\ view \subseteq Party
  /\ missed \subseteq Thread \cup {"me"}
  /\ thr \in [Thread -> Job]
  /\ \A t \in Thread : /\ thr[t].pc \in Places[thr[t].cmd]
                       /\ thr[t].do = "none" => thr[t].cmd = "none"
                       /\ thr[t].pc = "assign" => thr[t].got \subseteq Party
                       /\ thr[t].try \in IF thr[t].cmd = "deposit" THEN 1..3 ELSE 1..Attempts

Gone(n) == head.no > n \/ head.st = "Idle"

Ends(t) == Active(t) /\ thr'[t].pc = "done"

\* `close' keeps its promise ("closes, waits for the deadline and fans out"):
\* given alone, of a head the client knew to be open, and with no event missed,
\* it ends with that head fanned out, although the peer may close and fan out
\* at any moment and a close may expire twice.  What may stop it: the node
\* refuses while it is not synced, a transaction loses a race, or every close,
\* or the fanout, came to nothing without a word.
CloseDelivers ==
  [][\A t \in Thread :
       Ends(t) /\ thr[t].cmd = "close" /\ thr[t].sure /\ t \notin missed
         => \/ Gone(thr[t].no)
            \/ thr'[t].reply \in {"RejectedInputBecauseUnsynced", "PostTxOnChainFailed", "exception", "dead"}
            \/ thr'[t].reply = "none" /\ thr[t].lost >= (IF thr[t].do = "close" THEN Attempts ELSE 1)]_vars

\* A close, or a fanout given to a client that knew of the closure.
Knowing(t) == thr[t].cmd = "fanout" => thr[t].sure

\* Fanout is not sent before the deadline, also in the next head, by a client
\* that knew of the closure and missed no event (ready_to_fanout, cmd_fanout).
NeverTooEarly ==
  \A t \in Thread :
    thr[t].pc \in {"mark", "send"} /\ thr[t].do = "fanout" /\ Knowing(t) /\ t \notin missed
      => Gone(thr[t].no) \/ head.ready

\* A command that reports the fan-out reports it of the head it found closed.
\* A client that does not know of the closure, and whose flag is the one of an
\* earlier closure, searches its list from the beginning and may report the
\* fan-out of an earlier head.
FinalIsFinal ==
  [][\A t \in Thread :
       Ends(t) /\ thr[t].do = "fanout" /\ thr'[t].reply = "HeadIsFinalized" /\ Knowing(t) /\ t \notin missed
         => Gone(thr[t].no)]_vars

\* A deposit that is replied OK is in the head, and in the set the client pays
\* from, unless events of the other party's deposit came in between.
DepositIsIn ==
  [][\A t \in Thread :
       Ends(t) /\ thr'[t].reply = "deposited" /\ ~thr[t].mixed /\ head.no = thr[t].no /\ head.st # "Idle"
         => dep["me"] = "final" /\ "me" \in view']_vars
=============================================================================
