------------------------------ MODULE SockFwd ------------------------------
(***************************************************************************)
(* The socket forwarder cardano-mvp/hydrapay/sockfwd.py: one connection of *)
(* a client on a leaf (hydra-node, cardano-cli) with cardano-node on the   *)
(* gateway, through a chain of forwarders (unix2tcp on the leaf, tcp2unix  *)
(* on the gateway).  Connections share nothing, so one is enough.          *)
(*                                                                         *)
(* A socket has two ends.  Forwarder f accepts socket f and opens socket   *)
(* f + 1, and has two pumps: a pump is named after the end it reads from.  *)
(* A pump that finds the end of its stream, or an error, closes the        *)
(* transport it writes to, in both directions.                             *)
(*                                                                         *)
(* TCP, UNIX sockets and the transports of asyncio are external.  A        *)
(* transport that is closed still sends what was written to it, and its    *)
(* reader still has what was received from it before.  What arrives at a   *)
(* closed end, or is not read when it is closed, resets the other end,     *)
(* whose reader may then fail with bytes still to be read.                 *)
(***************************************************************************)
EXTENDS Naturals, Sequences

CONSTANTS Hops,      \* forwarders in the chain
          MaxBytes,  \* bound: bytes (or segments) each side sends
          Window     \* bytes on the way beyond which drain waits

ASSUME FwdAssumption == Hops \in Nat \ {0} /\ MaxBytes \in Nat /\ Window \in Nat

End == (1..(Hops + 1)) \X {"c", "s"}

client == <<1, "c">>

node == <<Hops + 1, "s">>

App == {client, node}

Pump == End \ App

\* The other end of a socket.
Opp(e) == <<e[1], IF e[2] = "c" THEN "s" ELSE "c">>

\* The end that the pump which reads from p writes to: the other socket of its forwarder.
Writer(p) == IF p[2] = "s" THEN <<p[1] + 1, "c">> ELSE <<p[1] - 1, "s">>

Near(f) == <<f, "s">>

Far(f) == <<f + 1, "c">>

VARIABLES up,     \* each end: "none" yet, "open" or "closed"
          in,     \* bytes on their way to an end, or received and not yet read
          reset,  \* the other end was closed with bytes unread, or before they came
          pump,   \* each pump: where it is, and its data
          sent,   \* bytes that the client, and the node, has sent
          got,    \* bytes it has received
          saw,    \* how its stream ended
          killed  \* history: a forwarder was killed

appVars == <<sent, got, saw, killed>>
sockVars == <<up, in, reset>>
vars == <<sockVars, pump, appVars>>

\* The client has connected to the first forwarder.
Init == /\ up = [e \in End |-> IF e[1] = 1 THEN "open" ELSE "none"]
        /\ in = [e \in End |-> <<>>]
        /\ reset = [e \in End |-> FALSE]
        /\ pump = [p \in Pump |-> [pc |-> "off", data |-> <<>>]]
        /\ sent = [a \in App |-> 0] /\ got = [a \in App |-> <<>>] /\ saw = [a \in App |-> "none"]
        /\ killed = FALSE

Prefix(s, n) == SubSeq(s, 1, n)

\* Bytes are written to end e.
Deliver(e, bytes) ==
  LET o == Opp(e)
  IN IF up[o] = "open" THEN in' = [in EXCEPT ![o] = @ \o bytes] /\ UNCHANGED <<up, reset>>
     ELSE reset' = [reset EXCEPT ![e] = TRUE] /\ UNCHANGED <<up, in>>

\* End e is closed with n bytes received.  It may have been closed before.
Closed(e, n) ==
  /\ up' = [up EXCEPT ![e] = IF @ = "open" THEN "closed" ELSE @]
  /\ in' = [in EXCEPT ![e] = IF up[e] = "open" THEN Prefix(@, n) ELSE @]
  /\ reset' = [reset EXCEPT ![Opp(e)] = @ \/ (up[e] = "open" /\ n < Len(in[e]))]

CloseEnd(e) == \E n \in 0..Len(in[e]) : Closed(e, n)

-----------------------------------------------------------------------------
(* handler *)

\* The forwarder opens its upstream, and the pumps start.
Connects(f) ==
  /\ up[Near(f)] = "open" /\ up[Far(f)] = "none"
  /\ up' = [up EXCEPT ![Far(f)] = "open", ![Opp(Far(f))] = "open"]
  /\ pump' = [pump EXCEPT ![Near(f)].pc = "read", ![Far(f)].pc = "read"]
  /\ UNCHANGED <<in, reset, appVars>>

\* Nobody listens there: the accepted connection is closed.
ConnectFails(f) ==
  /\ up[Near(f)] = "open" /\ up[Far(f)] = "none"
  /\ CloseEnd(Near(f))
  /\ UNCHANGED <<pump, appVars>>

-----------------------------------------------------------------------------
(* pump *)

At(p, pc) == pump[p].pc = pc

\* mutant: what does not fit is dropped
ReadDrops(p) ==
  /\ At(p, "read")
  /\ \E n \in 1..Len(in[p]) :
       /\ pump' = [pump EXCEPT ![p] = [pc |-> "write", data |-> Prefix(in[p], n)]]
       /\ in' = [in EXCEPT ![p] = <<>>]
  /\ UNCHANGED <<up, reset, appVars>>

\* mutant: an empty result is written like any other
ReadEmpty(p) ==
  /\ At(p, "read")
  /\ \E n \in 0..Len(in[p]) :
       /\ pump' = [pump EXCEPT ![p] = [pc |-> "write", data |-> Prefix(in[p], n)]]
       /\ in' = [in EXCEPT ![p] = SubSeq(@, n + 1, Len(@))]
  /\ UNCHANGED <<up, reset, appVars>>

\* read returns some of what there is.
Read(p) ==
  /\ At(p, "read")
  /\ \E n \in 1..Len(in[p]) :
       /\ pump' = [pump EXCEPT ![p] = [pc |-> "write", data |-> Prefix(in[p], n)]]
       /\ in' = [in EXCEPT ![p] = SubSeq(@, n + 1, Len(@))]
  /\ UNCHANGED <<up, reset, appVars>>

\* mutant: the pump ends and leaves its writer as it is
FinallyNot(p) == pump' = [pump EXCEPT ![p] = [pc |-> "done", data |-> <<>>]] /\ UNCHANGED sockVars

\* The pump ends, and closes what it writes to.
Finally(p) == pump' = [pump EXCEPT ![p] = [pc |-> "done", data |-> <<>>]] /\ CloseEnd(Writer(p))

\* The end of the stream, from the other end or since its own was closed.
ReadEnds(p) ==
  /\ At(p, "read")
  /\ in[p] = <<>> /\ "closed" \in {up[p], up[Opp(p)]}
  /\ Finally(p)
  /\ UNCHANGED appVars

\* The connection is lost: its transport is closed as well, and what its reader has is gone.
ReadRaises(p) ==
  /\ At(p, "read") /\ reset[p]
  /\ pump' = [pump EXCEPT ![p].pc = "raised"]
  /\ up' = [up EXCEPT ![p] = "closed"] /\ in' = [in EXCEPT ![p] = <<>>]
  /\ UNCHANGED <<reset, appVars>>

\* mutant: what was written is written again
WriteTwice(p) ==
  /\ At(p, "write") /\ up[Writer(p)] = "open"
  /\ Deliver(Writer(p), pump[p].data \o pump[p].data)
  /\ pump' = [pump EXCEPT ![p] = [pc |-> "drain", data |-> <<>>]]
  /\ UNCHANGED appVars

Write(p) ==
  /\ At(p, "write") /\ up[Writer(p)] = "open"
  /\ Deliver(Writer(p), pump[p].data)
  /\ pump' = [pump EXCEPT ![p] = [pc |-> "drain", data |-> <<>>]]
  /\ UNCHANGED appVars

\* drain returns when there is room; a closed end has taken what it would.
Drain(p) ==
  /\ At(p, "drain")
  /\ up[Opp(Writer(p))] = "closed" \/ Len(in[Opp(Writer(p))]) <= Window
  /\ pump' = [pump EXCEPT ![p].pc = "read"]
  /\ UNCHANGED <<sockVars, appVars>>

\* The connection is lost, before or while there is something to write.
DrainRaises(p) ==
  /\ pump[p].pc \in {"write", "drain"}
  /\ reset[Writer(p)] \/ up[Writer(p)] = "closed"
  /\ pump' = [pump EXCEPT ![p] = [pc |-> "raised", data |-> <<>>]]
  /\ UNCHANGED <<sockVars, appVars>>

Raised(p) == At(p, "raised") /\ Finally(p) /\ UNCHANGED appVars

PumpStep(p) == Read(p) \/ ReadEnds(p) \/ ReadRaises(p) \/ Write(p) \/ Drain(p) \/ DrainRaises(p) \/ Raised(p)

-----------------------------------------------------------------------------
(* The client and the node, and the end of a forwarder *)

Send(a) ==
  /\ up[a] = "open" /\ sent[a] < MaxBytes
  /\ sent' = [sent EXCEPT ![a] = @ + 1]
  /\ Deliver(a, <<sent[a] + 1>>)
  /\ UNCHANGED <<pump, got, saw, killed>>

Receive(a) ==
  /\ up[a] = "open" /\ in[a] # <<>>
  /\ got' = [got EXCEPT ![a] = Append(@, Head(in[a]))]
  /\ in' = [in EXCEPT ![a] = Tail(@)]
  /\ UNCHANGED <<up, reset, pump, sent, saw, killed>>

\* It finds the end of its stream and closes.
SeesEnd(a) ==
  /\ up[a] = "open"
  /\ (up[Opp(a)] = "closed" /\ in[a] = <<>>) \/ reset[a]
  /\ saw' = [saw EXCEPT ![a] = IF reset[a] THEN "reset" ELSE "eof"]
  /\ Closed(a, 0)
  /\ UNCHANGED <<pump, sent, got, killed>>

\* It has had enough.
Leaves(a) ==
  /\ up[a] = "open"
  /\ Closed(a, 0)
  /\ UNCHANGED <<pump, appVars>>

\* A forwarder is killed; the system closes its sockets.
Killed(f) ==
  /\ ~killed /\ "open" \in {up[Near(f)], up[Far(f)]}
  /\ killed' = TRUE
  /\ LET mine == {Near(f), Far(f)}
     IN /\ up' = [e \in End |-> IF e \in mine /\ up[e] = "open" THEN "closed" ELSE up[e]]
        /\ in' = [e \in End |-> IF e \in mine THEN <<>> ELSE in[e]]
        /\ reset' = [e \in End |-> reset[e] \/ (Opp(e) \in mine /\ up[Opp(e)] = "open" /\ in[Opp(e)] # <<>>)]
        /\ pump' = [p \in Pump |-> IF p \in mine THEN [pc |-> "done", data |-> <<>>] ELSE pump[p]]
  /\ UNCHANGED <<sent, got, saw>>

-----------------------------------------------------------------------------
Handler(f) == Connects(f) \/ ConnectFails(f)

Reads(a) == Receive(a) \/ SeesEnd(a)

Next == \/ \E f \in 1..Hops : Handler(f) \/ Killed(f)
        \/ \E p \in Pump : PumpStep(p)
        \/ \E a \in App : Send(a) \/ Reads(a) \/ Leaves(a)

\* The event loops run, connecting succeeds or fails, and client and node read.
Fairness == /\ \A f \in 1..Hops : WF_vars(Handler(f))
            /\ \A p \in Pump : WF_vars(PumpStep(p))
            /\ \A a \in App : WF_vars(Reads(a))

Spec == Init /\ [][Next]_vars /\ Fairness

-----------------------------------------------------------------------------
(* Properties *)

\* Every variable has its type, and a pump that does not hold data has none.
TypeOK ==
  /\ up \in [End -> {"none", "open", "closed"}]
  /\ in \in [End -> Seq(Nat)] /\ reset \in [End -> BOOLEAN]
  /\ pump \in [Pump -> [pc : {"off", "read", "write", "drain", "raised", "done"}, data : Seq(Nat)]]
  /\ \A p \in Pump : At(p, "write") <=> pump[p].data # <<>>
  /\ sent \in [App -> 0..MaxBytes] /\ got \in [App -> Seq(Nat)]
  /\ saw \in [App -> {"none", "eof", "reset"}] /\ killed \in BOOLEAN

Peer(a) == IF a = client THEN node ELSE client

\* What arrives is a prefix of what the other side sent, in order and once,
\* whatever is closed, reset or killed on the way (pump).
InOrder == \A a \in App : Len(got[a]) <= sent[Peer(a)] /\ \A i \in DOMAIN got[a] : got[a][i] = i

\* A stream that ends has ended with all that was sent, unless a connection was
\* reset on the way, or a forwarder killed: a pump turns both into a plain end
\* of the stream (its except clause).
EndIsComplete == \A a \in App : saw[a] = "eof" /\ ~killed /\ (\A e \in End : ~reset[e])
                                  => Len(got[a]) = sent[Peer(a)]

Over == (\A e \in End : up[e] # "open") /\ (\A p \in Pump : pump[p].pc \in {"off", "done"})

\* Both pumps that write to a socket between two forwarders wait in drain, and
\* the pumps that read from it have ended, since the client and the node are gone.
Clogged == \E f \in 1..(Hops - 1) : /\ At(Near(f), "drain") /\ At(Far(f + 1), "drain")
                                    /\ At(Far(f), "done") /\ At(Near(f + 1), "done")

\* A connection does not stay half open: once any end of the chain is closed (by
\* the client, the node, a failed connect or the death of a forwarder) every end
\* is, and every pump has ended.  There is one way out of it: nobody reads a
\* socket whose directions are both full, as drain has no time-out.
Teardown == (\E e \in End : up[e] = "closed") ~> (Over \/ Clogged)
=============================================================================
