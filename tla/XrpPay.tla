------------------------------- MODULE XrpPay -------------------------------
(***************************************************************************)
(* The payment link of the XRP arm (xrp-mvp/xrppay/xrppay.py): a payer     *)
(* node that opens a channel and pays through it, and the payee node that  *)
(* stores the claims.                                                      *)
(*                                                                         *)
(* Every control connection of the payer is served by a thread of its own  *)
(* (handle_ctl), and every peer connection of the payee likewise           *)
(* (handle_peer), so the critical sections of the two nodes interleave.    *)
(* One action below is one critical section or one message step.  A        *)
(* critical section that ends in State.save() changes the memory of the    *)
(* node (out, inn) and its file (outDisk, inDisk) at once: the file is     *)
(* replaced atomically and nothing leaves the section before the save, so  *)
(* a crash inside it looks like a crash before it or after it.             *)
(*                                                                         *)
(* A peer_send is one TCP connection with a 5 s time-out.  A time-out does *)
(* not recall the request: the payee may still handle it, with nobody      *)
(* left to read the answer (an orphan).  The version counters and the      *)
(* signature bytes only appear in log lines and are left out; a signature  *)
(* is valid exactly if the claim is in the set `claims' of claims signed.  *)
(***************************************************************************)
EXTENDS Naturals

CONSTANTS OpenThread,  \* control connections that carry an `open' command
          PayThread,   \* control connections that carry a `pay' command
          Channel,     \* the channels PaymentChannelCreate can yield
          Funding,     \* drops every channel is funded with
          PayAmount,   \* amounts of a `pay' command, in drops
          MaxTotal,    \* bound: the highest cumulative amount ever signed
          None         \* no channel, no waiting thread, no answer yet

Thread == OpenThread \cup PayThread

ASSUME PayAssumption == /\ OpenThread \cap PayThread = {}
                        /\ None \notin Channel \cup Thread
                        /\ Funding \in Nat
                        /\ MaxTotal \in Nat
                        /\ PayAmount \subseteq Nat

VARIABLES created,   \* ledger: the channels that exist, all with Funding
          out,       \* payer memory: state.d["out"], as channel and signed_drops
          outDisk,   \* payer file
          inn,       \* payee memory: state.d["in"], as channel and best_drops
          inDisk,    \* payee file
          thr,       \* payer: what each control thread is doing
          wire,      \* requests on the peer link
          claims,    \* history: the claims signed with the payer's key
          acked      \* history: the claims the payee acknowledged

payerVars == <<out, outDisk, thr>>
payeeVars == <<inn, inDisk>>
vars == <<created, out, outDisk, inn, inDisk, thr, wire, claims, acked>>

Idle == [pc |-> "idle", chan |-> None, total |-> 0, prev |-> 0, reply |-> None]

NoChannel == [channel |-> None, drops |-> 0]

Book == [channel : Channel \cup {None}, drops : Nat]

PC == {"idle", "submit", "save", "send", "wait"}

Request == [t : {"chan_open", "claim"}, from : Thread \cup {None},
            channel : Channel, amount : Nat]

TypeOK == /\ created \subseteq Channel
          /\ out \in Book /\ outDisk \in Book
          /\ inn \in Book /\ inDisk \in Book
          /\ thr \in [Thread -> [pc : PC, chan : Channel \cup {None},
                                 total : Nat, prev : Nat,
                                 reply : {None, "ok", "rejected"}]]
          /\ \A t \in Thread : thr[t].pc \in {"save", "send", "wait"} => thr[t].chan \in Channel
          /\ wire \subseteq Request
          /\ claims \subseteq Channel \X Nat
          /\ acked \subseteq Channel \X Nat

Init == /\ created = {}
        /\ out = NoChannel /\ outDisk = NoChannel
        /\ inn = NoChannel /\ inDisk = NoChannel
        /\ thr = [t \in Thread |-> Idle]
        /\ wire = {}
        /\ claims = {}
        /\ acked = {}

-----------------------------------------------------------------------------
(* cmd_open, step by step.                                                 *)

\* Under the lock: refuse a second outgoing channel.  The lock is released
\* before the transaction is submitted.
OpenCheck(t) ==
  /\ thr[t] = Idle
  /\ out.channel = None
  /\ thr' = [thr EXCEPT ![t].pc = "submit"]
  /\ UNCHANGED <<created, out, outDisk, payeeVars, wire, claims, acked>>

\* mutant: the channel id of the result is not kept
OpenSubmitForgets(t) ==
  /\ thr[t].pc = "submit"
  /\ \E c \in Channel \ created :
       /\ created' = created \cup {c}
       /\ thr' = [thr EXCEPT ![t].pc = "save"]
  /\ UNCHANGED <<out, outDisk, payeeVars, wire, claims, acked>>

\* submit() returns the channel of a validated PaymentChannelCreate.
OpenSubmit(t) ==
  /\ thr[t].pc = "submit"
  /\ \E c \in Channel \ created :
       /\ created' = created \cup {c}
       /\ thr' = [thr EXCEPT ![t] = [Idle EXCEPT !.pc = "save", !.chan = c]]
  /\ UNCHANGED <<out, outDisk, payeeVars, wire, claims, acked>>

\* submit() raises: nothing was created and handle_ctl answers ERR.
OpenFails(t) ==
  /\ thr[t].pc = "submit"
  /\ thr' = [thr EXCEPT ![t] = Idle]
  /\ UNCHANGED <<created, out, outDisk, payeeVars, wire, claims, acked>>

\* Under the lock again: the new channel becomes state.d["out"], saved.
OpenSave(t) ==
  /\ thr[t].pc = "save"
  /\ out' = [channel |-> thr[t].chan, drops |-> 0]
  /\ outDisk' = out'
  /\ thr' = [thr EXCEPT ![t].pc = "send"]
  /\ UNCHANGED <<created, payeeVars, wire, claims, acked>>

-----------------------------------------------------------------------------
(* cmd_pay: the signing section, and the rollback after a rejection.       *)

\* mutant: the new counter stays in memory
PaySignUnsaved(t, drops, force) ==
  LET total == out.drops + drops IN
  /\ thr[t] = Idle
  /\ out.channel # None
  /\ total <= Funding \/ force
  /\ total <= MaxTotal
  /\ claims' = claims \cup {<<out.channel, total>>}
  /\ out' = [out EXCEPT !.drops = total]
  /\ thr' = [thr EXCEPT ![t] = [pc |-> "send", chan |-> out.channel, total |-> total,
                                prev |-> out.drops, reply |-> None]]
  /\ UNCHANGED <<created, outDisk, payeeVars, wire, acked>>

PaySign(t, drops, force) ==
  LET total == out.drops + drops IN
  /\ thr[t] = Idle
  /\ out.channel # None
  /\ total <= Funding \/ force
  /\ total <= MaxTotal
  /\ claims' = claims \cup {<<out.channel, total>>}
  /\ out' = [out EXCEPT !.drops = total]
  /\ outDisk' = out'
  /\ thr' = [thr EXCEPT ![t] = [pc |-> "send", chan |-> out.channel, total |-> total,
                                prev |-> out.drops, reply |-> None]]
  /\ UNCHANGED <<created, payeeVars, wire, acked>>

\* The rollback writes through the reference the thread took when it signed:
\* once cmd_open has put another channel in state.d["out"], it is lost.
RolledBack(t) ==
  IF out.channel = thr[t].chan THEN [out EXCEPT !.drops = thr[t].prev] ELSE out

\* The answer arrives.  An open command and an accepted payment are over; a
\* rejected payment puts the counter back to what this thread found.
PayReply(t) ==
  /\ thr[t].pc = "wait"
  /\ thr[t].reply # None
  /\ IF t \in PayThread /\ thr[t].reply = "rejected"
     THEN out' = RolledBack(t) /\ outDisk' = out'
     ELSE UNCHANGED <<out, outDisk>>
  /\ thr' = [thr EXCEPT ![t] = Idle]
  /\ UNCHANGED <<created, payeeVars, wire, claims, acked>>

-----------------------------------------------------------------------------
(* peer_send: one request, one answer, or an exception.                    *)

Orphaned(t) == {[m EXCEPT !.from = IF @ = t THEN None ELSE @] : m \in wire}

\* The request of thread t is on its way.
PeerSend(t) ==
  /\ thr[t].pc = "send"
  /\ wire' = wire \cup {[t |-> IF t \in OpenThread THEN "chan_open" ELSE "claim",
                         from |-> t, channel |-> thr[t].chan, amount |-> thr[t].total]}
  /\ thr' = [thr EXCEPT ![t].pc = "wait"]
  /\ UNCHANGED <<created, out, outDisk, payeeVars, claims, acked>>

\* mutant: a time-out is taken for a rejection
PeerTimeoutRollsBack(t) ==
  /\ thr[t].pc \in {"send", "wait"}
  /\ wire' = Orphaned(t)
  /\ out' = IF t \in PayThread THEN RolledBack(t) ELSE out
  /\ outDisk' = out'
  /\ thr' = [thr EXCEPT ![t] = Idle]
  /\ UNCHANGED <<created, payeeVars, claims, acked>>

\* The connection fails, or no answer arrives within 5 s, or the answer is
\* lost.  The command ends ("claim kept locally"); a request already sent
\* stays on the link without a reader.
PeerTimeout(t) ==
  /\ thr[t].pc \in {"send", "wait"}
  /\ wire' = Orphaned(t)
  /\ thr' = [thr EXCEPT ![t] = Idle]
  /\ UNCHANGED <<created, out, outDisk, payeeVars, claims, acked>>

-----------------------------------------------------------------------------
(* The payee: handle_peer with on_chan_open and on_claim.                  *)

Answered(m, answer) ==
  IF m.from = None THEN thr ELSE [thr EXCEPT ![m.from].reply = answer]

\* The ledger confirms the channel: it replaces whatever state.d["in"] was.
OnChanOpen(m) ==
  /\ m.t = "chan_open"
  /\ m.channel \in created
  /\ inn' = [channel |-> m.channel, drops |-> 0]
  /\ inDisk' = inn'
  /\ thr' = Answered(m, "ok")
  /\ wire' = wire \ {m}
  /\ UNCHANGED <<created, out, outDisk, claims, acked>>

\* The gateway cannot be asked about the channel: handle_peer answers with
\* the exception.
OnChanOpenFails(m) ==
  /\ m.t = "chan_open"
  /\ thr' = Answered(m, "rejected")
  /\ wire' = wire \ {m}
  /\ UNCHANGED <<created, out, outDisk, payeeVars, claims, acked>>

\* mutant: the amount may also be above the funding of the channel
AcceptableUnfunded(m) == /\ m.channel = inn.channel
                         /\ m.amount > inn.drops
                         /\ <<m.channel, m.amount>> \in claims

\* mutant: the amount need not grow
AcceptableStale(m) == /\ m.channel = inn.channel
                      /\ m.amount <= Funding
                      /\ <<m.channel, m.amount>> \in claims

\* The checks of on_claim, in its order.
Acceptable(m) == /\ m.channel = inn.channel
                 /\ m.amount > inn.drops
                 /\ m.amount <= Funding
                 /\ <<m.channel, m.amount>> \in claims

\* mutant: the claim is acknowledged without being saved
OnClaimUnsaved(m) ==
  /\ m.t = "claim"
  /\ Acceptable(m)
  /\ inn' = [inn EXCEPT !.drops = m.amount]
  /\ thr' = Answered(m, "ok")
  /\ acked' = acked \cup {<<m.channel, m.amount>>}
  /\ wire' = wire \ {m}
  /\ UNCHANGED <<created, out, outDisk, inDisk, claims>>

\* A good claim is stored, saved and acknowledged.
OnClaim(m) ==
  /\ m.t = "claim"
  /\ Acceptable(m)
  /\ inn' = [inn EXCEPT !.drops = m.amount]
  /\ inDisk' = inn'
  /\ thr' = Answered(m, "ok")
  /\ acked' = acked \cup {<<m.channel, m.amount>>}
  /\ wire' = wire \ {m}
  /\ UNCHANGED <<created, out, outDisk, claims>>

\* Any other claim is refused without a trace.
OnClaimRejected(m) ==
  /\ m.t = "claim"
  /\ ~Acceptable(m)
  /\ thr' = Answered(m, "rejected")
  /\ wire' = wire \ {m}
  /\ UNCHANGED <<created, out, outDisk, payeeVars, claims, acked>>

-----------------------------------------------------------------------------
(* A node process dies and is started again from its file.                 *)

PayerRestart ==
  /\ out' = outDisk
  /\ thr' = [t \in Thread |-> Idle]
  /\ wire' = {[m EXCEPT !.from = None] : m \in wire}
  /\ UNCHANGED <<created, outDisk, payeeVars, claims, acked>>

\* The connections of the payee are reset; the payer threads run into
\* PeerTimeout.
PayeeRestart ==
  /\ inn' = inDisk
  /\ wire' = {}
  /\ UNCHANGED <<created, payerVars, inDisk, claims, acked>>

-----------------------------------------------------------------------------
OpenStep(t) == OpenCheck(t) \/ OpenSubmit(t) \/ OpenFails(t) \/ OpenSave(t)

PayStep(t) == \E drops \in PayAmount, force \in BOOLEAN : PaySign(t, drops, force)

LinkStep(t) == PeerSend(t) \/ PeerTimeout(t) \/ PayReply(t)

PayeeStep(m) == OnChanOpen(m) \/ OnChanOpenFails(m) \/ OnClaim(m) \/ OnClaimRejected(m)

Next == \/ \E t \in OpenThread : OpenStep(t)
        \/ \E t \in PayThread : PayStep(t)
        \/ \E t \in Thread : LinkStep(t)
        \/ \E m \in wire : PayeeStep(m)
        \/ PayerRestart
        \/ PayeeRestart

Spec == Init /\ [][Next]_vars

-----------------------------------------------------------------------------
(* Properties.                                                             *)

\* Whatever the payee holds, in memory or on file, the ledger will pay: the
\* payer signed it (on_claim verifies the signature) and it is within the
\* funding of the channel, also when `pay ... force' signs above it.
BestIsPayable ==
  \A b \in {inn, inDisk} :
    b.drops > 0 => /\ <<b.channel, b.drops>> \in claims
                   /\ b.drops <= Funding

\* "Claims are money, so the payee persists a claim before it acknowledges
\* the claim" (State): an acknowledged amount is in the payee's file for
\* good, whatever crashes, time-outs and late requests follow.
AckedIsKept ==
  \A x \in acked : inDisk.channel = x[1] /\ inDisk.drops >= x[2]

\* The payer's saved counter covers what the payee holds, so the next claim
\* is not stale: no rollback, time-out, late request or restart takes the
\* counter below the best claim on the same channel.
CounterCoversBest ==
  out.channel # None /\ out.channel = inn.channel => /\ inn.drops <= out.drops
                                                     /\ inDisk.drops <= outDisk.drops

\* "the saved counter prevents a lower cumulative amount after a restart"
\* (cmd_pay): the payer never signs less on a channel than the payee has
\* already acknowledged there.
NeverSignsBelowAcked ==
  [][\A t \in PayThread : thr[t].pc = "idle" /\ thr'[t].pc = "send" =>
       \A y \in acked : y[1] = thr'[t].chan => y[2] <= thr'[t].total]_vars

\* The amounts on the payee's file, channel by channel.
Held == [c \in Channel |-> IF inDisk.channel = c THEN inDisk.drops ELSE 0]

Claims == INSTANCE XrpClaims WITH issued <- claims, held <- Held

\* The two nodes implement the abstract claim channel: every step of theirs
\* leaves the payee's file alone or raises it to a claim the payer issued
\* and the channel can pay.
ImplementsClaims == Claims!ClaimsSpec
=============================================================================
