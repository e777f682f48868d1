---------------------------- MODULE XrpPayProofs ----------------------------
(***************************************************************************)
(* Proofs about the payment link XrpPay, for every set of threads,         *)
(* channels and amounts.                                                   *)
(***************************************************************************)
EXTENDS XrpPay, TLAPS

ThreadState == [pc : PC, chan : Channel \cup {None}, total : Nat, prev : Nat,
                reply : {None, "ok", "rejected"}]

HasChannel(r) == r.pc \in {"save", "send", "wait"} => r.chan \in Channel

ThreadsOK == /\ thr \in [Thread -> ThreadState]
             /\ \A t \in Thread : HasChannel(thr[t])

-----------------------------------------------------------------------------
(* Types.                                                                  *)

LEMMA InitType == Init => TypeOK
  BY PayAssumption DEF Init, TypeOK, Idle, NoChannel, Book, PC, Thread

\* A thread that goes on, or back to idle, keeps its type.
LEMMA ThreadUpdate ==
  ASSUME TypeOK, NEW t \in Thread, NEW r \in ThreadState, HasChannel(r),
         thr' = [thr EXCEPT ![t] = r]
  PROVE  ThreadsOK'
  BY DEF TypeOK, ThreadState, ThreadsOK, HasChannel

\* An answer to a waiting thread, or to nobody.
LEMMA AnswerType ==
  ASSUME TypeOK, NEW m \in wire, NEW a \in {"ok", "rejected"}, thr' = Answered(m, a)
  PROVE  ThreadsOK'
  BY DEF TypeOK, ThreadState, Answered, Request, ThreadsOK, HasChannel

LEMMA OrphanType ==
  ASSUME TypeOK, NEW t
  PROVE  Orphaned(t) \subseteq Request
  BY DEF TypeOK, Orphaned, Request

LEMMA TypeStep == TypeOK /\ [Next]_vars => TypeOK'
<1> SUFFICES ASSUME TypeOK, [Next]_vars PROVE TypeOK'
  OBVIOUS
<1> USE PayAssumption
<1>0. Idle \in ThreadState /\ HasChannel(Idle)
  BY DEF Idle, ThreadState, PC, HasChannel
<1>1. ASSUME NEW t \in OpenThread, OpenCheck(t) PROVE TypeOK'
  BY <1>1 DEF OpenCheck, TypeOK, payeeVars, PC, Thread
<1>2. ASSUME NEW t \in OpenThread, OpenSubmit(t) PROVE TypeOK'
  <2>1. PICK c \in Channel \ created :
          /\ created' = created \cup {c}
          /\ thr' = [thr EXCEPT ![t] = [Idle EXCEPT !.pc = "save", !.chan = c]]
    BY <1>2 DEF OpenSubmit
  <2>2. ThreadsOK'
    <3> DEFINE r == [Idle EXCEPT !.pc = "save", !.chan = c]
    <3>1. r \in ThreadState /\ HasChannel(r)
      BY DEF Idle, ThreadState, PC, HasChannel
    <3> QED BY <2>1, <3>1, ThreadUpdate DEF Thread
  <2> QED BY <1>2, <2>1, <2>2 DEF OpenSubmit, TypeOK, payeeVars, ThreadState, ThreadsOK, HasChannel
<1>3. ASSUME NEW t \in OpenThread, OpenFails(t) PROVE TypeOK'
  <2>1. ThreadsOK'
    BY <1>3, <1>0, ThreadUpdate DEF OpenFails, Thread
  <2> QED BY <1>3, <2>1 DEF OpenFails, TypeOK, payeeVars, ThreadState, ThreadsOK, HasChannel
<1>4. ASSUME NEW t \in OpenThread, OpenSave(t) PROVE TypeOK'
  BY <1>4 DEF OpenSave, TypeOK, payeeVars, PC, Thread, Book
<1>5. ASSUME NEW t \in PayThread, NEW drops \in PayAmount, NEW force \in BOOLEAN,
             PaySign(t, drops, force)
      PROVE  TypeOK'
  <2> DEFINE r == [pc |-> "send", chan |-> out.channel, total |-> out.drops + drops,
                   prev |-> out.drops, reply |-> None]
  <2>1. r \in ThreadState /\ HasChannel(r) /\ out.channel \in Channel
    BY <1>5 DEF PaySign, TypeOK, ThreadState, PC, Book, HasChannel
  <2>2. ThreadsOK'
    BY <1>5, <2>1, ThreadUpdate DEF PaySign, Thread
  <2>3. out' \in Book /\ outDisk' \in Book /\ claims' \subseteq Channel \X Nat
    BY <1>5, <2>1 DEF PaySign, TypeOK, Book
  <2> QED BY <1>5, <2>2, <2>3 DEF PaySign, TypeOK, payeeVars, ThreadState, ThreadsOK, HasChannel
<1>6. ASSUME NEW t \in Thread, PeerSend(t) PROVE TypeOK'
  BY <1>6 DEF PeerSend, TypeOK, payeeVars, PC, Request
<1>7. ASSUME NEW t \in Thread, PeerTimeout(t) PROVE TypeOK'
  <2>1. ThreadsOK'
    BY <1>7, <1>0, ThreadUpdate DEF PeerTimeout
  <2> QED BY <1>7, <2>1, OrphanType DEF PeerTimeout, TypeOK, payeeVars, ThreadState, ThreadsOK, HasChannel
<1>8. ASSUME NEW t \in Thread, PayReply(t) PROVE TypeOK'
  <2>1. ThreadsOK'
    BY <1>8, <1>0, ThreadUpdate DEF PayReply
  <2>2. out' \in Book /\ outDisk' \in Book
    BY <1>8 DEF PayReply, RolledBack, TypeOK, Book
  <2> QED BY <1>8, <2>1, <2>2 DEF PayReply, TypeOK, payeeVars, ThreadState, ThreadsOK, HasChannel
<1>9. ASSUME NEW m \in wire, PayeeStep(m) PROVE TypeOK'
  <2>1. ThreadsOK'
    BY <1>9, AnswerType DEF PayeeStep, OnChanOpen, OnChanOpenFails, OnClaim, OnClaimRejected
  <2>2. m \in Request
    BY DEF TypeOK
  <2>3. inn' \in Book /\ inDisk' \in Book /\ acked' \subseteq Channel \X Nat
    BY <1>9, <2>2 DEF PayeeStep, OnChanOpen, OnChanOpenFails, OnClaim, OnClaimRejected, TypeOK,
       payeeVars, Book, Request
  <2> QED BY <1>9, <2>1, <2>3 DEF PayeeStep, OnChanOpen, OnChanOpenFails, OnClaim, OnClaimRejected,
          TypeOK, payeeVars, ThreadState, ThreadsOK, HasChannel
<1>10. CASE PayerRestart
  BY <1>10, <1>0 DEF PayerRestart, TypeOK, payeeVars, Request, ThreadState, HasChannel
<1>11. CASE PayeeRestart
  BY <1>11 DEF PayeeRestart, TypeOK, payerVars
<1>12. CASE UNCHANGED vars
  BY <1>12 DEF vars, TypeOK
<1> QED BY <1>1, <1>2, <1>3, <1>4, <1>5, <1>6, <1>7, <1>8, <1>9, <1>10, <1>11, <1>12
        DEF Next, OpenStep, PayStep, LinkStep

\* Every variable of the payment link keeps its type.
THEOREM TypeCorrect == Spec => []TypeOK
  BY InitType, TypeStep, PTL DEF Spec

-----------------------------------------------------------------------------
(* The payee holds only claims the ledger will pay.                        *)

LEMMA BestStep == TypeOK /\ BestIsPayable /\ [Next]_vars => BestIsPayable'
<1> SUFFICES ASSUME TypeOK, BestIsPayable, [Next]_vars PROVE BestIsPayable'
  OBVIOUS
<1>1. ASSUME NEW m \in wire, OnClaim(m) PROVE BestIsPayable'
  <2>1. /\ inn' = [inn EXCEPT !.drops = m.amount] /\ inDisk' = inn' /\ claims' = claims
        /\ inn.channel = m.channel /\ m.amount <= Funding /\ <<m.channel, m.amount>> \in claims
    BY <1>1 DEF OnClaim, Acceptable
  <2>2. inn'.channel = m.channel /\ inn'.drops = m.amount
    BY <2>1 DEF TypeOK, Book
  <2> QED BY <2>1, <2>2 DEF BestIsPayable
<1>2. ASSUME NEW m \in wire, OnChanOpen(m) PROVE BestIsPayable'
  <2>1. inn'.drops = 0 /\ inDisk' = inn'
    BY <1>2 DEF OnChanOpen
  <2> QED BY <2>1 DEF BestIsPayable
<1>3. CASE PayeeRestart
  BY <1>3 DEF PayeeRestart, BestIsPayable
<1>4. CASE UNCHANGED payeeVars /\ claims \subseteq claims'
  BY <1>4 DEF payeeVars, BestIsPayable
<1>5. ASSUME NEW t \in OpenThread, OpenStep(t) PROVE UNCHANGED payeeVars /\ claims \subseteq claims'
  BY <1>5 DEF OpenStep, OpenCheck, OpenSubmit, OpenFails, OpenSave
<1>6. ASSUME NEW t \in PayThread, PayStep(t) PROVE UNCHANGED payeeVars /\ claims \subseteq claims'
  BY <1>6 DEF PayStep, PaySign
<1>7. ASSUME NEW t \in Thread, LinkStep(t) PROVE UNCHANGED payeeVars /\ claims \subseteq claims'
  BY <1>7 DEF LinkStep, PeerSend, PeerTimeout, PayReply
<1>8. ASSUME NEW m \in wire, OnChanOpenFails(m) \/ OnClaimRejected(m)
      PROVE  UNCHANGED payeeVars /\ claims \subseteq claims'
  BY <1>8 DEF OnChanOpenFails, OnClaimRejected
<1>9. PayerRestart \/ UNCHANGED vars => UNCHANGED payeeVars /\ claims \subseteq claims'
  BY DEF PayerRestart, vars, payeeVars
<1> QED BY <1>1, <1>2, <1>3, <1>4, <1>5, <1>6, <1>7, <1>8, <1>9 DEF Next, PayeeStep

\* Whatever the payee holds in memory or on file was signed by the payer and
\* is within the funding: on_claim checks both before it stores a claim.
THEOREM BestPayable == Spec => []BestIsPayable
<1>1. Init => BestIsPayable
  BY DEF Init, BestIsPayable, NoChannel
<1> QED BY <1>1, BestStep, TypeCorrect, PTL DEF Spec

-----------------------------------------------------------------------------
(* One open command at a time: the payee's channel is set once.            *)

OneOpener == \A s, t \in OpenThread : s = t

OpenMessages == {m \in wire : m.t = "chan_open"}

\* The opener is before PaymentChannelCreate is booked.
Opening(t) == thr[t].pc \in {"submit", "save"}

\* At the boundaries of the critical sections memory and file agree.
Saved == out = outDisk /\ inn = inDisk

\* While the channel is not yet announced the payee has none; the announcement
\* is sent once, and only then can a channel appear at the payee.
OpenOnce ==
  /\ \A t \in OpenThread : Opening(t) => out.channel = None
  /\ out.channel = None => inn.channel = None /\ OpenMessages = {}
  /\ \A t \in OpenThread : thr[t].pc = "send" =>
       out.channel # None /\ inn.channel = None /\ OpenMessages = {}
  /\ \A m \in OpenMessages : inn.channel = None /\ \A n \in OpenMessages : n = m

KeepInv == Saved /\ OpenOnce /\ AckedIsKept

LEMMA SavedStep == TypeOK /\ Saved /\ [Next]_vars => Saved'
<1> SUFFICES ASSUME TypeOK, Saved, [Next]_vars PROVE Saved'
  OBVIOUS
<1>1. ASSUME NEW t \in OpenThread, OpenStep(t) PROVE Saved'
  BY <1>1 DEF OpenStep, OpenCheck, OpenSubmit, OpenFails, OpenSave, Saved, payeeVars
<1>2. ASSUME NEW t \in PayThread, PayStep(t) PROVE Saved'
  BY <1>2 DEF PayStep, PaySign, Saved, payeeVars
<1>3. ASSUME NEW t \in Thread, LinkStep(t) PROVE Saved'
  BY <1>3 DEF LinkStep, PeerSend, PeerTimeout, PayReply, Saved, payeeVars
<1>4. ASSUME NEW m \in wire, PayeeStep(m) PROVE Saved'
  BY <1>4 DEF PayeeStep, OnChanOpen, OnChanOpenFails, OnClaim, OnClaimRejected, Saved, payeeVars
<1>5. CASE PayerRestart \/ PayeeRestart \/ UNCHANGED vars
  BY <1>5 DEF PayerRestart, PayeeRestart, Saved, payeeVars, payerVars, vars
<1> QED BY <1>1, <1>2, <1>3, <1>4, <1>5 DEF Next

\* With one opener no second channel reaches the payee.
LEMMA OpenOnceStep ==
  ASSUME OneOpener, TypeOK, Saved, OpenOnce, [Next]_vars
  PROVE  OpenOnce'
<1> USE PayAssumption DEF OneOpener, OpenMessages, Opening
<1>1. ASSUME NEW t \in OpenThread, OpenCheck(t) PROVE OpenOnce'
  BY <1>1 DEF OpenCheck, OpenOnce, TypeOK, payeeVars, Thread
<1>2. ASSUME NEW t \in OpenThread, OpenSubmit(t) PROVE OpenOnce'
  BY <1>2 DEF OpenSubmit, OpenOnce, TypeOK, payeeVars, Thread, Idle
<1>3. ASSUME NEW t \in OpenThread, OpenFails(t) PROVE OpenOnce'
  BY <1>3 DEF OpenFails, OpenOnce, TypeOK, payeeVars, Thread, Idle
<1>4. ASSUME NEW t \in OpenThread, OpenSave(t) PROVE OpenOnce'
  <2>1. out.channel = None /\ inn.channel = None /\ OpenMessages = {}
    BY <1>4 DEF OpenSave, OpenOnce
  <2>2. out'.channel \in Channel
    BY <1>4 DEF OpenSave, TypeOK, Thread
  <2>3. \A s \in OpenThread : s = t /\ thr'[s].pc = "send"
    BY <1>4 DEF OpenSave, TypeOK, Thread
  <2>4. inn' = inn /\ OpenMessages' = OpenMessages
    BY <1>4 DEF OpenSave, payeeVars
  <2> QED BY <2>1, <2>2, <2>3, <2>4 DEF OpenOnce
<1>5. ASSUME NEW t \in PayThread, NEW drops \in PayAmount, NEW force \in BOOLEAN,
             PaySign(t, drops, force)
      PROVE  OpenOnce'
  <2>1. \A s \in OpenThread : thr'[s] = thr[s]
    BY <1>5 DEF PaySign, TypeOK, Thread
  <2>2. out'.channel = out.channel
    BY <1>5 DEF PaySign, TypeOK, Book
  <2> QED BY <1>5, <2>1, <2>2 DEF PaySign, OpenOnce, payeeVars
<1>6. ASSUME NEW t \in Thread, PeerSend(t) PROVE OpenOnce'
  <2>1. CASE t \in PayThread
    <3>1. OpenMessages' = OpenMessages
      BY <1>6, <2>1 DEF PeerSend
    <3>2. \A s \in OpenThread : thr'[s] = thr[s]
      BY <1>6, <2>1 DEF PeerSend, TypeOK, Thread
    <3> QED BY <1>6, <3>1, <3>2 DEF PeerSend, OpenOnce, payeeVars
  <2>2. CASE t \in OpenThread
    <3>1. inn.channel = None /\ OpenMessages = {}
      BY <1>6, <2>2 DEF PeerSend, OpenOnce
    <3>2. out.channel # None
      BY <1>6, <2>2 DEF PeerSend, OpenOnce
    <3>3. \A m, n \in OpenMessages' : m = n
      BY <1>6, <3>1 DEF PeerSend
    <3>4. \A s \in OpenThread : thr'[s].pc = "wait"
      BY <1>6, <2>2 DEF PeerSend, TypeOK, Thread
    <3> QED BY <1>6, <3>1, <3>2, <3>3, <3>4 DEF PeerSend, OpenOnce, payeeVars
  <2> QED BY <2>1, <2>2 DEF Thread
<1>7. ASSUME NEW t \in Thread, PeerTimeout(t) PROVE OpenOnce'
  <2>1. \A s \in OpenThread : thr'[s] = thr[s] \/ thr'[s] = Idle
    BY <1>7 DEF PeerTimeout, TypeOK, Thread
  <2>2. \A m \in OpenMessages' : \E n \in OpenMessages : m = [n EXCEPT !.from = IF @ = t THEN None ELSE @]
    BY <1>7 DEF PeerTimeout, Orphaned, TypeOK, Request
  <2>3. out' = out /\ inn' = inn
    BY <1>7 DEF PeerTimeout, payeeVars
  <2> QED BY <2>1, <2>2, <2>3 DEF OpenOnce, Idle
<1>8. ASSUME NEW t \in Thread, PayReply(t) PROVE OpenOnce'
  <2>1. \A s \in OpenThread : thr'[s] = thr[s] \/ thr'[s] = Idle
    BY <1>8 DEF PayReply, TypeOK, Thread
  <2>2. out'.channel = out.channel
    BY <1>8 DEF PayReply, RolledBack, TypeOK, Book
  <2>3. wire' = wire /\ inn' = inn
    BY <1>8 DEF PayReply, payeeVars
  <2> QED BY <2>1, <2>2, <2>3 DEF OpenOnce, Idle
<1>9. ASSUME NEW m \in wire, PayeeStep(m) PROVE OpenOnce'
  <2>1. \A s \in OpenThread : thr'[s].pc = thr[s].pc
    BY <1>9 DEF PayeeStep, OnChanOpen, OnChanOpenFails, OnClaim, OnClaimRejected, Answered,
       TypeOK, Thread, Request
  <2>2. out' = out /\ wire' = wire \ {m}
    BY <1>9 DEF PayeeStep, OnChanOpen, OnChanOpenFails, OnClaim, OnClaimRejected
  <2>3. CASE OnChanOpen(m)
    <3>1. m \in OpenMessages /\ OpenMessages' = {}
      BY <2>2, <2>3 DEF OnChanOpen, OpenOnce
    <3>2. out.channel # None /\ \A s \in OpenThread : thr[s].pc # "send"
      BY <3>1 DEF OpenOnce
    <3> QED BY <2>1, <2>2, <3>1, <3>2 DEF OpenOnce
  <2>4. CASE ~OnChanOpen(m)
    <3>1. inn'.channel = inn.channel
      BY <1>9, <2>4 DEF PayeeStep, OnChanOpenFails, OnClaim, OnClaimRejected, payeeVars, TypeOK, Book
    <3> QED BY <2>1, <2>2, <3>1 DEF OpenOnce
  <2> QED BY <2>3, <2>4
<1>10. CASE PayerRestart
  <2>1. \A s \in OpenThread : thr'[s] = Idle
    BY <1>10 DEF PayerRestart, Thread
  <2>2. \A m \in OpenMessages' : \E n \in OpenMessages : m = [n EXCEPT !.from = None]
    BY <1>10 DEF PayerRestart, TypeOK, Request
  <2>3. out' = out /\ inn' = inn
    BY <1>10 DEF PayerRestart, payeeVars, Saved
  <2> QED BY <2>1, <2>2, <2>3 DEF OpenOnce, Idle
<1>11. CASE PayeeRestart
  <2>1. out' = out /\ inn' = inn /\ thr' = thr /\ OpenMessages' = {}
    BY <1>11 DEF PayeeRestart, payerVars, Saved
  <2> QED BY <2>1 DEF OpenOnce
<1>12. CASE UNCHANGED vars
  BY <1>12 DEF vars, OpenOnce
<1> QED BY <1>1, <1>2, <1>3, <1>4, <1>5, <1>6, <1>7, <1>8, <1>9, <1>10, <1>11, <1>12
        DEF Next, OpenStep, PayStep, LinkStep

LEMMA AckedStep ==
  ASSUME TypeOK, Saved, OpenOnce, AckedIsKept, [Next]_vars
  PROVE  AckedIsKept'
<1>1. ASSUME NEW m \in wire, OnClaim(m) PROVE AckedIsKept'
  <2>1. /\ inDisk' = [inDisk EXCEPT !.drops = m.amount]
        /\ inDisk.channel = m.channel /\ m.amount > inDisk.drops
        /\ acked' = acked \cup {<<m.channel, m.amount>>}
    BY <1>1 DEF OnClaim, Acceptable, Saved
  <2>2. inDisk'.channel = m.channel /\ inDisk'.drops = m.amount
    BY <2>1 DEF TypeOK, Book
  <2>3. m.amount \in Nat /\ inDisk.drops \in Nat /\ \A x \in acked : x[2] \in Nat
    BY DEF TypeOK, Request, Book
  <2> QED BY <2>1, <2>2, <2>3 DEF AckedIsKept
<1>2. ASSUME NEW m \in wire, OnChanOpen(m) PROVE AckedIsKept'
  <2>1. inDisk.channel = None
    BY <1>2 DEF OnChanOpen, OpenOnce, OpenMessages, Saved
  <2>2. acked = {}
    BY <2>1, PayAssumption DEF AckedIsKept, TypeOK
  <2> QED BY <1>2, <2>2 DEF OnChanOpen, AckedIsKept
<1>3. CASE inDisk' = inDisk /\ acked' = acked
  BY <1>3 DEF AckedIsKept
<1>4. ASSUME NEW t \in OpenThread, OpenStep(t) PROVE inDisk' = inDisk /\ acked' = acked
  BY <1>4 DEF OpenStep, OpenCheck, OpenSubmit, OpenFails, OpenSave, payeeVars
<1>5. ASSUME NEW t \in PayThread, PayStep(t) PROVE inDisk' = inDisk /\ acked' = acked
  BY <1>5 DEF PayStep, PaySign, payeeVars
<1>6. ASSUME NEW t \in Thread, LinkStep(t) PROVE inDisk' = inDisk /\ acked' = acked
  BY <1>6 DEF LinkStep, PeerSend, PeerTimeout, PayReply, payeeVars
<1>7. ASSUME NEW m \in wire, OnChanOpenFails(m) \/ OnClaimRejected(m)
      PROVE  inDisk' = inDisk /\ acked' = acked
  BY <1>7 DEF OnChanOpenFails, OnClaimRejected, payeeVars
<1>8. PayerRestart \/ PayeeRestart \/ UNCHANGED vars => inDisk' = inDisk /\ acked' = acked
  BY DEF PayerRestart, PayeeRestart, payeeVars, vars
<1> QED BY <1>1, <1>2, <1>3, <1>4, <1>5, <1>6, <1>7, <1>8 DEF Next, PayeeStep

LEMMA KeepInvariant ==
  ASSUME OneOpener
  PROVE  Spec => [](TypeOK /\ KeepInv)
<1>1. Init => KeepInv
  BY PayAssumption DEF Init, KeepInv, Saved, OpenOnce, AckedIsKept, OpenMessages, Opening, NoChannel,
     Idle, Thread
<1>2. TypeOK /\ KeepInv /\ [Next]_vars => KeepInv'
  BY SavedStep, OpenOnceStep, AckedStep DEF KeepInv
<1> QED BY <1>1, <1>2, TypeCorrect, PTL DEF Spec

\* With one open command at a time an acknowledged claim stays in the payee's
\* file for good, across restarts of both nodes and late requests (State:
\* "the payee persists a claim before it acknowledges the claim").
THEOREM AckedKept ==
  ASSUME OneOpener
  PROVE  Spec => []AckedIsKept
  BY KeepInvariant, PTL DEF KeepInv

-----------------------------------------------------------------------------
(* Refinement.                                                             *)

LEMMA HeldUnchanged == ASSUME inDisk' = inDisk PROVE Held' = Held
  BY DEF Held

LEMMA RefineStep ==
  ASSUME TypeOK, KeepInv, [Next]_vars
  PROVE  [Claims!ClaimsNext]_(Claims!claimVars)
<1> USE DEF Claims!claimVars
<1>1. ASSUME NEW m \in wire, OnClaim(m) PROVE Claims!Accept
  <2> DEFINE x == <<m.channel, m.amount>>
  <2>1. /\ x \in claims /\ claims' = claims
        /\ inDisk.channel = m.channel /\ m.amount > inDisk.drops /\ m.amount <= Funding
        /\ inDisk' = [inDisk EXCEPT !.drops = m.amount]
    BY <1>1 DEF OnClaim, Acceptable, KeepInv, Saved
  <2>2. inDisk'.channel = m.channel /\ inDisk'.drops = m.amount /\ m.channel \in Channel
    BY <2>1 DEF TypeOK, Book, Request
  <2>3. Held[m.channel] = inDisk.drops
    BY <2>1, <2>2 DEF Held
  <2>4. Held' = [Held EXCEPT ![m.channel] = m.amount]
    BY <2>1, <2>2 DEF Held
  <2> QED BY <2>1, <2>3, <2>4 DEF Claims!Accept
<1>2. ASSUME NEW t \in PayThread, NEW drops \in PayAmount, NEW force \in BOOLEAN,
             PaySign(t, drops, force)
      PROVE  Claims!Issue
  <2> DEFINE x == <<out.channel, out.drops + drops>>
  <2>1. claims' = claims \cup {x} /\ inDisk' = inDisk
    BY <1>2 DEF PaySign, payeeVars
  <2>2. x \in Claims!Claim
    BY <1>2, PayAssumption DEF PaySign, TypeOK, Book, Claims!Claim
  <2> QED BY <2>1, <2>2, HeldUnchanged DEF Claims!Issue
<1>3. ASSUME NEW m \in wire, OnChanOpen(m) PROVE UNCHANGED <<claims, Held>>
  <2>1. inDisk.channel = None /\ inDisk' = [channel |-> m.channel, drops |-> 0] /\ claims' = claims
    BY <1>3 DEF OnChanOpen, KeepInv, OpenOnce, OpenMessages, Saved
  <2> QED BY <2>1, PayAssumption DEF Held
<1>4. ASSUME NEW t \in OpenThread, OpenStep(t) PROVE UNCHANGED <<claims, inDisk>>
  BY <1>4 DEF OpenStep, OpenCheck, OpenSubmit, OpenFails, OpenSave, payeeVars
<1>5. ASSUME NEW t \in Thread, LinkStep(t) PROVE UNCHANGED <<claims, inDisk>>
  BY <1>5 DEF LinkStep, PeerSend, PeerTimeout, PayReply, payeeVars
<1>6. ASSUME NEW m \in wire, OnChanOpenFails(m) \/ OnClaimRejected(m) PROVE UNCHANGED <<claims, inDisk>>
  BY <1>6 DEF OnChanOpenFails, OnClaimRejected, payeeVars
<1>7. PayerRestart \/ PayeeRestart \/ UNCHANGED vars => UNCHANGED <<claims, inDisk>>
  BY DEF PayerRestart, PayeeRestart, payeeVars, vars
<1> QED BY <1>1, <1>2, <1>3, <1>4, <1>5, <1>6, <1>7, HeldUnchanged
        DEF Next, PayeeStep, PayStep, Claims!ClaimsNext

\* With one open command at a time the two nodes implement the abstract claim
\* channel: what the payee keeps on file only rises, and only to claims the
\* payer issued and the channel can pay.
THEOREM Refinement ==
  ASSUME OneOpener
  PROVE  Spec => ImplementsClaims
<1>1. Init => Claims!ClaimsInit
  BY PayAssumption DEF Init, Claims!ClaimsInit, Held, NoChannel
<1>2. TypeOK /\ KeepInv /\ [Next]_vars => [Claims!ClaimsNext]_(Claims!claimVars)
  BY RefineStep
<1> QED BY <1>1, <1>2, KeepInvariant, PTL DEF Spec, ImplementsClaims, Claims!ClaimsSpec

-----------------------------------------------------------------------------
(* One payment at a time: the payer's counter covers the payee's claim.    *)

OnePayer == \A s, t \in PayThread : s = t

ClaimMessages == {m \in wire : m.t = "claim"}

\* Everything outstanding is covered by the counter.
Covered ==
  /\ inn.drops <= out.drops
  /\ inn.channel = None => inn.drops = 0
  /\ \A m \in ClaimMessages : m.amount <= out.drops

\* A payment in progress: its own request carries the counter, and whatever
\* else is under way is covered by the counter it would roll back to.
InProgress(t) ==
  /\ thr[t].chan = out.channel
  /\ thr[t].total = out.drops
  /\ thr[t].prev <= out.drops
  /\ \A m \in ClaimMessages : m.from # t => m.amount <= thr[t].prev
  /\ \A m \in ClaimMessages : m.from = t =>
       /\ thr[t].pc = "wait" /\ thr[t].reply = None
       /\ m.amount = thr[t].total /\ m.channel = thr[t].chan
       /\ inn.drops <= thr[t].prev
  /\ thr[t].pc = "send" => thr[t].reply = None /\ inn.drops <= thr[t].prev
  /\ thr[t].reply = "rejected" => inn.drops <= thr[t].prev

Paying(t) == thr[t].pc \in {"send", "wait"}

CounterInv ==
  /\ Covered
  /\ \A t \in PayThread : thr[t].pc \in {"idle", "send", "wait"}
  /\ \A t \in PayThread : Paying(t) => InProgress(t)
  /\ \A m \in ClaimMessages : m.from # None => m.from \in PayThread /\ Paying(m.from)
  /\ out.channel = None => ClaimMessages = {} /\ \A t \in PayThread : ~Paying(t)

LEMMA CounterInit == Init => CounterInv
  BY DEF Init, CounterInv, Covered, ClaimMessages, Paying, NoChannel, Idle, Thread

\* Steps of an open command.
LEMMA CounterOpen ==
  ASSUME TypeOK, KeepInv, CounterInv, NEW t \in OpenThread, OpenStep(t)
  PROVE  CounterInv'
<1> USE PayAssumption DEF ClaimMessages
<1>1. \A s \in PayThread : thr'[s] = thr[s]
  BY DEF OpenStep, OpenCheck, OpenSubmit, OpenFails, OpenSave, TypeOK, Thread
<1>2. inn' = inn /\ wire' = wire
  BY DEF OpenStep, OpenCheck, OpenSubmit, OpenFails, OpenSave, payeeVars
<1>3. CASE out' = out
  BY <1>1, <1>2, <1>3 DEF CounterInv, Covered, InProgress, Paying
<1>4. CASE OpenSave(t)
  <2>1. out.channel = None /\ inn.channel = None
    BY <1>4 DEF OpenSave, KeepInv, OpenOnce, Opening
  <2>2. ClaimMessages = {} /\ inn.drops = 0 /\ \A s \in PayThread : ~Paying(s)
    BY <2>1 DEF CounterInv, Covered
  <2>3. out'.drops = 0
    BY <1>4 DEF OpenSave
  <2> QED BY <1>1, <1>2, <2>2, <2>3 DEF CounterInv, Covered, Paying
<1> QED BY <1>3, <1>4 DEF OpenStep, OpenCheck, OpenSubmit, OpenFails

LEMMA CounterSign ==
  ASSUME OnePayer, TypeOK, CounterInv, NEW t \in PayThread, NEW drops \in PayAmount,
         NEW force \in BOOLEAN, PaySign(t, drops, force)
  PROVE  CounterInv'
<1> USE PayAssumption DEF ClaimMessages, OnePayer
<1>1. /\ thr[t] = Idle /\ inn' = inn /\ wire' = wire /\ out.channel # None
      /\ out' = [out EXCEPT !.drops = out.drops + drops]
  BY DEF PaySign, payeeVars
<1>2. /\ out'.drops = out.drops + drops /\ out'.channel = out.channel
      /\ out.drops \in Nat /\ drops \in Nat /\ inn.drops \in Nat
      /\ \A m \in wire : m.amount \in Nat
  BY <1>1 DEF TypeOK, Book, Request
<1>3. thr'[t] = [pc |-> "send", chan |-> out.channel, total |-> out.drops + drops,
                 prev |-> out.drops, reply |-> None]
  BY DEF PaySign, TypeOK, Thread
<1>4. \A m \in ClaimMessages : m.from = None
  BY <1>1 DEF CounterInv, Paying, Idle
<1>5. Covered'
  BY <1>1, <1>2 DEF CounterInv, Covered
<1>6. InProgress(t)'
  BY <1>1, <1>2, <1>3, <1>4 DEF CounterInv, Covered, InProgress, Thread
<1> QED BY <1>1, <1>2, <1>3, <1>4, <1>5, <1>6 DEF CounterInv, Paying

LEMMA CounterSend ==
  ASSUME OnePayer, TypeOK, CounterInv, NEW t \in Thread, PeerSend(t)
  PROVE  CounterInv'
<1> USE PayAssumption DEF ClaimMessages, OnePayer
<1>1. inn' = inn /\ out' = out
  BY DEF PeerSend, payeeVars
<1>2. CASE t \in OpenThread
  <2>1. ClaimMessages' = ClaimMessages /\ \A s \in PayThread : thr'[s] = thr[s]
    BY <1>2 DEF PeerSend, TypeOK, Thread
  <2> QED BY <1>1, <2>1 DEF CounterInv, Covered, InProgress, Paying
<1>3. CASE t \in PayThread
  <2> DEFINE m0 == [t |-> "claim", from |-> t, channel |-> thr[t].chan, amount |-> thr[t].total]
  <2>1. ClaimMessages' = ClaimMessages \cup {m0}
    BY <1>3 DEF PeerSend
  <2>2. InProgress(t) /\ thr[t].pc = "send" /\ thr'[t] = [thr[t] EXCEPT !.pc = "wait"]
    BY <1>3 DEF PeerSend, CounterInv, Paying, TypeOK
  <2>3. /\ thr'[t].pc = "wait" /\ thr'[t].chan = thr[t].chan /\ thr'[t].total = thr[t].total
        /\ thr'[t].prev = thr[t].prev /\ thr'[t].reply = thr[t].reply
    BY <2>2 DEF TypeOK
  <2>4. InProgress(t)'
    BY <1>1, <2>1, <2>2, <2>3 DEF InProgress
  <2>5. Covered'
    BY <1>1, <2>1, <2>2 DEF CounterInv, Covered, InProgress, TypeOK, Book
  <2>6. out.channel # None
    BY <1>3, <2>2 DEF CounterInv, Paying
  <2> QED BY <1>1, <1>3, <2>1, <2>3, <2>4, <2>5, <2>6 DEF CounterInv, Paying
<1> QED BY <1>2, <1>3 DEF Thread

LEMMA CounterTimeout ==
  ASSUME OnePayer, TypeOK, CounterInv, NEW t \in Thread, PeerTimeout(t)
  PROVE  CounterInv'
<1> USE PayAssumption DEF ClaimMessages, OnePayer
<1>1. inn' = inn /\ out' = out /\ wire' = Orphaned(t)
  BY DEF PeerTimeout, payeeVars
<1>2. thr'[t] = Idle /\ \A s \in Thread : s # t => thr'[s] = thr[s]
  BY DEF PeerTimeout, TypeOK
<1>3. \A m \in ClaimMessages' : \E n \in ClaimMessages :
        /\ m.amount = n.amount /\ m.channel = n.channel
        /\ m.from = IF n.from = t THEN None ELSE n.from
  BY <1>1 DEF Orphaned, TypeOK, Request
<1>4. Covered'
  BY <1>1, <1>3 DEF CounterInv, Covered
<1>5. CASE t \in PayThread
  BY <1>1, <1>2, <1>3, <1>4, <1>5 DEF CounterInv, Paying, Idle
<1>6. CASE t \in OpenThread
  <2>1. \A s \in PayThread : thr'[s] = thr[s]
    BY <1>2, <1>6 DEF Thread
  <2>2. \A m \in ClaimMessages' : \E n \in ClaimMessages :
          m.amount = n.amount /\ m.channel = n.channel /\ m.from = n.from
    BY <1>3, <1>6 DEF CounterInv
  <2>3. \A s \in PayThread : Paying(s) => InProgress(s)'
    <3> SUFFICES ASSUME NEW s \in PayThread, Paying(s) PROVE InProgress(s)'
      OBVIOUS
    <3>1. InProgress(s)
      BY DEF CounterInv
    <3> QED BY <1>1, <2>1, <2>2, <3>1 DEF InProgress
  <2> QED BY <1>1, <1>4, <2>1, <2>2, <2>3 DEF CounterInv, Paying
<1> QED BY <1>5, <1>6 DEF Thread

LEMMA CounterReply ==
  ASSUME OnePayer, TypeOK, CounterInv, NEW t \in Thread, PayReply(t)
  PROVE  CounterInv'
<1> USE PayAssumption DEF ClaimMessages, OnePayer
<1>1. inn' = inn /\ wire' = wire
  BY DEF PayReply, payeeVars
<1>2. thr'[t] = Idle /\ \A s \in Thread : s # t => thr'[s] = thr[s]
  BY DEF PayReply, TypeOK
<1>3. CASE t \in OpenThread
  <2>1. out' = out /\ \A s \in PayThread : thr'[s] = thr[s]
    BY <1>2, <1>3 DEF PayReply, Thread
  <2> QED BY <1>1, <2>1 DEF CounterInv, Covered, InProgress, Paying
<1>4. CASE t \in PayThread
  <2>1. InProgress(t) /\ thr[t].pc = "wait" /\ thr[t].reply # None
    BY <1>4 DEF PayReply, CounterInv, Paying
  <2>2. \A m \in ClaimMessages : m.from = None /\ m.amount <= thr[t].prev
    BY <1>4, <2>1 DEF InProgress, CounterInv
  <2>3. \A s \in PayThread : ~Paying(s)' /\ thr'[s].pc = "idle"
    BY <1>2, <1>4 DEF Paying, Idle
  <2>4. out'.channel = out.channel /\ Covered'
    <3>1. CASE thr[t].reply = "rejected"
      <4>1. out' = [out EXCEPT !.drops = thr[t].prev]
        BY <1>4, <2>1, <3>1 DEF PayReply, RolledBack, InProgress
      <4>2. out'.drops = thr[t].prev /\ out'.channel = out.channel
        BY <4>1 DEF TypeOK, Book
      <4> QED BY <1>1, <2>1, <2>2, <3>1, <4>2 DEF Covered, CounterInv, InProgress
    <3>2. CASE thr[t].reply # "rejected"
      BY <1>1, <3>2 DEF PayReply, CounterInv, Covered
    <3> QED BY <3>1, <3>2
  <2> QED BY <1>1, <2>2, <2>3, <2>4 DEF CounterInv
<1> QED BY <1>3, <1>4 DEF Thread

\* Announcements come from open commands.
Announced == \A m \in OpenMessages : m.from \notin PayThread

LEMMA AnnouncedStep ==
  ASSUME TypeOK, Announced, [Next]_vars
  PROVE  Announced'
<1> USE PayAssumption DEF OpenMessages, Announced
<1>1. ASSUME NEW t \in Thread, PeerSend(t) PROVE Announced'
  BY <1>1 DEF PeerSend
<1>2. ASSUME NEW t \in Thread, PeerTimeout(t) PROVE Announced'
  BY <1>2 DEF PeerTimeout, Orphaned, TypeOK, Request, Thread
<1>3. CASE PayerRestart
  BY <1>3 DEF PayerRestart, TypeOK, Request, Thread
<1>4. CASE wire' \subseteq wire
  BY <1>4
<1>5. ASSUME NEW t \in OpenThread, OpenStep(t) PROVE wire' \subseteq wire
  BY <1>5 DEF OpenStep, OpenCheck, OpenSubmit, OpenFails, OpenSave
<1>6. ASSUME NEW t \in PayThread, PayStep(t) PROVE wire' \subseteq wire
  BY <1>6 DEF PayStep, PaySign
<1>7. ASSUME NEW t \in Thread, PayReply(t) PROVE wire' \subseteq wire
  BY <1>7 DEF PayReply
<1>8. ASSUME NEW m \in wire, PayeeStep(m) PROVE wire' \subseteq wire
  BY <1>8 DEF PayeeStep, OnChanOpen, OnChanOpenFails, OnClaim, OnClaimRejected
<1>9. PayeeRestart \/ UNCHANGED vars => wire' \subseteq wire
  BY DEF PayeeRestart, vars
<1> QED BY <1>1, <1>2, <1>3, <1>4, <1>5, <1>6, <1>7, <1>8, <1>9 DEF Next, LinkStep

\* The payee handles an announcement.
LEMMA CounterChanOpen ==
  ASSUME TypeOK, Announced, CounterInv, NEW m \in wire, OnChanOpen(m) \/ OnChanOpenFails(m)
  PROVE  CounterInv'
<1> USE PayAssumption DEF ClaimMessages
<1>1. out' = out /\ ClaimMessages' = ClaimMessages
  BY DEF OnChanOpen, OnChanOpenFails
<1>2. inn' = inn \/ (inn'.drops = 0 /\ inn'.channel = m.channel)
  BY DEF OnChanOpen, OnChanOpenFails, payeeVars
<1>3. inn'.drops <= inn.drops /\ (inn'.channel = None => inn'.drops = 0) /\ inn.drops \in Nat
      /\ inn'.drops \in Nat /\ out.drops \in Nat
  BY <1>2 DEF TypeOK, Book, CounterInv, Covered
<1>4. \A t \in PayThread : /\ thr'[t].pc = thr[t].pc /\ thr'[t].chan = thr[t].chan
                           /\ thr'[t].total = thr[t].total /\ thr'[t].prev = thr[t].prev
                           /\ thr'[t].prev \in Nat
  BY DEF OnChanOpen, OnChanOpenFails, Answered, TypeOK, Thread, Request
<1>5. m.from \notin PayThread
  BY DEF Announced, OpenMessages, OnChanOpen, OnChanOpenFails
<1>6. \A t \in PayThread : thr'[t].reply = thr[t].reply
  BY <1>5 DEF OnChanOpen, OnChanOpenFails, Answered, TypeOK, Thread, Request
<1> QED BY <1>1, <1>3, <1>4, <1>6 DEF CounterInv, Covered, InProgress, Paying

\* The payee handles a claim.
LEMMA CounterClaim ==
  ASSUME OnePayer, TypeOK, CounterInv, NEW m \in wire, OnClaim(m) \/ OnClaimRejected(m)
  PROVE  CounterInv'
<1> USE PayAssumption DEF ClaimMessages, OnePayer
<1>1. out' = out /\ wire' = wire \ {m} /\ m.t = "claim" /\ m \in ClaimMessages /\ m \in Request
  BY DEF OnClaim, OnClaimRejected, TypeOK
<1>2. /\ inn'.channel = inn.channel
      /\ inn'.drops = inn.drops \/ (inn'.drops = m.amount /\ inn.channel # None)
  BY <1>1 DEF OnClaim, OnClaimRejected, Acceptable, payeeVars, TypeOK, Book, Request
<1>3. \A t \in PayThread : /\ thr'[t].pc = thr[t].pc /\ thr'[t].chan = thr[t].chan
                           /\ thr'[t].total = thr[t].total /\ thr'[t].prev = thr[t].prev
                           /\ m.from # t => thr'[t].reply = thr[t].reply
  BY DEF OnClaim, OnClaimRejected, Answered, TypeOK, Thread, Request
<1>4. Covered'
  BY <1>1, <1>2 DEF CounterInv, Covered
<1>5. ASSUME NEW t \in PayThread, Paying(t) PROVE InProgress(t)'
  <2>1. InProgress(t)
    BY <1>5 DEF CounterInv
  <2>2. CASE m.from # t
    <3>1. m.amount <= thr[t].prev
      BY <1>1, <2>1, <2>2 DEF InProgress
    <3> QED BY <1>1, <1>2, <1>3, <2>1, <2>2, <3>1 DEF InProgress
  <2>3. CASE m.from = t
    <3>1. /\ thr[t].pc = "wait" /\ m.amount = thr[t].total /\ m.channel = thr[t].chan
          /\ inn.drops <= thr[t].prev
      BY <1>1, <2>1, <2>3 DEF InProgress
    <3>2. \A n \in ClaimMessages : n.from = t => n = m
      BY <1>1, <2>1, <2>3, <3>1 DEF InProgress, TypeOK, Request
    <3>3. \A n \in ClaimMessages' : n.from # t
      BY <1>1, <3>2
    <3>4. CASE OnClaim(m)
      <4>1. thr'[t].reply = "ok"
        BY <2>3, <3>4 DEF OnClaim, Answered, TypeOK, Thread
      <4> QED BY <1>1, <1>3, <2>1, <3>1, <3>3, <4>1 DEF InProgress
    <3>5. CASE OnClaimRejected(m)
      <4>1. inn' = inn
        BY <3>5 DEF OnClaimRejected, payeeVars
      <4> QED BY <1>1, <1>3, <2>1, <3>1, <3>3, <4>1 DEF InProgress
    <3> QED BY <3>4, <3>5
  <2> QED BY <2>2, <2>3
<1> QED BY <1>1, <1>3, <1>4, <1>5 DEF CounterInv, Paying

LEMMA CounterRestart ==
  ASSUME TypeOK, Saved, CounterInv, PayerRestart \/ PayeeRestart
  PROVE  CounterInv'
<1> USE PayAssumption DEF ClaimMessages
<1>1. out' = out /\ inn' = inn
  BY DEF PayerRestart, PayeeRestart, Saved, payeeVars, payerVars
<1>2. CASE PayerRestart
  <2>1. \A m \in ClaimMessages' : m.from = None /\ \E n \in ClaimMessages : m.amount = n.amount
    BY <1>2 DEF PayerRestart, TypeOK, Request
  <2>2. \A t \in PayThread : thr'[t] = Idle
    BY <1>2 DEF PayerRestart, Thread
  <2> QED BY <1>1, <2>1, <2>2 DEF CounterInv, Covered, Paying, Idle
<1>3. CASE PayeeRestart
  <2>1. ClaimMessages' = {} /\ thr' = thr
    BY <1>3 DEF PayeeRestart, payerVars
  <2> QED BY <1>1, <2>1 DEF CounterInv, Covered, Paying, InProgress
<1> QED BY <1>2, <1>3

LEMMA CounterInvariant ==
  ASSUME OneOpener, OnePayer
  PROVE  Spec => [](TypeOK /\ KeepInv /\ CounterInv)
<1>1. Init => Announced
  BY DEF Init, Announced, OpenMessages
<1>2. TypeOK /\ KeepInv /\ Announced /\ CounterInv /\ [Next]_vars => CounterInv'
  <2> SUFFICES ASSUME TypeOK, KeepInv, Announced, CounterInv, [Next]_vars PROVE CounterInv'
    OBVIOUS
  <2>1. CASE UNCHANGED vars
    BY <2>1 DEF vars, CounterInv, Covered, ClaimMessages, Paying, InProgress
  <2> QED BY <2>1, CounterOpen, CounterSign, CounterSend, CounterTimeout, CounterReply,
             CounterChanOpen, CounterClaim, CounterRestart
          DEF Next, PayStep, LinkStep, PayeeStep, KeepInv
<1> QED BY <1>1, <1>2, CounterInit, AnnouncedStep, TypeCorrect, KeepInvariant, PTL DEF Spec

\* With one open and one pay command at a time the payer's saved counter
\* covers what the payee holds: no time-out, lost acknowledgement, late
\* request, rejection or restart takes it below.
THEOREM CounterCovers ==
  ASSUME OneOpener, OnePayer
  PROVE  Spec => []CounterCoversBest
<1>1. KeepInv /\ CounterInv => CounterCoversBest
  BY DEF KeepInv, Saved, CounterInv, Covered, CounterCoversBest
<1> QED BY <1>1, CounterInvariant, PTL

\* Under the same discipline the payer never signs less than the payee has
\* acknowledged, which is what saving the counter in cmd_pay is for.
THEOREM NeverSignsBelow ==
  ASSUME OneOpener, OnePayer
  PROVE  Spec => NeverSignsBelowAcked
<1> DEFINE Step == \A t \in PayThread : thr[t].pc = "idle" /\ thr'[t].pc = "send" =>
                     \A y \in acked : y[1] = thr'[t].chan => y[2] <= thr'[t].total
<1>1. ASSUME TypeOK, KeepInv, CounterInv, [Next]_vars PROVE [Step]_vars
  <2> SUFFICES ASSUME NEW t \in PayThread, thr[t].pc = "idle", thr'[t].pc = "send", NEW y \in acked
               PROVE  y[2] <= thr'[t].total
    OBVIOUS
  <2>1. PICK drops \in PayAmount, force \in BOOLEAN : PaySign(t, drops, force)
    <3>1. ~(UNCHANGED vars) /\ ~PayeeRestart
      BY DEF vars, PayeeRestart, payerVars
    <3>2. ~PayerRestart
      BY DEF PayerRestart, Idle, Thread
    <3>3. ASSUME NEW m \in wire PROVE ~PayeeStep(m)
      BY <1>1 DEF PayeeStep, OnChanOpen, OnChanOpenFails, OnClaim, OnClaimRejected, Answered, TypeOK,
         Thread, Request
    <3>4. ASSUME NEW s \in OpenThread PROVE ~OpenStep(s)
      BY <1>1, PayAssumption DEF OpenStep, OpenCheck, OpenSubmit, OpenFails, OpenSave, TypeOK, Thread
    <3>5. ASSUME NEW s \in Thread PROVE ~LinkStep(s)
      BY <1>1 DEF LinkStep, PeerSend, PeerTimeout, PayReply, TypeOK, Thread, Idle
    <3>6. ASSUME NEW s \in PayThread, PayStep(s) PROVE s = t
      BY <1>1, <3>6 DEF PayStep, PaySign, TypeOK, Thread
    <3> QED BY <1>1, <3>1, <3>2, <3>3, <3>4, <3>5, <3>6 DEF Next, PayStep
  <2>2. thr'[t].total = out.drops + drops
    BY <1>1, <2>1 DEF PaySign, TypeOK, Thread
  <2>3. y[2] <= inDisk.drops /\ inDisk.drops <= out.drops
    BY <1>1 DEF KeepInv, AckedIsKept, Saved, CounterInv, Covered, TypeOK, Book
  <2>4. y[2] \in Nat /\ inDisk.drops \in Nat /\ out.drops \in Nat /\ drops \in Nat
    BY <1>1, PayAssumption DEF TypeOK, Book
  <2> QED BY <2>2, <2>3, <2>4
<1> QED BY <1>1, CounterInvariant, PTL DEF Spec, NeverSignsBelowAcked
=============================================================================
