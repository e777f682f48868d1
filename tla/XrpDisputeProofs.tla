-------------------------- MODULE XrpDisputeProofs --------------------------
(***************************************************************************)
(* Proofs about closing a channel of the XRP arm, for every funding, every *)
(* settle delay and every way to set up the arm.                           *)
(***************************************************************************)
EXTENDS XrpDispute, TLAPS

-----------------------------------------------------------------------------
(* Who changes what.                                                       *)

(* Every variable is changed by the steps named here, and by no other.     *)

USE DEF Next, Step, PayerStep, RedeemStep, WatcherStep, PushStep, TowerStep, FailureStep, CloseStep, ApplyTx,
        PayerRequest, PayerSeesGone, PayerFinalize, PayerCrash, OnClaim, CtlRedeem, WatcherRedeem, RedeemSubmit,
        RedeemDone, RedeemFailed, WatcherSeesGone, WatcherSeesOpen, WatcherPolls, PushStart, PushTicket, PushTicketed,
        PushAcked, TicketFails, PushFails, PushAgain, SendBest, PayeeCrash, PayeeRestart, TowerReceive, TowerSeesGone,
        TowerSeesQuiet, TowerSeesScheduled, TowerPolls, TowerSubmit, TowerValidated, TowerGivesUp, TowerCrash,
        TowerRestart, StartClose, ApplyTicket, ApplyRedeem, ApplyBlob, ApplyPayer, Scheduling, EndClose,
        chainVars, fileVars, threadVars, payeeVars, towerVars, payerVars, history, moving, vars

\* The ledger and its open transactions.
LEMMA LedgerFrame ==
  ASSUME [Next]_vars
  PROVE  /\ setup' = setup
         /\ chan' # chan => closing /\ (EndClose \/ \E x \in pool : ApplyRedeem(x) \/ ApplyBlob(x) \/ ApplyPayer(x))
         /\ pool' # pool => \/ /\ ~closing
                               /\ \/ PayerRequest \/ PayerFinalize \/ PayerCrash \/ RedeemSubmit \/ PushTicket
                                  \/ TicketFails \/ PayeeCrash \/ TowerSubmit
                            \/ closing /\ \E x \in pool : ApplyTx(x)
         /\ closing' # closing => (~closing /\ StartClose) \/ (closing /\ EndClose)
         /\ <<spent, blobRes>>' # <<spent, blobRes>> => closing /\ \E x \in pool : ApplyBlob(x)
  BY ZenonT(60)

\* The payee's file.
LEMMA FileFrame ==
  ASSUME [Next]_vars
  PROVE  /\ best' # best => ~closing /\ \E amt \in Amount : OnClaim(amt)
         /\ <<redeemed, inClosed>>' # <<redeemed, inClosed>> => ~closing /\ (RedeemDone \/ WatcherSeesGone)
         /\ towerDrops' # towerDrops => ~closing /\ PushAcked
         /\ hasTicket' # hasTicket => ~closing /\ PushTicketed
  BY ZenonT(60)

\* The payee's threads.
LEMMA ThreadFrame ==
  ASSUME [Next]_vars
  PROVE  /\ payeeUp' # payeeUp => ~closing /\ (PayeeCrash \/ PayeeRestart)
         /\ watched' # watched => \/ ~closing /\ (RedeemDone \/ RedeemFailed \/ WatcherStep \/ PayeeRestart)
                                  \/ closing /\ EndClose
         /\ want' # want => ~closing /\ (WatcherRedeem \/ WatcherSeesOpen \/ PayeeCrash)
         /\ job' # job => \/ ~closing /\ ((\E close \in BOOLEAN : CtlRedeem(close)) \/ RedeemStep \/ PayeeCrash)
                          \/ closing /\ \E x \in pool : ApplyRedeem(x)
         /\ push' # push => \/ /\ ~closing
                               /\ \/ PushStep \/ TicketFails \/ PushFails \/ PayeeCrash
                                  \/ \E amt \in mail : TowerReceive(amt)
                            \/ closing /\ \E x \in pool : ApplyTicket(x)
         /\ notify' # notify => /\ ~closing
                                /\ \/ PushStart \/ TicketFails \/ PushFails \/ PayeeCrash \/ PayeeRestart
                                   \/ \E amt \in Amount : OnClaim(amt)
  BY ZenonT(60)

\* The tower and what is on its way to it.
LEMMA TowerFrame ==
  ASSUME [Next]_vars
  PROVE  /\ mail' # mail => /\ ~closing
                            /\ PushStart \/ PushTicketed \/ TowerCrash \/ \E amt \in mail : TowerReceive(amt)
         /\ rec' # rec => /\ ~closing
                          /\ TowerSeesGone \/ TowerSeesScheduled \/ TowerValidated \/ \E amt \in mail : TowerReceive(amt)
         /\ towerUp' # towerUp => ~closing /\ (TowerCrash \/ TowerRestart)
         /\ polled' # polled => (~closing /\ (TowerStep \/ TowerRestart)) \/ (closing /\ EndClose)
         /\ <<tpc, hash>>' # <<tpc, hash>> =>
              ~closing /\ (TowerSeesScheduled \/ TowerSubmit \/ TowerValidated \/ TowerGivesUp \/ TowerCrash)
  BY ZenonT(60)

\* The payer and the history.
LEMMA HistoryFrame ==
  ASSUME [Next]_vars
  PROVE  /\ <<ppc, outClosed>>' # <<ppc, outClosed>> => PayerStep \/ PayerCrash \/ \E x \in pool : ApplyPayer(x)
         /\ <<covered, owed>>' # <<covered, owed>> => closing /\ \E x \in pool : ApplyPayer(x)
         /\ outage' # outage => (~closing /\ StartClose) \/ (closing /\ \E x \in pool : ApplyPayer(x))
         /\ torn' # torn => (~closing /\ TowerCrash) \/ (closing /\ \E x \in pool : ApplyPayer(x))
         /\ away' # away => (~closing /\ PayeeCrash) \/ (closing /\ \E x \in pool : ApplyPayer(x))
         /\ quit' # quit => ~closing /\ \E close \in BOOLEAN : CtlRedeem(close)
  BY ZenonT(60)

HIDE DEF Next, Step, PayerStep, RedeemStep, WatcherStep, PushStep, TowerStep, FailureStep, CloseStep, ApplyTx,
        PayerRequest, PayerSeesGone, PayerFinalize, PayerCrash, OnClaim, CtlRedeem, WatcherRedeem, RedeemSubmit,
        RedeemDone, RedeemFailed, WatcherSeesGone, WatcherSeesOpen, WatcherPolls, PushStart, PushTicket, PushTicketed,
        PushAcked, TicketFails, PushFails, PushAgain, SendBest, PayeeCrash, PayeeRestart, TowerReceive, TowerSeesGone,
        TowerSeesQuiet, TowerSeesScheduled, TowerPolls, TowerSubmit, TowerValidated, TowerGivesUp, TowerCrash,
        TowerRestart, StartClose, ApplyTicket, ApplyRedeem, ApplyBlob, ApplyPayer, Scheduling, EndClose,
        chainVars, fileVars, threadVars, payeeVars, towerVars, payerVars, history, moving, vars

-----------------------------------------------------------------------------
(* Types.                                                                  *)

\* The ledger's rules keep an entry an entry; an entry that is gone stays so,
\* what was paid stays paid, and a closure stays scheduled.
LEMMA EntryFacts ==
  ASSUME NEW ch \in Entry, NEW amt \in 0..Funding, NEW close \in BOOLEAN,
         NEW after \in {AfterPayeeClaim(ch, amt, close), AfterPayerClose(ch), Aged(ch)}
  PROVE  /\ after \in Entry
         /\ after.open => ch.open
         /\ after.balance >= ch.balance
         /\ ch.scheduled => after.scheduled
<1> DEFINE Good(e) == /\ e \in Entry /\ (e.open => ch.open) /\ e.balance >= ch.balance
                      /\ (ch.scheduled => e.scheduled)
<1>0. /\ Funding \in Nat /\ SettleDelay \in Nat /\ ch.balance \in Nat /\ ch.left \in Nat
      /\ ch.open \in BOOLEAN /\ ch.scheduled \in BOOLEAN
  BY LedgerAssumption DEF Entry
<1>1. Good(ch) /\ Good(Deleted(ch))
  <2>1. Deleted(ch) \in Entry
    BY <1>0 DEF Entry, Deleted
  <2>2. ~Deleted(ch).open /\ Deleted(ch).balance = ch.balance /\ Deleted(ch).scheduled = ch.scheduled
    BY DEF Entry, Deleted
  <2>3. ch.balance >= ch.balance
    BY <1>0
  <2> QED BY <2>1, <2>2, <2>3
<1>2. Good(AfterPayeeClaim(ch, amt, close))
  <2>1. CASE PayeeClaimOK(ch, amt) /\ ~Expired(ch)
    <3> DEFINE b == IF amt > 0 THEN amt ELSE ch.balance
    <3>1. b \in Nat /\ b >= ch.balance /\ ch.open
      BY <1>0, <2>1 DEF PayeeClaimOK, Unfunded
    <3>2. AfterPayeeClaim(ch, amt, close) = [ch EXCEPT !.balance = b, !.open = ~close]
      BY <2>1 DEF AfterPayeeClaim
    <3> HIDE DEF b
    <3>3. Good([ch EXCEPT !.balance = b, !.open = ~close])
      BY <1>0, <3>1 DEF Entry
    <3> QED BY <3>2, <3>3
  <2>2. CASE ~PayeeClaimOK(ch, amt) \/ Expired(ch)
    BY <1>1, <2>2 DEF AfterPayeeClaim
  <2> QED BY <2>1, <2>2
<1>3. Good(AfterPayerClose(ch))
  <2>1. CASE ch.open /\ ~Expired(ch) /\ ch.balance # Funding
    <3> DEFINE l == IF ch.scheduled /\ ch.left < SettleDelay THEN ch.left ELSE SettleDelay
    <3>1. l \in Nat
      BY <1>0
    <3>2. AfterPayerClose(ch) = [ch EXCEPT !.scheduled = TRUE, !.left = l]
      BY <2>1 DEF AfterPayerClose
    <3> HIDE DEF l
    <3> DEFINE e == [ch EXCEPT !.scheduled = TRUE, !.left = l]
    <3>3. e \in Entry
      BY <1>0, <3>1 DEF Entry
    <3>4. e.open = ch.open /\ e.balance = ch.balance /\ e.scheduled
      BY DEF Entry
    <3>5. ch.balance >= ch.balance
      BY <1>0
    <3> HIDE DEF e
    <3>6. Good(e)
      BY <3>3, <3>4, <3>5
    <3> QED BY <3>2, <3>6 DEF e
  <2>2. CASE ~(ch.open /\ ~Expired(ch) /\ ch.balance # Funding)
    BY <1>1, <2>2 DEF AfterPayerClose
  <2> QED BY <2>1, <2>2
<1>4. Good(Aged(ch))
  BY <1>0 DEF Aged, Entry
<1> QED BY <1>2, <1>3, <1>4

\* A transaction of the open ledger.
LEMMA PoolFacts ==
  ASSUME TypeOK, NEW x \in pool
  PROVE  x \in Tx /\ x.amt \in 0..Funding /\ x.close \in BOOLEAN /\ x.live \in BOOLEAN
  BY DEF TypeOK, Tx

\* The entry, over any step.
LEMMA ChanLater ==
  ASSUME TypeOK, [Next]_vars
  PROVE  /\ chan \in Entry /\ chan' \in Entry
         /\ chan'.open => chan.open
         /\ chan'.balance >= chan.balance
         /\ chan.scheduled => chan'.scheduled
<1>0. chan \in Entry /\ 0 \in 0..Funding /\ chan.balance \in Nat
  BY LedgerAssumption DEF TypeOK, Entry
<1>1. CASE chan' = chan
  BY <1>0, <1>1
<1>2. CASE EndClose
  BY <1>0, <1>2, EntryFacts DEF EndClose
<1>3. ASSUME NEW x \in pool, ApplyRedeem(x) \/ ApplyBlob(x) \/ ApplyPayer(x)
      PROVE  /\ chan \in Entry /\ chan' \in Entry /\ (chan'.open => chan.open)
             /\ chan'.balance >= chan.balance /\ (chan.scheduled => chan'.scheduled)
  <2>1. x.amt \in 0..Funding /\ x.close \in BOOLEAN /\ TRUE \in BOOLEAN
    BY PoolFacts
  <2>2. \/ chan' = chan \/ chan' = AfterPayeeClaim(chan, x.amt, x.close)
        \/ chan' = AfterPayeeClaim(chan, x.amt, TRUE) \/ chan' = AfterPayerClose(chan)
    BY <1>3 DEF ApplyRedeem, ApplyBlob, ApplyPayer
  <2>3. chan.balance >= chan.balance
    BY <1>0
  <2>4. CASE chan' = chan
    BY <1>0, <2>3, <2>4
  <2>5. CASE chan' = AfterPayeeClaim(chan, x.amt, x.close)
    BY <1>0, <2>1, <2>5, EntryFacts
  <2>6. CASE chan' = AfterPayeeClaim(chan, x.amt, TRUE)
    BY <1>0, <2>1, <2>6, EntryFacts
  <2>7. CASE chan' = AfterPayerClose(chan)
    BY <1>0, <2>1, <2>7, EntryFacts
  <2> QED BY <2>2, <2>4, <2>5, <2>6, <2>7
<1> QED BY <1>1, <1>2, <1>3, LedgerFrame

ChainOK == /\ chan \in Entry /\ pool \subseteq Tx /\ closing \in BOOLEAN /\ spent \in BOOLEAN
           /\ blobRes \in [Amount -> Result] /\ setup \in Setups

FileOK == /\ best \in 0..Funding /\ redeemed \in 0..Funding /\ towerDrops \in 0..Funding
          /\ hasTicket \in BOOLEAN /\ inClosed \in BOOLEAN

ThreadOK == /\ payeeUp \in BOOLEAN /\ watched \in BOOLEAN /\ want \in BOOLEAN /\ notify \in BOOLEAN
            /\ job \in [pc : {"none", "ready", "sent", "ok", "failed"}, amt : 0..Funding,
                        close : BOOLEAN, before : Nat]
            /\ push \in [pc : {"idle", "needTicket", "ticket", "ticketed", "wait", "acked"}, amt : 0..Funding]

TowerOK == /\ mail \subseteq Amount
           /\ rec \in [amt : 0..Funding, submitted : BOOLEAN, done : BOOLEAN, result : Result]
           /\ towerUp \in BOOLEAN /\ polled \in BOOLEAN
           /\ tpc \in {"idle", "submit", "await"} /\ hash \in 0..Funding

HistoryOK == /\ ppc \in {"idle", "sent", "poll"} /\ outClosed \in BOOLEAN
             /\ covered \in 0..Funding /\ owed \in 0..Funding
             /\ outage \in BOOLEAN /\ torn \in BOOLEAN /\ away \in BOOLEAN /\ quit \in BOOLEAN

LEMMA TypeParts == /\ TypeOK <=> ChainOK /\ FileOK /\ ThreadOK /\ TowerOK /\ HistoryOK
                   /\ TypeOK' <=> ChainOK' /\ FileOK' /\ ThreadOK' /\ TowerOK' /\ HistoryOK'
  BY Zenon DEF TypeOK, ChainOK, FileOK, ThreadOK, TowerOK, HistoryOK

LEMMA InitType == Init => TypeOK
<1> SUFFICES ASSUME Init PROVE TypeOK
  OBVIOUS
<1>0. 0 \in 0..Funding /\ HasTower \in BOOLEAN
  BY LedgerAssumption, DisputeAssumption DEF Init, HasTower
<1>1. ChainOK
  BY DEF Init, ChainOK, NewEntry, Entry, Result
<1>2. FileOK
  BY <1>0 DEF Init, FileOK
<1>3. ThreadOK
  BY <1>0 DEF Init, ThreadOK, NoJob
<1>4. TowerOK
  BY <1>0 DEF Init, TowerOK, NoRec, Result
<1>5. HistoryOK
  BY <1>0 DEF Init, HistoryOK
<1> QED BY <1>1, <1>2, <1>3, <1>4, <1>5, TypeParts

\* A transaction whose submitter may have died.
LEMMA Forgotten ==
  ASSUME NEW x \in Tx, NEW b \in BOOLEAN, NEW y, y = [x EXCEPT !.live = @ /\ b]
  PROVE  /\ y \in Tx /\ y.kind = x.kind /\ y.amt = x.amt /\ y.close = x.close
         /\ y.live => b
         /\ b => y = x
<1>1. y \in Tx
  BY DEF Tx
<1>2. y.kind = x.kind /\ y.amt = x.amt /\ y.close = x.close /\ (y.live => b)
  BY DEF Tx
<1>3. ASSUME b PROVE y = x
  <2>1. x.live \in BOOLEAN
    BY DEF Tx
  <2>2. (x.live /\ b) = x.live
    BY <1>3, <2>1
  <2>3. y = [x EXCEPT !.live = x.live]
    BY <2>2
  <2> QED BY <2>3 DEF Tx
<1> QED BY <1>1, <1>2, <1>3

\* A process that dies no longer waits for what it submitted.  The open ledger
\* keeps that, and the live transactions of the others.
LEMMA Forgets ==
  ASSUME TypeOK, PayerCrash \/ TicketFails \/ PayeeCrash
  PROVE  /\ pool' \subseteq Tx
         /\ \A y \in pool' : \E x \in pool : /\ y.kind = x.kind /\ y.amt = x.amt /\ y.close = x.close
                                             /\ y.live => y = x
         /\ \A x \in pool : \E y \in pool' : y.kind = x.kind
         /\ ~PayeeCrash => \A x \in pool : x.kind = "redeem" => x \in pool'
         /\ PayeeCrash => \A y \in pool' : y.kind = "redeem" => ~y.live
<1>0. \A x \in pool : x \in Tx
  BY DEF TypeOK
<1> DEFINE keeps(x) == CASE PayeeCrash -> x.kind = "payer"
                         [] ~PayeeCrash /\ PayerCrash -> x.kind # "payer"
                         [] ~PayeeCrash /\ ~PayerCrash -> x.kind # "ticket"
           now(x) == [x EXCEPT !.live = @ /\ keeps(x)]
<1>2. pool' = {now(x) : x \in pool}
  <2>1. CASE PayeeCrash
    BY <2>1 DEF PayeeCrash
  <2>2. CASE ~PayeeCrash /\ PayerCrash
    BY <2>2 DEF PayerCrash
  <2>3. CASE ~PayeeCrash /\ ~PayerCrash
    BY <2>3 DEF TicketFails
  <2> QED BY <2>1, <2>2, <2>3
<1>3. ASSUME NEW x \in pool PROVE keeps(x) \in BOOLEAN
  OBVIOUS
<1>4. ASSUME NEW x \in pool
      PROVE  /\ now(x) \in Tx /\ now(x).kind = x.kind /\ now(x).amt = x.amt /\ now(x).close = x.close
             /\ now(x).live => keeps(x)
             /\ keeps(x) => now(x) = x
  <2> HIDE DEF keeps
  <2> QED BY <1>0, <1>3, Forgotten
<1>5. ASSUME NEW x \in pool, x.kind = "redeem" PROVE keeps(x) <=> ~PayeeCrash
  BY <1>5
<1> HIDE DEF keeps, now
<1> QED BY <1>2, <1>4, <1>5

LEMMA ChainType ==
  ASSUME TypeOK, [Next]_vars
  PROVE  ChainOK'
<1>1. chan' \in Entry
  BY ChanLater
<1>2. pool' \subseteq Tx
  <2>1. CASE pool' = pool
    BY <2>1 DEF TypeOK
  <2>2. CASE PayerCrash \/ TicketFails \/ PayeeCrash
    BY <2>2, Forgets
  <2>3. ASSUME NEW x \in pool, ApplyTx(x) PROVE pool' \subseteq Tx
    BY <2>3 DEF ApplyTx, ApplyTicket, ApplyRedeem, ApplyBlob, ApplyPayer, TypeOK
  <2>4. CASE PayerRequest \/ PayerFinalize \/ RedeemSubmit \/ PushTicket \/ TowerSubmit
    <3>1. /\ PayerTx \in Tx /\ TicketTx \in Tx /\ ClaimTx(job.amt, job.close) \in Tx /\ BlobTx(hash) \in Tx
      BY LedgerAssumption DEF PayerTx, TicketTx, ClaimTx, BlobTx, Tx, TypeOK
    <3> QED BY <2>4, <3>1 DEF PayerRequest, PayerFinalize, RedeemSubmit, PushTicket, TowerSubmit, TypeOK
  <2> QED BY <2>1, <2>2, <2>3, <2>4, LedgerFrame
<1>3. closing' \in BOOLEAN
  BY LedgerFrame DEF StartClose, EndClose, TypeOK
<1>4. spent' \in BOOLEAN /\ blobRes' \in [Amount -> Result]
  <2>1. CASE <<spent, blobRes>>' = <<spent, blobRes>>
    BY <2>1 DEF TypeOK
  <2>2. ASSUME NEW x \in pool, ApplyBlob(x) PROVE spent' \in BOOLEAN /\ blobRes' \in [Amount -> Result]
    BY <2>2 DEF ApplyBlob, TypeOK, Result
  <2> QED BY <2>1, <2>2, LedgerFrame
<1>5. setup' \in Setups
  BY LedgerFrame DEF TypeOK
<1> QED BY <1>1, <1>2, <1>3, <1>4, <1>5 DEF ChainOK

LEMMA FileType ==
  ASSUME TypeOK, [Next]_vars
  PROVE  FileOK'
<1>0. \A a, b \in 0..Funding : MaxOf(a, b) \in 0..Funding
  BY DEF MaxOf
<1>1. best' \in 0..Funding
  BY FileFrame, LedgerAssumption DEF OnClaim, TypeOK, Amount
<1>2. redeemed' \in 0..Funding /\ inClosed' \in BOOLEAN
  <2>1. CASE <<redeemed, inClosed>>' = <<redeemed, inClosed>>
    BY <2>1 DEF TypeOK
  <2>2. CASE RedeemDone
    BY <1>0, <2>2 DEF RedeemDone, TypeOK
  <2>3. CASE WatcherSeesGone
    BY <1>0, <2>3 DEF WatcherSeesGone, TypeOK
  <2> QED BY <2>1, <2>2, <2>3, FileFrame
<1>3. towerDrops' \in 0..Funding
  BY <1>0, FileFrame DEF PushAcked, TypeOK
<1>4. hasTicket' \in BOOLEAN
  BY FileFrame DEF PushTicketed, TypeOK
<1> QED BY <1>1, <1>2, <1>3, <1>4 DEF FileOK

LEMMA ThreadType ==
  ASSUME TypeOK, [Next]_vars
  PROVE  ThreadOK'
<1>0. HasTower \in BOOLEAN /\ chan.scheduled \in BOOLEAN /\ chan.balance \in Nat /\ 0 \in 0..Funding
  BY LedgerAssumption, DisputeAssumption DEF TypeOK, HasTower, Entry
<1>1. payeeUp' \in BOOLEAN
  BY ThreadFrame DEF PayeeCrash, PayeeRestart, TypeOK
<1>2. watched' \in BOOLEAN
  BY ThreadFrame DEF RedeemDone, RedeemFailed, WatcherStep, WatcherSeesGone, WatcherSeesOpen, WatcherPolls,
                     PayeeRestart, EndClose, TypeOK
<1>3. want' \in BOOLEAN
  BY ThreadFrame DEF WatcherRedeem, WatcherSeesOpen, PayeeCrash, TypeOK
<1>4. notify' \in BOOLEAN
  BY <1>0, ThreadFrame DEF PushStart, TicketFails, PushFails, PushAgain, PayeeCrash, PayeeRestart, OnClaim, TypeOK
<1>5. job' \in [pc : {"none", "ready", "sent", "ok", "failed"}, amt : 0..Funding, close : BOOLEAN, before : Nat]
  <2>1. CASE job' = job
    BY <2>1 DEF TypeOK
  <2>2. CASE job' = NoJob
    BY <1>0, <2>2 DEF NoJob
  <2>3. ASSUME NEW close \in BOOLEAN, StartRedeem(close)
        PROVE  job' \in [pc : {"none", "ready", "sent", "ok", "failed"}, amt : 0..Funding, close : BOOLEAN, before : Nat]
    BY <1>0, <2>3 DEF StartRedeem, TypeOK
  <2>4. ASSUME NEW pc \in {"sent", "ok", "failed"}, job' = [job EXCEPT !.pc = pc]
        PROVE  job' \in [pc : {"none", "ready", "sent", "ok", "failed"}, amt : 0..Funding, close : BOOLEAN, before : Nat]
    BY <2>4 DEF TypeOK
  <2>5. \/ job' = job \/ job' = NoJob \/ (\E close \in BOOLEAN : StartRedeem(close))
        \/ \E pc \in {"sent", "ok", "failed"} : job' = [job EXCEPT !.pc = pc]
    BY ThreadFrame DEF CtlRedeem, RedeemStep, WatcherRedeem, RedeemSubmit, RedeemDone, RedeemFailed, PayeeCrash, ApplyRedeem
  <2> QED BY <2>1, <2>2, <2>3, <2>4, <2>5
<1>6. push' \in [pc : {"idle", "needTicket", "ticket", "ticketed", "wait", "acked"}, amt : 0..Funding]
  <2>1. ASSUME NEW pc \in {"idle", "needTicket", "ticket", "ticketed", "wait", "acked"}, NEW a \in 0..Funding,
               push' = [push EXCEPT !.pc = pc] \/ push' = [pc |-> pc, amt |-> a] \/ push' = push
        PROVE  push' \in [pc : {"idle", "needTicket", "ticket", "ticketed", "wait", "acked"}, amt : 0..Funding]
    BY <2>1 DEF TypeOK
  <2>2. \/ push' = push \/ push' = [pc |-> "wait", amt |-> best] \/ push' = [pc |-> "idle", amt |-> 0]
        \/ \E pc \in {"idle", "needTicket", "ticket", "ticketed", "acked"} : push' = [push EXCEPT !.pc = pc]
    BY ThreadFrame DEF PushStep, PushStart, PushTicket, PushTicketed, PushAcked, SendBest, TicketFails, PushFails,
                       PushAgain, PayeeCrash, TowerReceive, ApplyTicket
  <2>3. best \in 0..Funding
    BY DEF TypeOK
  <2> QED BY <1>0, <2>1, <2>2, <2>3
<1> QED BY <1>1, <1>2, <1>3, <1>4, <1>5, <1>6 DEF ThreadOK

LEMMA TowerType ==
  ASSUME TypeOK, [Next]_vars
  PROVE  TowerOK'
<1>1. mail' \subseteq Amount
  <2>1. SendBest => mail' \subseteq Amount
    BY LedgerAssumption DEF SendBest, TypeOK, Amount
  <2> QED BY <2>1, TowerFrame DEF PushStart, PushTicketed, TowerCrash, TowerReceive, TypeOK
<1>2. rec' \in [amt : 0..Funding, submitted : BOOLEAN, done : BOOLEAN, result : Result]
  <2> DEFINE Recs == [amt : 0..Funding, submitted : BOOLEAN, done : BOOLEAN, result : Result]
  <2>0. rec \in Recs
    BY DEF TypeOK
  <2>1. ASSUME NEW amt \in mail, TowerReceive(amt) PROVE rec' \in Recs
    <3>1. amt \in 0..Funding
      BY LedgerAssumption DEF TypeOK, Amount
    <3>2. rec' = rec \/ rec' = [NoRec EXCEPT !.amt = amt]
      BY <2>1 DEF TowerReceive, TowerStores
    <3> QED BY <2>0, <3>1, <3>2 DEF NoRec, Result
  <2>2. CASE TowerSeesGone \/ TowerSeesScheduled
    BY <2>0, <2>2 DEF TowerSeesGone, TowerSeesScheduled
  <2>3. CASE TowerValidated
    <3>1. blobRes[hash] \in Result
      BY <2>3 DEF TowerValidated, TypeOK
    <3> QED BY <2>0, <2>3, <3>1 DEF TowerValidated
  <2> QED BY <2>0, <2>1, <2>2, <2>3, TowerFrame
<1>3. towerUp' \in BOOLEAN
  BY TowerFrame DEF TowerCrash, TowerRestart, TypeOK
<1>4. polled' \in BOOLEAN
  BY TowerFrame DEF TowerStep, TowerSeesGone, TowerSeesQuiet, TowerSeesScheduled, TowerPolls, TowerSubmit,
                    TowerValidated, TowerGivesUp, TowerRestart, EndClose, TypeOK
<1>5. tpc' \in {"idle", "submit", "await"} /\ hash' \in 0..Funding
  <2>1. CASE <<tpc, hash>>' = <<tpc, hash>>
    BY <2>1 DEF TypeOK
  <2>2. CASE TowerSeesScheduled
    <3>1. rec.amt \in 0..Funding
      BY DEF TypeOK
    <3> QED BY <2>2, <3>1 DEF TowerSeesScheduled
  <2>3. CASE TowerSubmit \/ TowerValidated \/ TowerGivesUp
    BY <2>3 DEF TowerSubmit, TowerValidated, TowerGivesUp, TypeOK
  <2>4. CASE TowerCrash
    BY <2>4, LedgerAssumption DEF TowerCrash
  <2> QED BY <2>1, <2>2, <2>3, <2>4, TowerFrame
<1> QED BY <1>1, <1>2, <1>3, <1>4, <1>5 DEF TowerOK

LEMMA HistoryType ==
  ASSUME TypeOK, [Next]_vars
  PROVE  HistoryOK'
<1>1. ppc' \in {"idle", "sent", "poll"} /\ outClosed' \in BOOLEAN
  BY HistoryFrame DEF PayerStep, PayerRequest, PayerSeesGone, PayerFinalize, PayerCrash, ApplyPayer, TypeOK
<1>2. covered' \in 0..Funding /\ owed' \in 0..Funding
  BY HistoryFrame DEF ApplyPayer, Scheduling, history, TypeOK
<1>3. outage' \in BOOLEAN
  BY HistoryFrame DEF StartClose, ApplyPayer, Scheduling, history, TypeOK
<1>4. torn' \in BOOLEAN
  BY HistoryFrame DEF TowerCrash, ApplyPayer, Scheduling, history, TypeOK
<1>5. away' \in BOOLEAN
  BY HistoryFrame DEF PayeeCrash, ApplyPayer, Scheduling, history, TypeOK
<1>6. quit' \in BOOLEAN
  BY HistoryFrame DEF CtlRedeem, TypeOK
<1> QED BY <1>1, <1>2, <1>3, <1>4, <1>5, <1>6 DEF HistoryOK

LEMMA TypeStep == TypeOK /\ [Next]_vars => TypeOK'
  BY ChainType, FileType, ThreadType, TowerType, HistoryType, TypeParts

\* Every variable of the closing protocol keeps its type; in particular no
\* amount ever exceeds the funding of the channel, whatever is redeemed, pushed
\* or submitted again (redeem, tower_push, submit_blob).
THEOREM TypeCorrect == Spec => []TypeOK
  BY InitType, TypeStep, PTL DEF Spec

-----------------------------------------------------------------------------
(* What the tower holds.                                                   *)

\* The tower's record follows the claims of the payee, and is given up only
\* when the entry is gone.
Handed ==
  /\ rec.amt <= best
  /\ \A a \in mail : a <= best
  /\ rec.done => ~chan.open
  /\ \A a \in Amount : blobRes[a] = "tesSUCCESS" => ~chan.open
  /\ chan.open => towerDrops <= rec.amt
  /\ chan.open /\ push.pc = "acked" => push.amt <= rec.amt

LEMMA BestGrows ==
  ASSUME TypeOK, [Next]_vars
  PROVE  best \in Nat /\ best' \in Nat /\ best' >= best
<1>1. best \in Nat /\ best' \in Nat
  BY TypeStep, LedgerAssumption DEF TypeOK
<1>2. ASSUME NEW amt \in Amount, OnClaim(amt) PROVE best' >= best
  <2>1. amt \in Nat /\ amt > best /\ best' = amt
    BY <1>2, LedgerAssumption DEF OnClaim, Amount
  <2> QED BY <1>1, <2>1
<1>3. CASE best' = best
  BY <1>1, <1>3
<1> QED BY <1>1, <1>2, <1>3, FileFrame

\* The record of an open channel never shrinks: a message replaces it only by
\* a higher claim.
LEMMA RecGrows ==
  ASSUME TypeOK, Handed, [Next]_vars
  PROVE  /\ rec.amt \in Nat /\ rec'.amt \in Nat
         /\ chan.open => rec'.amt >= rec.amt
         /\ rec'.amt = rec.amt \/ rec'.amt \in mail
<1>0. rec.amt \in Nat /\ \A a \in mail : a \in Nat
  BY LedgerAssumption DEF TypeOK, Amount
<1>1. CASE rec' = rec
  BY <1>0, <1>1
<1>2. CASE TowerSeesGone \/ TowerSeesScheduled \/ TowerValidated
  <2>1. rec'.amt = rec.amt
    BY <1>2 DEF TowerSeesGone, TowerSeesScheduled, TowerValidated, TypeOK
  <2> QED BY <1>0, <2>1
<1>3. ASSUME NEW amt \in mail, TowerReceive(amt)
      PROVE  /\ rec'.amt \in Nat /\ (chan.open => rec'.amt >= rec.amt)
             /\ rec'.amt = rec.amt \/ rec'.amt \in mail
  <2>1. CASE rec.amt >= amt /\ ~rec.done
    BY <1>0, <1>3, <2>1 DEF TowerReceive, TowerStores
  <2>2. CASE ~(rec.amt >= amt /\ ~rec.done)
    <3>1. rec'.amt = amt
      BY <1>3, <2>2 DEF TowerReceive, TowerStores, NoRec
    <3>2. chan.open => ~rec.done
      BY DEF Handed
    <3> QED BY <1>0, <2>2, <3>1, <3>2
  <2> QED BY <2>1, <2>2
<1> QED BY <1>0, <1>1, <1>2, <1>3, TowerFrame

LEMMA InitHanded == Init => Handed
  BY LedgerAssumption DEF Init, Handed, NoRec, NewEntry

LEMMA HandedStep ==
  ASSUME TypeOK, Handed, [Next]_vars
  PROVE  Handed'
<1>0. chan'.open => chan.open
  BY ChanLater
<1>1. rec'.amt <= best'
  <2>1. rec.amt <= best /\ \A a \in mail : a <= best
    BY DEF Handed
  <2>2. rec'.amt <= best
    BY <2>1, RecGrows
  <2> QED BY <2>2, RecGrows, BestGrows
<1>2. \A a \in mail' : a <= best'
  <2>1. mail' \subseteq mail \cup {best}
    BY TowerFrame DEF PushStart, PushTicketed, SendBest, TowerCrash, TowerReceive
  <2>2. \A a \in mail \cup {best} : a \in Nat /\ a <= best
    BY BestGrows, LedgerAssumption DEF Handed, TypeOK, Amount
  <2> QED BY <2>1, <2>2, BestGrows
<1>3. rec'.done => ~chan'.open
  <2>1. CASE rec' = rec
    BY <1>0, <2>1 DEF Handed
  <2>2. CASE TowerSeesGone
    BY <1>0, <2>2 DEF TowerSeesGone
  <2>3. CASE TowerSeesScheduled
    BY <1>0, <2>3 DEF TowerSeesScheduled, Handed, TypeOK
  <2>4. CASE TowerValidated
    <3>1. rec'.done => blobRes[hash] = "tesSUCCESS"
      BY <2>4 DEF TowerValidated, TypeOK
    <3> QED BY <1>0, <2>4, <3>1 DEF TowerValidated, Handed
  <2>5. ASSUME NEW amt \in mail, TowerReceive(amt) PROVE rec'.done => ~chan'.open
    BY <1>0, <2>5 DEF TowerReceive, TowerStores, NoRec, Handed
  <2> QED BY <2>1, <2>2, <2>3, <2>4, <2>5, TowerFrame
<1>4. \A a \in Amount : blobRes'[a] = "tesSUCCESS" => ~chan'.open
  <2>1. CASE blobRes' = blobRes
    BY <1>0, <2>1 DEF Handed
  <2>2. ASSUME NEW x \in pool, ApplyBlob(x), NEW a \in Amount, blobRes'[a] = "tesSUCCESS" PROVE ~chan'.open
    <3>1. CASE blobRes[a] = "tesSUCCESS"
      BY <1>0, <3>1 DEF Handed
    <3>2. CASE blobRes[a] # "tesSUCCESS"
      <4>1. PayeeClaimOK(chan, x.amt) /\ chan' = AfterPayeeClaim(chan, x.amt, TRUE)
        BY <2>2, <3>2 DEF ApplyBlob, TypeOK
      <4> QED BY <4>1, ChanLater DEF AfterPayeeClaim, Deleted, Entry
    <3> QED BY <3>1, <3>2
  <2> QED BY <2>1, <2>2, LedgerFrame
<1>5. chan'.open => towerDrops' <= rec'.amt
  <2> SUFFICES ASSUME chan'.open PROVE towerDrops' <= rec'.amt
    OBVIOUS
  <2>1. towerDrops \in Nat /\ push.amt \in Nat /\ rec'.amt >= rec.amt /\ rec.amt \in Nat /\ rec'.amt \in Nat
    BY <1>0, RecGrows, LedgerAssumption DEF TypeOK
  <2>2. towerDrops' \in Nat /\ towerDrops' <= rec.amt
    <3>1. CASE towerDrops' = towerDrops
      BY <1>0, <2>1, <3>1 DEF Handed
    <3>2. CASE PushAcked
      BY <1>0, <2>1, <3>2 DEF PushAcked, MaxOf, Handed
    <3> QED BY <3>1, <3>2, FileFrame
  <2> QED BY <2>1, <2>2
<1>6. chan'.open /\ push'.pc = "acked" => push'.amt <= rec'.amt
  <2> SUFFICES ASSUME chan'.open, push'.pc = "acked" PROVE push'.amt <= rec'.amt
    OBVIOUS
  <2>1. push.amt \in Nat /\ rec'.amt >= rec.amt /\ rec.amt \in Nat /\ rec'.amt \in Nat
    BY <1>0, RecGrows, LedgerAssumption DEF TypeOK
  <2>2. CASE push' = push
    BY <1>0, <2>1, <2>2 DEF Handed
  <2>3. ASSUME NEW amt \in mail, TowerReceive(amt), push' # push PROVE push'.amt <= rec'.amt
    <3>1. push'.amt = amt
      BY <2>3 DEF TowerReceive, TypeOK
    <3>2. amt \in Nat /\ rec'.amt >= amt
      BY <2>3, LedgerAssumption DEF TowerReceive, TowerStores, NoRec, TypeOK, Amount
    <3> QED BY <2>1, <3>1, <3>2
  <2>4. ASSUME NEW x \in pool, ApplyTicket(x), push' # push PROVE FALSE
    BY <2>4 DEF ApplyTicket, TypeOK
  <2>5. CASE PushStep \/ TicketFails \/ PushFails \/ PayeeCrash
    <3>1. \/ push' = push \/ push' = [pc |-> "wait", amt |-> best] \/ push' = [pc |-> "idle", amt |-> 0]
          \/ \E pc \in {"idle", "needTicket", "ticket"} : push' = [push EXCEPT !.pc = pc]
      BY <2>5 DEF PushStep, PushStart, PushTicket, PushTicketed, PushAcked, SendBest, TicketFails, PushFails,
                  PushAgain, PayeeCrash
    <3>2. push' = push \/ push'.pc # "acked"
      BY <3>1 DEF TypeOK
    <3> QED BY <2>2, <3>2
  <2> QED BY <2>2, <2>3, <2>4, <2>5, ThreadFrame
<1> QED BY <1>1, <1>2, <1>3, <1>4, <1>5, <1>6 DEF Handed

\* The payee's note of what the tower holds is true while the channel is open,
\* whatever is lost, repeated or overtaken on the way between tower_push and
\* the tower's on_message, and whoever restarts.
THEOREM HandoverCorrect == Spec => []HandoverIsTrue
<1>1. Init => TypeOK /\ Handed
  BY InitType, InitHanded
<1>2. TypeOK /\ Handed /\ [Next]_vars => (TypeOK /\ Handed)'
  BY TypeStep, HandedStep
<1>3. Handed => HandoverIsTrue
  BY DEF Handed, HandoverIsTrue
<1> QED BY <1>1, <1>2, <1>3, PTL DEF Spec

-----------------------------------------------------------------------------
(* A payee without a tower.                                                *)

\* It has no tower thread, and the tower no record.
Untowered ==
  ~HasTower => /\ ~notify /\ push.pc = "idle" /\ mail = {}
               /\ rec = NoRec /\ tpc = "idle"
               /\ \A x \in pool : x.kind \in {"redeem", "payer"}

LEMMA SameSetup ==
  ASSUME [Next]_vars
  PROVE  HasTower' = HasTower
  BY LedgerFrame DEF HasTower

LEMMA InitUntowered == Init => Untowered
  BY DEF Init, Untowered

LEMMA UntoweredStep ==
  ASSUME TypeOK, Untowered, [Next]_vars
  PROVE  Untowered'
<1> SUFFICES ASSUME ~HasTower
             PROVE  /\ ~notify' /\ push'.pc = "idle" /\ mail' = {} /\ rec' = NoRec /\ tpc' = "idle"
                    /\ \A x \in pool' : x.kind \in {"redeem", "payer"}
  BY SameSetup DEF Untowered
<1>0. /\ ~notify /\ push.pc = "idle" /\ mail = {} /\ rec = NoRec /\ tpc = "idle"
      /\ \A x \in pool : x.kind \in {"redeem", "payer"}
  BY DEF Untowered
<1>1. ~PushStart /\ ~PushTicket /\ ~PushTicketed /\ ~PushAcked /\ ~TicketFails /\ ~PushFails
  BY <1>0 DEF PushStart, PushTicket, PushTicketed, PushAcked, TicketFails, PushFails
<1>2. ~TowerSeesScheduled /\ ~TowerSubmit /\ ~TowerValidated /\ ~TowerGivesUp /\ (TowerSeesGone => rec' = rec)
  <2>1. ~(rec.amt > chan.balance) /\ ~(rec.amt > 0)
    BY <1>0 DEF NoRec, TypeOK, Entry
  <2> QED BY <1>0, <2>1 DEF TowerSeesScheduled, TowerMustSubmit, TowerSubmit, TowerValidated, TowerGivesUp, TowerSeesGone
<1>3. ASSUME NEW x \in pool PROVE ~ApplyTicket(x) /\ ~ApplyBlob(x)
  BY <1>0 DEF ApplyTicket, ApplyBlob
<1>4. ~notify'
  BY <1>0, <1>1, ThreadFrame DEF PayeeCrash, PayeeRestart, OnClaim
<1>5. push'.pc = "idle"
  <2>1. push' = push \/ PayeeCrash
    BY <1>0, <1>1, <1>3, ThreadFrame DEF PushStep
  <2>2. CASE push' = push
    BY <1>0, <2>2
  <2>3. CASE PayeeCrash
    BY <2>3 DEF PayeeCrash
  <2> QED BY <2>1, <2>2, <2>3
<1>6. mail' = {}
  BY <1>0, <1>1, TowerFrame DEF TowerCrash
<1>7. rec' = NoRec
  BY <1>0, <1>2, TowerFrame
<1>8. tpc' = "idle"
  BY <1>0, <1>2, TowerFrame DEF TowerCrash
<1>9. ASSUME NEW y \in pool' PROVE y.kind \in {"redeem", "payer"}
  <2>1. CASE pool' = pool
    BY <1>0, <2>1
  <2>2. CASE PayerRequest \/ PayerFinalize \/ RedeemSubmit
    BY <1>0, <2>2 DEF PayerRequest, PayerFinalize, RedeemSubmit, PayerTx, ClaimTx
  <2>3. CASE PayerCrash \/ PayeeCrash
    BY <1>0, <2>3, Forgets
  <2>4. ASSUME NEW x \in pool, ApplyTx(x) PROVE y \in pool
    BY <2>4 DEF ApplyTx, ApplyTicket, ApplyRedeem, ApplyBlob, ApplyPayer
  <2> QED BY <1>0, <1>1, <1>2, <2>1, <2>2, <2>3, <2>4, LedgerFrame
<1> QED BY <1>4, <1>5, <1>6, <1>7, <1>8, <1>9

-----------------------------------------------------------------------------
(* The redemption under redeem_lock.                                       *)

\* The transaction that redeem waits for is in the open ledger, and no other
\* live one; the payee is up while it waits.
Jobs ==
  /\ job.pc # "none" => payeeUp
  /\ job.pc = "sent" => ClaimTx(job.amt, job.close) \in pool
  /\ \A x \in pool : x.kind = "redeem" /\ x.live => job.pc = "sent" /\ x = ClaimTx(job.amt, job.close)
  /\ closing /\ ~HasTower => job.pc # "ready"

LEMMA InitJobs == Init => Jobs
  BY DEF Init, Jobs, NoJob

\* What a step does to the redemption.
LEMMA JobMoves ==
  ASSUME TypeOK, Jobs, [Next]_vars
  PROVE  \/ job' = job
         \/ ~closing /\ job' = NoJob
         \/ /\ ~closing /\ payeeUp
            /\ \E close \in BOOLEAN : /\ StartRedeem(close)
                                      /\ CtlRedeem(close) \/ (close /\ want /\ WatcherRedeem)
         \/ ~closing /\ RedeemSubmit
         \/ /\ closing /\ job.pc = "sent"
            /\ ApplyRedeem(ClaimTx(job.amt, job.close))
            /\ job' = [job EXCEPT !.pc = IF PayeeClaimOK(chan, job.amt) THEN "ok" ELSE "failed"]
<1>1. CASE job' = job
  BY <1>1
<1>2. CASE ~closing /\ (RedeemDone \/ RedeemFailed \/ PayeeCrash)
  BY <1>2 DEF RedeemDone, RedeemFailed, PayeeCrash
<1>3. CASE ~closing /\ \E close \in BOOLEAN : CtlRedeem(close)
  BY <1>3 DEF CtlRedeem
<1>4. CASE ~closing /\ WatcherRedeem
  BY <1>4 DEF WatcherRedeem
<1>5. ASSUME closing, NEW x \in pool, ApplyRedeem(x), job' # job
      PROVE  /\ job.pc = "sent"
             /\ ApplyRedeem(ClaimTx(job.amt, job.close))
             /\ job' = [job EXCEPT !.pc = IF PayeeClaimOK(chan, job.amt) THEN "ok" ELSE "failed"]
  <2>1. x.live /\ x.kind = "redeem"
    BY <1>5 DEF ApplyRedeem
  <2>2. job.pc = "sent" /\ x = ClaimTx(job.amt, job.close)
    BY <2>1 DEF Jobs
  <2>3. x.amt = job.amt
    BY <2>2 DEF ClaimTx
  <2>4. job' = [job EXCEPT !.pc = IF PayeeClaimOK(chan, job.amt) THEN "ok" ELSE "failed"]
    BY <1>5, <2>1, <2>3 DEF ApplyRedeem
  <2> QED BY <1>5, <2>2, <2>4
<1> QED BY <1>1, <1>2, <1>3, <1>4, <1>5, ThreadFrame DEF RedeemStep

LEMMA JobsStep ==
  ASSUME TypeOK, Jobs, Untowered, [Next]_vars
  PROVE  Jobs'
<1>0. /\ job.pc \in {"none", "ready", "sent", "ok", "failed"}
      /\ \A x \in pool : x \in Tx
  BY DEF TypeOK
<1>1. job'.pc # "none" => payeeUp'
  <2>1. CASE payeeUp' = payeeUp
    <3>1. CASE job' = job \/ job' = NoJob
      BY <2>1, <3>1 DEF Jobs, NoJob
    <3>2. CASE RedeemSubmit \/ job.pc = "sent"
      BY <2>1, <3>2 DEF RedeemSubmit, Jobs
    <3> QED BY <2>1, <3>1, <3>2, JobMoves
  <2>2. CASE PayeeCrash
    BY <2>2 DEF PayeeCrash, NoJob
  <2>3. CASE PayeeRestart
    BY <2>3 DEF PayeeRestart
  <2> QED BY <2>1, <2>2, <2>3, ThreadFrame
<1>2. closing' /\ ~HasTower' => job'.pc # "ready"
  <2> SUFFICES ASSUME closing', ~HasTower' PROVE job'.pc # "ready"
    OBVIOUS
  <2>1. ~HasTower
    BY SameSetup
  <2>2. CASE closing
    BY <2>1, <2>2, JobMoves DEF Jobs, TypeOK
  <2>3. CASE ~closing
    <3>1. StartClose
      BY <2>3, LedgerFrame
    <3>2. job' = job /\ push.pc = "idle"
      BY <2>1, <3>1 DEF StartClose, payeeVars, threadVars, Untowered
    <3>3. job.pc # "ready"
      BY <2>1, <3>1, <3>2 DEF StartClose, PayeeSettled, ChainLockFree, Jobs
    <3> QED BY <3>2, <3>3
  <2> QED BY <2>2, <2>3
<1> DEFINE Sent == job.pc = "sent" => ClaimTx(job.amt, job.close) \in pool
           Only == \A x \in pool : x.kind = "redeem" /\ x.live => job.pc = "sent" /\ x = ClaimTx(job.amt, job.close)
<1>3. Sent' /\ Only'
  <2>0. Sent /\ Only
    BY DEF Jobs
  <2>1. ASSUME job' = job, \A x : x.kind = "redeem" /\ x.live => (x \in pool <=> x \in pool') PROVE Sent' /\ Only'
    <3>1. ClaimTx(job.amt, job.close).kind = "redeem" /\ ClaimTx(job.amt, job.close).live
      BY DEF ClaimTx
    <3> QED BY <2>0, <2>1, <3>1
  <2>2. CASE job' = job /\ pool' = pool
    BY <2>1, <2>2
  <2>3. CASE PayerRequest \/ PayerFinalize \/ PushTicket \/ TowerSubmit
    <3>1. job' = job
      BY <2>3 DEF PayerRequest, PayerFinalize, PushTicket, TowerSubmit, payeeVars, threadVars
    <3>2. \/ pool' = pool \/ pool' = pool \cup {PayerTx} \/ pool' = pool \cup {TicketTx}
          \/ pool' = pool \cup {BlobTx(hash)}
      BY <2>3 DEF PayerRequest, PayerFinalize, PushTicket, TowerSubmit
    <3>3. PayerTx.kind # "redeem" /\ TicketTx.kind # "redeem" /\ BlobTx(hash).kind # "redeem"
      BY DEF PayerTx, TicketTx, BlobTx
    <3> QED BY <2>1, <3>1, <3>2, <3>3
  <2>4. CASE (PayerCrash \/ TicketFails) /\ ~PayeeCrash
    <3>1. job' = job
      BY <2>4 DEF PayerCrash, TicketFails, payeeVars, threadVars
    <3>2. \A y \in pool' : \E x \in pool : y.live => y = x
      BY <2>4, Forgets
    <3>3. \A x \in pool : x.kind = "redeem" => x \in pool'
      BY <2>4, Forgets
    <3> QED BY <2>1, <3>1, <3>2, <3>3
  <2>5. CASE PayeeCrash
    <3>1. \A y \in pool' : y.kind = "redeem" => ~y.live
      BY <2>5, Forgets
    <3> QED BY <2>5, <3>1 DEF PayeeCrash, NoJob
  <2>6. CASE pool' = pool /\ job.pc # "sent" /\ job'.pc # "sent"
    BY <2>0, <2>6
  <2>7. CASE RedeemSubmit
    <3>1. job.pc = "ready" /\ pool' = pool \cup {ClaimTx(job.amt, job.close)}
          /\ job'.pc = "sent" /\ job'.amt = job.amt /\ job'.close = job.close
      BY <2>7 DEF RedeemSubmit, TypeOK
    <3> QED BY <2>0, <3>1
  <2>8. ASSUME NEW x \in pool, ApplyTx(x), x.kind # "redeem" PROVE Sent' /\ Only'
    <3>1. job' = job /\ pool' = pool \ {x}
      BY <2>8 DEF ApplyTx, ApplyTicket, ApplyRedeem, ApplyBlob, ApplyPayer, payeeVars, threadVars
    <3> QED BY <2>1, <2>8, <3>1
  <2>9. ASSUME NEW x \in pool, ApplyTx(x), x.kind = "redeem" PROVE Sent' /\ Only'
    <3>1. ApplyRedeem(x) /\ pool' = pool \ {x}
      BY <2>9 DEF ApplyTx, ApplyTicket, ApplyRedeem, ApplyBlob, ApplyPayer
    <3>2. CASE ~x.live
      BY <2>1, <3>1, <3>2 DEF ApplyRedeem
    <3>3. CASE x.live
      <4>1. job'.pc # "sent"
        BY <3>1, <3>3 DEF ApplyRedeem, TypeOK
      <4> QED BY <2>0, <2>9, <3>1, <3>3, <4>1
    <3> QED BY <3>2, <3>3
  <2>10. ASSUME pool' = pool, job' # job PROVE \/ job.pc # "sent" /\ job'.pc # "sent"
                                            \/ PayeeCrash \/ RedeemSubmit
    <3>1. ASSUME NEW x \in pool, ApplyRedeem(x) PROVE FALSE
      BY <2>10, <3>1 DEF ApplyRedeem
    <3>2. ASSUME NEW close, StartRedeem(close) PROVE job.pc # "sent" /\ job'.pc # "sent"
      BY <3>2 DEF StartRedeem
    <3>3. (\E close \in BOOLEAN : CtlRedeem(close)) \/ WatcherRedeem => job.pc # "sent" /\ job'.pc # "sent"
      BY <3>2 DEF CtlRedeem, WatcherRedeem
    <3>4. RedeemDone \/ RedeemFailed => job.pc # "sent" /\ job'.pc # "sent"
      BY DEF RedeemDone, RedeemFailed, NoJob
    <3> QED BY <2>10, <3>1, <3>3, <3>4, ThreadFrame DEF RedeemStep
  <2> HIDE DEF Sent, Only
  <2> QED BY <2>2, <2>3, <2>4, <2>5, <2>6, <2>7, <2>8, <2>9, <2>10, LedgerFrame
<1> QED BY <1>1, <1>2, <1>3 DEF Jobs

-----------------------------------------------------------------------------
(* The books of a payee without a tower.                                   *)

\* What redeem will book is paid.  A transaction that finds the settle delay
\* over deletes the entry and pays nothing, but then nobody was paid since
\* redeem read the balance.
Booked ==
  ~HasTower =>
    /\ redeemed <= chan.balance
    /\ job.pc \in {"ready", "sent"} /\ Expired(chan) => chan.balance <= job.before
    /\ job.pc = "ok" => job.amt <= chan.balance \/ (~chan.open /\ chan.balance <= job.before)

\* An entry that is gone, or whose settle delay is over, pays no more; a settle
\* delay is over only after a ledger has passed.
LEMMA EntryEnds ==
  ASSUME NEW ch \in Entry, NEW amt \in 0..Funding, NEW close \in BOOLEAN,
         NEW after \in {AfterPayeeClaim(ch, amt, close), AfterPayerClose(ch), Aged(ch)}
  PROVE  /\ Expired(ch) \/ ~ch.open => after.balance = ch.balance
         /\ SettleDelay >= 1 /\ Expired(AfterPayeeClaim(ch, amt, close)) => Expired(ch)
         /\ SettleDelay >= 1 /\ Expired(AfterPayerClose(ch)) => Expired(ch)
<1>0. SettleDelay \in Nat /\ ch.left \in Nat
  BY LedgerAssumption DEF Entry
<1>1. Expired(ch) \/ ~ch.open => after.balance = ch.balance
  BY DEF Entry, AfterPayeeClaim, PayeeClaimOK, AfterPayerClose, Aged, Deleted
<1>2. SettleDelay >= 1 /\ Expired(AfterPayeeClaim(ch, amt, close)) => Expired(ch)
  BY DEF Entry, AfterPayeeClaim, Deleted, Expired
<1>3. SettleDelay >= 1 /\ Expired(AfterPayerClose(ch)) => Expired(ch)
  BY <1>0 DEF Entry, AfterPayerClose, Deleted, Expired
<1> QED BY <1>1, <1>2, <1>3

LEMMA ChanEnds ==
  ASSUME TypeOK, [Next]_vars
  PROVE  /\ Expired(chan) \/ ~chan.open => chan'.balance = chan.balance
         /\ SettleDelay >= 1 /\ Expired(chan') => Expired(chan) \/ (closing /\ EndClose)
<1>0. chan \in Entry /\ 0 \in 0..Funding
  BY LedgerAssumption DEF TypeOK
<1>1. CASE chan' = chan
  BY <1>1
<1>2. CASE closing /\ EndClose
  BY <1>0, <1>2, EntryEnds DEF EndClose
<1>3. ASSUME NEW x \in pool, ApplyRedeem(x) \/ ApplyBlob(x) \/ ApplyPayer(x), chan' # chan
      PROVE  /\ Expired(chan) \/ ~chan.open => chan'.balance = chan.balance
             /\ SettleDelay >= 1 /\ Expired(chan') => Expired(chan)
  <2>1. x.amt \in 0..Funding /\ x.close \in BOOLEAN /\ TRUE \in BOOLEAN
    BY PoolFacts
  <2>2. \/ chan' = AfterPayeeClaim(chan, x.amt, x.close)
        \/ chan' = AfterPayeeClaim(chan, x.amt, TRUE) \/ chan' = AfterPayerClose(chan)
    BY <1>3 DEF ApplyRedeem, ApplyBlob, ApplyPayer
  <2>3. ASSUME NEW close \in BOOLEAN, chan' = AfterPayeeClaim(chan, x.amt, close) \/ chan' = AfterPayerClose(chan)
        PROVE  /\ Expired(chan) \/ ~chan.open => chan'.balance = chan.balance
               /\ SettleDelay >= 1 /\ Expired(chan') => Expired(chan)
    BY <1>0, <2>1, <2>3, EntryEnds
  <2> QED BY <2>1, <2>2, <2>3
<1> QED BY <1>1, <1>2, <1>3, LedgerFrame

LEMMA InitBooked == Init => Booked
  BY DEF Init, Booked, NewEntry, NoJob

LEMMA BookedStep ==
  ASSUME TypeOK, Untowered, Jobs, Booked, SettleDelay >= 1, [Next]_vars
  PROVE  Booked'
<1> SUFFICES ASSUME ~HasTower
             PROVE  /\ redeemed' <= chan'.balance
                    /\ job'.pc \in {"ready", "sent"} /\ Expired(chan') => chan'.balance <= job'.before
                    /\ job'.pc = "ok" => \/ job'.amt <= chan'.balance
                                         \/ ~chan'.open /\ chan'.balance <= job'.before
  BY SameSetup DEF Booked
<1>0. /\ redeemed \in Nat /\ job.amt \in Nat /\ job.before \in Nat /\ chan.balance \in Nat /\ chan'.balance \in Nat
      /\ chan'.balance >= chan.balance /\ (chan'.open => chan.open)
  BY ChanLater, LedgerAssumption DEF TypeOK, Entry
<1>1. redeemed' <= chan'.balance
  <2>1. CASE redeemed' = redeemed
    BY <1>0, <2>1 DEF Booked
  <2>2. CASE RedeemDone
    <3>1. job.pc = "ok" /\ chan' = chan
      BY <2>2 DEF RedeemDone, chainVars
    <3> QED BY <1>0, <2>2, <3>1 DEF RedeemDone, MaxOf, Booked
  <2>3. CASE WatcherSeesGone
    BY <2>1, <2>3 DEF WatcherSeesGone, TowerPaid
  <2> QED BY <2>1, <2>2, <2>3, FileFrame
<1>2. ASSUME job'.pc \in {"ready", "sent"}, Expired(chan') PROVE chan'.balance <= job'.before
  <2>1. ASSUME NEW close \in BOOLEAN, ~closing, StartRedeem(close) PROVE chan'.balance <= job'.before
    <3>1. chan' = chan /\ job'.before = chan.balance
      BY <2>1, LedgerFrame DEF StartRedeem
    <3> QED BY <1>0, <3>1
  <2>2. ASSUME job.pc \in {"ready", "sent"}, job'.before = job.before PROVE chan'.balance <= job'.before
    <3>1. CASE Expired(chan)
      <4>1. chan'.balance = chan.balance
        BY <3>1, ChanEnds
      <4> QED BY <2>2, <3>1, <4>1 DEF Booked
    <3>2. CASE closing /\ EndClose
      BY <2>2, <3>2 DEF EndClose, Jobs
    <3> QED BY <1>2, <3>1, <3>2, ChanEnds
  <2>3. CASE job' = job
    BY <1>2, <2>2, <2>3
  <2>4. CASE job' = NoJob \/ job.pc = "sent"
    BY <1>2, <2>2, <2>3, <2>4, JobMoves DEF NoJob, StartRedeem, RedeemSubmit, TypeOK
  <2>5. CASE RedeemSubmit
    BY <2>2, <2>5 DEF RedeemSubmit, TypeOK
  <2> QED BY <2>1, <2>3, <2>4, <2>5, JobMoves
<1>3. ASSUME job'.pc = "ok" PROVE job'.amt <= chan'.balance \/ (~chan'.open /\ chan'.balance <= job'.before)
  <2>1. CASE job' = job
    <3>1. CASE job.amt <= chan.balance
      BY <1>0, <2>1, <3>1
    <3>2. CASE ~chan.open /\ chan.balance <= job.before
      <4>1. chan'.balance = chan.balance
        BY <3>2, ChanEnds
      <4> QED BY <1>0, <2>1, <3>2, <4>1
    <3> QED BY <1>3, <2>1, <3>1, <3>2 DEF Booked
  <2>2. CASE /\ job.pc = "sent" /\ ApplyRedeem(ClaimTx(job.amt, job.close))
             /\ job' = [job EXCEPT !.pc = IF PayeeClaimOK(chan, job.amt) THEN "ok" ELSE "failed"]
    <3>1. /\ PayeeClaimOK(chan, job.amt) /\ chan' = AfterPayeeClaim(chan, job.amt, job.close)
          /\ job'.amt = job.amt /\ job'.before = job.before
      BY <1>3, <2>2 DEF ApplyRedeem, ClaimTx, TypeOK
    <3>2. CASE Expired(chan)
      <4>1. chan.balance <= job.before
        BY <2>2, <3>2 DEF Booked
      <4>2. chan' = Deleted(chan)
        BY <3>1, <3>2 DEF AfterPayeeClaim
      <4>3. ~chan'.open /\ chan'.balance = chan.balance
        BY <4>2, ChanLater DEF Deleted, Entry
      <4> QED BY <3>1, <4>1, <4>3
    <3>3. CASE ~Expired(chan)
      <4>1. chan'.balance = IF job.amt > 0 THEN job.amt ELSE chan.balance
        BY <3>1, <3>3, ChanLater DEF AfterPayeeClaim, Entry
      <4> QED BY <1>0, <3>1, <4>1
    <3> QED BY <3>2, <3>3
  <2>3. CASE job' = NoJob \/ RedeemSubmit \/ \E close \in BOOLEAN : StartRedeem(close)
    BY <1>3, <2>3 DEF NoJob, RedeemSubmit, StartRedeem, TypeOK
  <2> QED BY <2>1, <2>2, <2>3, JobMoves
<1> QED BY <1>1, <1>2, <1>3

\* The books of a payee without a tower are right for every settle delay of at
\* least one ledger: what redeem counts as redeemed the ledger has paid, though
\* redeem compares the account's balance with one it read before it waited for
\* chain_lock and for the validated ledger, and though a transaction of its own
\* earlier life may be paid in between.
THEOREM BooksCorrect == SettleDelay >= 1 => (Spec => []RedeemedIsPaid)
<1> SUFFICES ASSUME SettleDelay >= 1 PROVE Spec => []RedeemedIsPaid
  OBVIOUS
<1> DEFINE IInv == TypeOK /\ Untowered /\ Jobs /\ Booked
<1>1. Init => IInv
  BY InitType, InitUntowered, InitJobs, InitBooked
<1>2. IInv /\ [Next]_vars => IInv'
  BY TypeStep, UntoweredStep, JobsStep, BookedStep
<1>3. IInv => RedeemedIsPaid
  BY DEF Booked, RedeemedIsPaid
<1> QED BY <1>1, <1>2, <1>3, PTL DEF Spec

-----------------------------------------------------------------------------
(* Who closes, and with what.                                              *)

\* Only a scheduled closure, or the payee's operator, makes the payee or the
\* tower close; and the payee closes with no less than it held then.
Closes ==
  /\ inClosed => ~chan.open
  /\ covered <= owed /\ owed <= best /\ job.amt <= best
  /\ ~chan.scheduled => /\ tpc = "idle" /\ ~rec.submitted /\ ~spent /\ covered = 0 /\ owed = 0
                        /\ \A x \in pool : x.kind # "blob"
  /\ ~chan.scheduled /\ ~quit => ~want /\ ~job.close /\ \A x \in pool : x.kind = "redeem" => ~x.close
  /\ chan.scheduled /\ ~quit => /\ job.close => job.amt >= owed
                                /\ \A x \in pool : x.kind = "redeem" /\ x.close => x.amt >= owed

\* A transaction of the open ledger was there before, or was just submitted.
LEMMA PoolLater ==
  ASSUME TypeOK, [Next]_vars, NEW y \in pool'
  PROVE  \/ \E x \in pool : y.kind = x.kind /\ y.amt = x.amt /\ y.close = x.close
         \/ ~closing /\ RedeemSubmit /\ y = ClaimTx(job.amt, job.close)
         \/ ~closing /\ TowerSubmit /\ y = BlobTx(hash)
         \/ y.kind \in {"ticket", "payer"}
<1>1. CASE y \in pool
  BY <1>1
<1>2. CASE PayerCrash \/ TicketFails \/ PayeeCrash
  BY <1>2, Forgets
<1>3. CASE PayerRequest \/ PayerFinalize \/ PushTicket
  BY <1>1, <1>3 DEF PayerRequest, PayerFinalize, PushTicket, PayerTx, TicketTx
<1>4. CASE ~closing /\ RedeemSubmit
  BY <1>1, <1>4 DEF RedeemSubmit
<1>5. CASE ~closing /\ TowerSubmit
  BY <1>1, <1>5 DEF TowerSubmit
<1>6. ASSUME NEW x \in pool, ApplyTx(x) PROVE y \in pool
  BY <1>6 DEF ApplyTx, ApplyTicket, ApplyRedeem, ApplyBlob, ApplyPayer
<1> QED BY <1>1, <1>2, <1>3, <1>4, <1>5, <1>6, LedgerFrame

\* The payer's transaction schedules the closure of an open channel, for the
\* whole settle delay, and pays nothing.
LEMMA Schedules ==
  ASSUME TypeOK, [Next]_vars, ~chan.scheduled, chan'.scheduled
  PROVE  /\ closing /\ closing' = closing
         /\ chan.open /\ chan'.open /\ chan'.balance = chan.balance /\ chan'.left = SettleDelay
         /\ covered' = rec.amt /\ owed' = best /\ ~outage' /\ ~torn' /\ away' = ~payeeUp /\ quit' = quit
         /\ pool' \subseteq pool
         /\ UNCHANGED <<spent, blobRes, payeeVars, mail, towerVars>>
<1>0. chan \in Entry
  BY DEF TypeOK
<1>1. ~EndClose
  BY <1>0 DEF EndClose, Aged, Entry
<1>2. ASSUME NEW x \in pool PROVE ~ApplyRedeem(x) /\ ~ApplyBlob(x)
  <2>1. AfterPayeeClaim(chan, x.amt, x.close).scheduled = chan.scheduled
    BY <1>0 DEF AfterPayeeClaim, Deleted, Entry
  <2>2. AfterPayeeClaim(chan, x.amt, TRUE).scheduled = chan.scheduled
    BY <1>0 DEF AfterPayeeClaim, Deleted, Entry
  <2> QED BY <2>1, <2>2 DEF ApplyRedeem, ApplyBlob
<1>3. PICK x \in pool : closing /\ ApplyPayer(x)
  BY <1>1, <1>2, LedgerFrame
<1>4. /\ covered' = rec.amt /\ owed' = best /\ ~outage' /\ ~torn' /\ away' = ~payeeUp /\ quit' = quit
  BY <1>3 DEF ApplyPayer, Scheduling
<1>5. /\ closing' = closing /\ pool' \subseteq pool
      /\ UNCHANGED <<spent, blobRes, payeeVars, mail, towerVars>>
  BY <1>3 DEF ApplyPayer
<1>6. chan' = AfterPayerClose(chan)
  BY <1>3 DEF ApplyPayer
<1>7. chan.open /\ chan'.open /\ chan'.balance = chan.balance /\ chan'.left = SettleDelay
  BY <1>0, <1>6 DEF AfterPayerClose, Deleted, Expired, Entry
<1> QED BY <1>3, <1>4, <1>5, <1>7

\* Once scheduled, or as long as not, what there was to protect stays the same.
LEMMA SameStakes ==
  ASSUME [Next]_vars, chan'.scheduled => chan.scheduled
  PROVE  covered' = covered /\ owed' = owed
  BY HistoryFrame DEF ApplyPayer, Scheduling, history

LEMMA QuitLater ==
  ASSUME TypeOK, [Next]_vars
  PROVE  quit => quit'
  BY HistoryFrame DEF CtlRedeem

LEMMA InitCloses == Init => Closes
  BY LedgerAssumption DEF Init, Closes, NewEntry, NoRec, NoJob

LEMMA ClosesStep ==
  ASSUME TypeOK, Handed, Jobs, Closes, [Next]_vars
  PROVE  Closes'
<1>0. /\ covered \in Nat /\ owed \in Nat /\ best \in Nat /\ best' \in Nat /\ best' >= best
      /\ job.amt \in Nat /\ rec.amt \in Nat
      /\ covered <= owed /\ owed <= best /\ job.amt <= best /\ rec.amt <= best
      /\ chan.scheduled => chan'.scheduled
      /\ chan'.open => chan.open
  BY BestGrows, ChanLater, LedgerAssumption DEF TypeOK, Closes, Handed
<1>1. inClosed' => ~chan'.open
  BY <1>0, FileFrame DEF RedeemDone, WatcherSeesGone, Closes
<1>2. covered' <= owed' /\ owed' <= best' /\ job'.amt <= best'
  <2>1. job'.amt <= best'
    <3>1. job'.amt = job.amt \/ job'.amt = 0 \/ job'.amt = best
      BY JobMoves DEF NoJob, StartRedeem, RedeemSubmit, TypeOK
    <3> QED BY <1>0, <3>1
  <2>2. CASE chan'.scheduled => chan.scheduled
    <3>1. covered' = covered /\ owed' = owed
      BY <2>2, SameStakes
    <3> QED BY <1>0, <2>1, <3>1
  <2>3. CASE chan'.scheduled /\ ~chan.scheduled
    <3>1. covered' = rec.amt /\ owed' = best
      BY <2>3, Schedules
    <3> QED BY <1>0, <2>1, <3>1
  <2> QED BY <2>2, <2>3
<1>3. ~chan'.scheduled => /\ tpc' = "idle" /\ ~rec'.submitted /\ ~spent' /\ covered' = 0 /\ owed' = 0
                          /\ \A x \in pool' : x.kind # "blob"
  <2> SUFFICES ASSUME ~chan'.scheduled
               PROVE  /\ tpc' = "idle" /\ ~rec'.submitted /\ ~spent' /\ covered' = 0 /\ owed' = 0
                      /\ \A x \in pool' : x.kind # "blob"
    OBVIOUS
  <2>0. /\ ~chan.scheduled /\ tpc = "idle" /\ ~rec.submitted /\ ~spent /\ covered = 0 /\ owed = 0
        /\ \A x \in pool : x.kind # "blob"
    BY <1>0 DEF Closes
  <2>1. ~TowerSeesScheduled /\ ~TowerSubmit /\ ~TowerValidated /\ ~TowerGivesUp
    BY <2>0 DEF TowerSeesScheduled, TowerMustSubmit, TowerSubmit, TowerValidated, TowerGivesUp
  <2>2. tpc' = "idle"
    BY <2>0, <2>1, TowerFrame DEF TowerCrash
  <2>3. ~rec'.submitted
    <3>1. TowerSeesGone => rec'.submitted = rec.submitted
      BY DEF TowerSeesGone, TypeOK
    <3>2. ASSUME NEW amt \in mail, TowerReceive(amt) PROVE ~rec'.submitted
      BY <2>0, <3>2 DEF TowerReceive, TowerStores, NoRec
    <3> QED BY <2>0, <2>1, <3>1, <3>2, TowerFrame
  <2>4. ~spent'
    BY <2>0, LedgerFrame DEF ApplyBlob
  <2>5. covered' = 0 /\ owed' = 0
    BY <2>0, SameStakes
  <2>6. \A x \in pool' : x.kind # "blob"
    BY <2>0, <2>1, PoolLater DEF ClaimTx
  <2> QED BY <2>2, <2>3, <2>4, <2>5, <2>6
<1>4. ~chan'.scheduled /\ ~quit' => ~want' /\ ~job'.close /\ \A x \in pool' : x.kind = "redeem" => ~x.close
  <2> SUFFICES ASSUME ~chan'.scheduled, ~quit'
               PROVE  ~want' /\ ~job'.close /\ \A x \in pool' : x.kind = "redeem" => ~x.close
    OBVIOUS
  <2>0. /\ ~chan.scheduled /\ ~quit
        /\ ~want /\ ~job.close /\ \A x \in pool : x.kind = "redeem" => ~x.close
    BY <1>0, QuitLater DEF Closes
  <2>1. ~want'
    BY <2>0, ThreadFrame DEF WatcherRedeem, WatcherSeesOpen, PayeeCrash
  <2>2. ~job'.close
    <3>1. ASSUME NEW close \in BOOLEAN, StartRedeem(close), CtlRedeem(close) PROVE ~job'.close
      BY <3>1 DEF StartRedeem, CtlRedeem
    <3>2. CASE job' = job \/ job' = NoJob
      BY <2>0, <3>2 DEF NoJob
    <3>3. CASE RedeemSubmit
      BY <2>0, <3>3 DEF RedeemSubmit, TypeOK
    <3>4. CASE job' = [job EXCEPT !.pc = IF PayeeClaimOK(chan, job.amt) THEN "ok" ELSE "failed"]
      BY <2>0, <3>4 DEF TypeOK
    <3> QED BY <2>0, <3>1, <3>2, <3>3, <3>4, JobMoves
  <2>3. ASSUME NEW x \in pool', x.kind = "redeem" PROVE ~x.close
    BY <2>0, <2>3, PoolLater DEF ClaimTx, BlobTx
  <2> QED BY <2>1, <2>2, <2>3
<1>5. chan'.scheduled /\ ~quit' => /\ job'.close => job'.amt >= owed'
                                   /\ \A x \in pool' : x.kind = "redeem" /\ x.close => x.amt >= owed'
  <2> SUFFICES ASSUME chan'.scheduled, ~quit'
               PROVE  /\ job'.close => job'.amt >= owed'
                      /\ \A x \in pool' : x.kind = "redeem" /\ x.close => x.amt >= owed'
    OBVIOUS
  <2>0. ~quit
    BY QuitLater
  <2>1. CASE chan.scheduled
    <3>0. owed' = owed
      BY <2>1, SameStakes
    <3>1. (job.close => job.amt >= owed) /\ \A x \in pool : x.kind = "redeem" /\ x.close => x.amt >= owed
      BY <2>0, <2>1 DEF Closes
    <3>2. job'.close => job'.amt >= owed
      <4>1. CASE job'.close = job.close /\ job'.amt = job.amt
        BY <3>1, <4>1
      <4>2. ASSUME NEW close \in BOOLEAN, StartRedeem(close) PROVE job'.amt >= owed
        BY <1>0, <4>2 DEF StartRedeem
      <4>3. CASE job' = NoJob
        BY <4>3 DEF NoJob
      <4>4. CASE RedeemSubmit
        BY <4>1, <4>4 DEF RedeemSubmit, TypeOK
      <4>5. CASE job' = [job EXCEPT !.pc = IF PayeeClaimOK(chan, job.amt) THEN "ok" ELSE "failed"]
        BY <4>1, <4>5 DEF TypeOK
      <4> QED BY <4>1, <4>2, <4>3, <4>4, <4>5, JobMoves
    <3>3. ASSUME NEW y \in pool', y.kind = "redeem", y.close PROVE y.amt >= owed
      <4>1. CASE \E x \in pool : y.kind = x.kind /\ y.amt = x.amt /\ y.close = x.close
        BY <3>1, <3>3, <4>1
      <4>2. CASE y = ClaimTx(job.amt, job.close)
        BY <3>1, <3>3, <4>2 DEF ClaimTx
      <4>3. y # BlobTx(hash) /\ y.kind \notin {"ticket", "payer"}
        BY <3>3 DEF BlobTx
      <4> QED BY <4>1, <4>2, <4>3, PoolLater
    <3> QED BY <3>0, <3>2, <3>3
  <2>2. CASE ~chan.scheduled
    <3>1. job' = job /\ pool' \subseteq pool
      BY <2>2, Schedules DEF payeeVars, threadVars
    <3>2. ~job.close /\ \A x \in pool : x.kind = "redeem" => ~x.close
      BY <2>0, <2>2 DEF Closes
    <3> QED BY <3>1, <3>2
  <2> QED BY <2>1, <2>2
<1> QED BY <1>1, <1>2, <1>3, <1>4, <1>5 DEF Closes

-----------------------------------------------------------------------------
(* The settle delay.                                                       *)

\* The ledger in which the closure was scheduled is still being validated, and
\* the one after it.
Fresh == closing /\ chan.left = SettleDelay

Second == chan.left + 1 = SettleDelay

\* A claim of the payee for more than was paid is paid while the delay runs.
LEMMA ClaimPays ==
  ASSUME NEW ch \in Entry, ch.open, ch.left >= 1, NEW amt \in 0..Funding, NEW close \in BOOLEAN
  PROVE  LET after == AfterPayeeClaim(ch, amt, close)
         IN  /\ after.left = ch.left
             /\ amt > ch.balance => after.balance = amt
             /\ ~close => after.open
<1>0. ch.left \in Nat /\ ch.balance \in Nat /\ amt \in Nat /\ Funding \in Nat /\ amt <= Funding
  BY LedgerAssumption DEF Entry
<1>1. ~Expired(ch)
  BY <1>0 DEF Expired
<1>2. CASE PayeeClaimOK(ch, amt)
  <2>1. AfterPayeeClaim(ch, amt, close) = [ch EXCEPT !.balance = IF amt > 0 THEN amt ELSE ch.balance, !.open = ~close]
    BY <1>1, <1>2 DEF AfterPayeeClaim
  <2>2. amt > ch.balance => amt > 0
    BY <1>0
  <2> QED BY <2>1, <2>2 DEF Entry
<1>3. CASE ~PayeeClaimOK(ch, amt)
  <2>1. ~(amt > ch.balance)
    BY <1>0, <1>3 DEF PayeeClaimOK, Unfunded
  <2> QED BY <1>3, <2>1 DEF AfterPayeeClaim
<1> QED BY <1>2, <1>3

\* As long as less than d is paid of what the payee was owed, nobody but a
\* tower with a lower claim deletes the entry while the delay runs, and only a
\* validated ledger shortens the delay.
LEMMA InDanger ==
  ASSUME TypeOK, Closes, [Next]_vars, chan.scheduled, chan.open, ~quit, chan.left >= 1, chan.left <= SettleDelay,
         NEW d \in Nat, d <= owed, chan'.balance < d
  PROVE  /\ \A x \in pool : ApplyRedeem(x) => x.amt < d
         /\ \A x \in pool : ApplyBlob(x) => spent \/ x.amt < d
         /\ chan'.open \/ \E x \in pool : ApplyBlob(x) /\ ~spent
         /\ EndClose => chan'.left = chan.left - 1
         /\ chan' = chan \/ EndClose \/ chan'.left = chan.left
<1>0. /\ chan \in Entry /\ chan.left \in Nat /\ chan.balance \in Nat /\ owed \in Nat /\ SettleDelay \in Nat
      /\ chan'.balance >= chan.balance /\ chan'.balance \in Nat /\ owed <= Funding /\ Funding \in Nat
      /\ chan.balance < d
  BY ChanLater, LedgerAssumption DEF TypeOK, Entry
<1>1. ASSUME NEW x \in pool, ApplyRedeem(x) PROVE x.amt < d /\ chan'.open /\ chan'.left = chan.left
  <2>1. /\ x.amt \in 0..Funding /\ x.close \in BOOLEAN /\ x.kind = "redeem"
        /\ chan' = AfterPayeeClaim(chan, x.amt, x.close)
    BY <1>1, PoolFacts DEF ApplyRedeem
  <2>2. /\ chan'.left = chan.left
        /\ x.amt > chan.balance => chan'.balance = x.amt
        /\ ~x.close => chan'.open
    BY <1>0, <2>1, ClaimPays
  <2>3. x.amt < d
    BY <1>0, <2>1, <2>2
  <2>4. x.close => x.amt >= owed
    BY <2>1 DEF Closes
  <2>5. ~x.close
    BY <1>0, <2>1, <2>3, <2>4
  <2> QED BY <2>2, <2>3, <2>5
<1>2. ASSUME NEW x \in pool, ApplyBlob(x)
      PROVE  (spent /\ chan' = chan) \/ (~spent /\ x.amt < d /\ chan'.left = chan.left)
  <2>1. CASE spent
    BY <1>2, <2>1 DEF ApplyBlob
  <2>2. CASE ~spent
    <3>1. x.amt \in 0..Funding /\ TRUE \in BOOLEAN /\ chan' = AfterPayeeClaim(chan, x.amt, TRUE)
      BY <1>2, <2>2, PoolFacts DEF ApplyBlob
    <3>2. chan'.left = chan.left /\ (x.amt > chan.balance => chan'.balance = x.amt)
      BY <1>0, <3>1, ClaimPays
    <3>3. x.amt \in Nat
      BY <3>1, LedgerAssumption
    <3>4. x.amt > chan.balance => x.amt < d
      BY <3>2
    <3>5. ~(x.amt > chan.balance) => x.amt < d
      BY <1>0, <3>3
    <3> QED BY <2>2, <3>2, <3>4, <3>5
  <2> QED BY <2>1, <2>2
<1>3. ASSUME NEW x \in pool, ApplyPayer(x) PROVE chan'.open /\ chan'.left = chan.left
  <2>1. chan' = AfterPayerClose(chan)
    BY <1>3 DEF ApplyPayer
  <2>2. ~Expired(chan) /\ chan.balance # Funding
    BY <1>0 DEF Expired
  <2>3. chan' = [chan EXCEPT !.scheduled = TRUE,
                             !.left = IF chan.scheduled /\ chan.left < SettleDelay THEN @ ELSE SettleDelay]
    BY <2>1, <2>2 DEF AfterPayerClose
  <2> QED BY <1>0, <2>3 DEF Entry
<1>4. EndClose => chan'.left = chan.left - 1 /\ chan'.open
  BY <1>0 DEF EndClose, Aged, Entry
<1> QED BY <1>1, <1>2, <1>3, <1>4, LedgerFrame

-----------------------------------------------------------------------------
(* A payee without a tower protects itself.                                *)

\* A payee that is up has two ledgers, and uses the second.
Watches ==
  ~HasTower /\ chan.scheduled /\ ~quit /\ ~away
    => /\ payeeUp
       /\ chan.balance < owed =>
            /\ chan.open
            /\ \/ Fresh
               \/ /\ Second
                  /\ job.pc \in {"ready", "sent"} => job.amt >= owed
                  /\ closing => job.pc = "sent"
                  /\ ~closing /\ watched /\ job.pc = "none" => want

LEMMA InitWatches == Init => Watches
  BY DEF Init, Watches, NewEntry

LEMMA WatchesStep ==
  ASSUME TypeOK, Untowered, Jobs, Booked, Closes, Watches, SettleDelay >= 2, [Next]_vars
  PROVE  Watches'
<1> DEFINE Stays == \/ Fresh
                    \/ /\ Second
                       /\ job.pc \in {"ready", "sent"} => job.amt >= owed
                       /\ closing => job.pc = "sent"
                       /\ ~closing /\ watched /\ job.pc = "none" => want
<1> SUFFICES ASSUME ~HasTower, chan'.scheduled, ~quit', ~away'
             PROVE  payeeUp' /\ (chan'.balance < owed' => chan'.open /\ Stays')
  BY SameSetup DEF Watches
<1>0. /\ chan \in Entry /\ chan.left \in Nat /\ chan.balance \in Nat /\ owed \in Nat /\ SettleDelay \in Nat
      /\ chan'.balance >= chan.balance /\ chan'.balance \in Nat /\ redeemed \in Nat /\ best \in Nat
      /\ redeemed <= chan.balance /\ owed <= best
      /\ job.amt \in Nat
  BY ChanLater, LedgerAssumption DEF TypeOK, Entry, Booked, Closes
<1>1. CASE ~chan.scheduled
  <2>1. /\ closing /\ closing' = closing /\ chan'.open /\ chan'.left = SettleDelay /\ away' = ~payeeUp
        /\ payeeUp' = payeeUp
    BY <1>1, Schedules DEF payeeVars, threadVars
  <2> QED BY <2>1 DEF Fresh
<1>2. CASE chan.scheduled
  <2>0. ~quit /\ ~away /\ payeeUp /\ owed' = owed /\ ~PayeeCrash
    <3>1. ~quit /\ owed' = owed
      BY <1>2, QuitLater, SameStakes
    <3>2. ~PayeeCrash
      BY DEF PayeeCrash
    <3>3. ~away
      BY <1>2, <3>2, HistoryFrame DEF ApplyPayer, Scheduling, history
    <3>4. payeeUp
      BY <1>2, <3>1, <3>3 DEF Watches
    <3> QED BY <3>1, <3>2, <3>3, <3>4
  <2>1. payeeUp'
    BY <2>0, ThreadFrame DEF PayeeRestart
  <2> SUFFICES ASSUME chan'.balance < owed PROVE chan'.open /\ Stays'
    BY <2>0, <2>1
  <2>2. chan.balance < owed
    BY <1>0
  <2>3. chan.open /\ Stays
    BY <1>2, <2>0, <2>2 DEF Watches
  <2>4. chan.left >= 1 /\ chan.left <= SettleDelay /\ ~Expired(chan)
    BY <1>0, <2>3 DEF Fresh, Second, Expired
  <2>5. ASSUME NEW x \in pool PROVE ~ApplyBlob(x)
    BY DEF Untowered, ApplyBlob
  <2>6. /\ \A x \in pool : ApplyRedeem(x) => x.amt < owed
        /\ chan'.open
        /\ EndClose => chan'.left = chan.left - 1
        /\ chan' = chan \/ EndClose \/ chan'.left = chan.left
    <3>1. owed <= owed
      BY <1>0
    <3> QED BY <1>0, <1>2, <2>0, <2>3, <2>4, <2>5, <3>1, InDanger
  <2>7. CASE EndClose /\ closing
    <3>1. pool = {} /\ job' = job /\ ~closing' /\ ~watched'
      BY <2>7 DEF EndClose
    <3>2. job.pc \notin {"ready", "sent"}
      BY <2>7, <3>1 DEF Jobs
    <3>3. Fresh
      BY <2>3, <2>7, <3>2
    <3>4. chan'.left + 1 = SettleDelay
      BY <1>0, <2>4, <2>6, <2>7, <3>3 DEF Fresh
    <3> QED BY <2>6, <3>1, <3>2, <3>4 DEF Second
  <2>8. CASE ~(EndClose /\ closing)
    <3>1. chan'.left = chan.left
      BY <2>6, <2>8, LedgerFrame
    <3>2. closing => closing'
      BY <2>8, LedgerFrame
    <3>3. Fresh => Fresh'
      BY <3>1, <3>2 DEF Fresh
    <3>4. CASE ~Fresh /\ closing
      <4>1. Second' /\ closing'
        BY <2>3, <3>1, <3>2, <3>4 DEF Second
      <4>2. job.pc = "sent" /\ job.amt >= owed
        BY <2>3, <3>4
      <4>3. ClaimTx(job.amt, job.close) \in pool /\ ClaimTx(job.amt, job.close).amt = job.amt
        BY <4>2 DEF Jobs, ClaimTx
      <4>4. ~ApplyRedeem(ClaimTx(job.amt, job.close))
        BY <1>0, <2>6, <4>2, <4>3
      <4>5. job' = job
        BY <3>4, <4>2, <4>4, JobMoves
      <4> QED BY <2>0, <2>6, <4>1, <4>2, <4>5
    <3>5. CASE ~Fresh /\ StartClose
      <4>1. Second' /\ closing' /\ job' = job
        BY <2>3, <3>1, <3>5 DEF Second, StartClose, payeeVars, threadVars
      <4>2. push.pc = "idle" /\ ~inClosed
        BY <2>3 DEF Untowered, Closes
      <4>3. job.pc = "sent"
        BY <2>0, <2>3, <3>4, <3>5, <4>2 DEF StartClose, PayeeSettled, ChainLockFree
      <4> QED BY <2>0, <2>3, <2>6, <3>5, <4>1, <4>3
    <3>6. CASE ~Fresh /\ ~closing /\ ~StartClose
      <4>0. ~closing' /\ Second'
        BY <2>3, <3>1, <3>6, LedgerFrame DEF Second
      <4>1. job'.pc \in {"ready", "sent"} => job'.amt >= owed
        <5>1. ASSUME NEW close \in BOOLEAN, StartRedeem(close) PROVE job'.amt >= owed
          BY <1>0, <5>1 DEF StartRedeem
        <5>2. RedeemSubmit => job.pc = "ready" /\ job'.amt = job.amt
          BY DEF RedeemSubmit, TypeOK
        <5>3. job' = NoJob => job'.pc \notin {"ready", "sent"}
          BY DEF NoJob
        <5> QED BY <2>3, <3>6, <5>1, <5>2, <5>3, JobMoves
      <4>2. ASSUME watched', job'.pc = "none" PROVE want'
        <5>1. WatcherSeesOpen => want'
          <6>1. best > redeemed
            BY <1>0, <2>2
          <6> QED BY <1>2, <6>1 DEF WatcherSeesOpen
        <5>2. ~WatcherSeesGone
          BY <2>3 DEF WatcherSeesGone
        <5>3. CASE WatcherSeesOpen
          BY <5>1, <5>3
        <5>4. CASE ~WatcherSeesOpen
          <6>1. ~RedeemDone /\ ~RedeemFailed /\ ~PayeeRestart
            BY <4>2 DEF RedeemDone, RedeemFailed, PayeeRestart
          <6>2. watched' = watched
            BY <3>6, <5>2, <5>4, <6>1, ThreadFrame DEF WatcherStep
          <6>3. ~WatcherRedeem /\ ~RedeemSubmit /\ \A close \in BOOLEAN : ~CtlRedeem(close)
            <7>1. \A close \in BOOLEAN : ~StartRedeem(close)
              BY <4>2 DEF StartRedeem
            <7>2. ~RedeemSubmit
              BY <4>2 DEF RedeemSubmit, TypeOK
            <7> QED BY <7>1, <7>2 DEF WatcherRedeem, CtlRedeem
          <6>4. want' = want
            BY <2>0, <5>4, <6>3, ThreadFrame
          <6>5. job' = job
            BY <2>0, <3>6, <6>1, <6>3, ThreadFrame DEF RedeemStep
          <6> QED BY <2>3, <3>6, <4>2, <6>2, <6>4, <6>5
        <5> QED BY <5>3, <5>4
      <4> QED BY <2>0, <2>6, <4>0, <4>1, <4>2
    <3> QED BY <2>3, <2>6, <3>3, <3>4, <3>5, <3>6
  <2> QED BY <2>7, <2>8
<1> QED BY <1>1, <1>2

\* A payee that stays up needs no tower and no luck, for every settle delay of
\* at least two ledgers: when the entry is gone, everything it held when the
\* payer scheduled the closure has been paid by the watcher's or its operator's
\* redemptions, also if it was busy with another redemption at that moment.
THEOREM LoneWatcherCorrect == SettleDelay >= 2 => (Spec => []LoneWatcherProtects)
<1> SUFFICES ASSUME SettleDelay >= 2 PROVE Spec => []LoneWatcherProtects
  OBVIOUS
<1>0. SettleDelay >= 1
  BY LedgerAssumption
<1> DEFINE IInv == TypeOK /\ Handed /\ Untowered /\ Jobs /\ Booked /\ Closes /\ Watches
<1>1. Init => IInv
  BY InitType, InitHanded, InitUntowered, InitJobs, InitBooked, InitCloses, InitWatches
<1>2. IInv /\ [Next]_vars => IInv'
  BY <1>0, TypeStep, HandedStep, UntoweredStep, JobsStep, BookedStep, ClosesStep, WatchesStep
<1>3. IInv => LoneWatcherProtects
  <2> SUFFICES ASSUME IInv, ~HasTower, ~chan.open, ~quit, ~away PROVE chan.balance >= owed
    BY DEF LoneWatcherProtects, WatcherProtects
  <2>1. chan.balance \in Nat /\ owed \in Nat
    BY LedgerAssumption DEF TypeOK, Entry
  <2> QED BY <2>1 DEF Watches, Closes
<1> QED BY <1>1, <1>2, <1>3, PTL DEF Spec

-----------------------------------------------------------------------------
(* The tower protects the payee.                                           *)

HasBlob == \E x \in pool : x.kind = "blob"

\* What the tower holds and submits is no less than what it held when the
\* closure was scheduled.
Kept ==
  chan.scheduled => /\ chan.open => rec.amt >= covered
                    /\ tpc = "submit" => hash >= covered
                    /\ \A x \in pool : x.kind = "blob" => x.amt >= covered

\* A tower that is up has two ledgers as well, and uses the second, unless it
\* dies between marking the record and submitting the blob.
Guards ==
  chan.scheduled /\ ~quit /\ ~outage /\ ~torn /\ chan.balance < covered
    => /\ chan.open /\ ~spent
       /\ \/ Fresh /\ tpc = "idle" /\ ~rec.submitted
          \/ /\ Second
             /\ closing \/ (towerUp /\ polled /\ tpc = "idle") \/ tpc = "await" => HasBlob
             /\ rec.submitted => tpc = "submit" \/ HasBlob

LEMMA InitTower == Init => Kept /\ Guards
  BY DEF Init, Kept, Guards, NewEntry

LEMMA KeptStep ==
  ASSUME TypeOK, Handed, Closes, Kept, [Next]_vars
  PROVE  Kept'
<1> SUFFICES ASSUME chan'.scheduled
             PROVE  /\ chan'.open => rec'.amt >= covered'
                    /\ tpc' = "submit" => hash' >= covered'
                    /\ \A x \in pool' : x.kind = "blob" => x.amt >= covered'
  BY DEF Kept
<1>0. rec.amt \in Nat /\ rec'.amt \in Nat /\ covered \in Nat /\ (chan'.open => chan.open)
  BY RecGrows, ChanLater, LedgerAssumption DEF TypeOK
<1>1. CASE ~chan.scheduled
  <2>1. covered' = rec.amt /\ rec' = rec /\ tpc' = tpc /\ pool' \subseteq pool
    BY <1>1, Schedules DEF towerVars
  <2>2. tpc = "idle" /\ \A x \in pool : x.kind # "blob"
    BY <1>1 DEF Closes
  <2> QED BY <1>0, <2>1, <2>2
<1>2. CASE chan.scheduled
  <2>0. /\ covered' = covered /\ (chan.open => rec.amt >= covered) /\ (tpc = "submit" => hash >= covered)
        /\ \A x \in pool : x.kind = "blob" => x.amt >= covered
    BY <1>2, SameStakes DEF Kept
  <2>1. chan'.open => rec'.amt >= covered
    BY <1>0, <2>0, RecGrows
  <2>2. tpc' = "submit" => hash' >= covered
    BY <2>0, TowerFrame DEF TowerSeesScheduled, TowerSubmit, TowerValidated, TowerGivesUp, TowerCrash
  <2>3. ASSUME NEW y \in pool', y.kind = "blob" PROVE y.amt >= covered
    <3>1. CASE \E x \in pool : y.kind = x.kind /\ y.amt = x.amt /\ y.close = x.close
      BY <2>0, <2>3, <3>1
    <3>2. CASE TowerSubmit /\ y = BlobTx(hash)
      BY <2>0, <3>2 DEF TowerSubmit, BlobTx
    <3>3. y # ClaimTx(job.amt, job.close) /\ y.kind \notin {"ticket", "payer"}
      BY <2>3 DEF ClaimTx
    <3> QED BY <3>1, <3>2, <3>3, PoolLater
  <2> QED BY <2>0, <2>1, <2>2, <2>3
<1> QED BY <1>1, <1>2

\* A submitted blob stays in the open ledger until that ledger is validated.
LEMMA BlobStays ==
  ASSUME TypeOK, [Next]_vars, HasBlob, \A x \in pool : ~ApplyBlob(x)
  PROVE  HasBlob'
<1>0. PICK b \in pool : b.kind = "blob"
  BY DEF HasBlob
<1>1. CASE pool' = pool
  BY <1>0, <1>1 DEF HasBlob
<1>2. CASE PayerCrash \/ TicketFails \/ PayeeCrash
  <2>1. \E y \in pool' : y.kind = b.kind
    BY <1>2, Forgets
  <2> QED BY <1>0, <2>1 DEF HasBlob
<1>3. CASE PayerRequest \/ PayerFinalize \/ RedeemSubmit \/ PushTicket \/ TowerSubmit
  <2>1. b \in pool'
    BY <1>3 DEF PayerRequest, PayerFinalize, RedeemSubmit, PushTicket, TowerSubmit
  <2> QED BY <1>0, <2>1 DEF HasBlob
<1>4. ASSUME NEW x \in pool, ApplyTx(x) PROVE HasBlob'
  <2>1. x.kind # "blob" /\ pool' = pool \ {x}
    BY <1>4 DEF ApplyTx, ApplyTicket, ApplyRedeem, ApplyPayer
  <2> QED BY <1>0, <2>1 DEF HasBlob
<1> QED BY <1>1, <1>2, <1>3, <1>4, LedgerFrame

LEMMA GuardsStep ==
  ASSUME TypeOK, Handed, Closes, Kept, Guards, SettleDelay >= 2, [Next]_vars
  PROVE  Guards'
<1> DEFINE Stays == \/ Fresh /\ tpc = "idle" /\ ~rec.submitted
                    \/ /\ Second
                       /\ closing \/ (towerUp /\ polled /\ tpc = "idle") \/ tpc = "await" => HasBlob
                       /\ rec.submitted => tpc = "submit" \/ HasBlob
<1> SUFFICES ASSUME chan'.scheduled, ~quit', ~outage', ~torn', chan'.balance < covered'
             PROVE  chan'.open /\ ~spent' /\ Stays'
  BY DEF Guards
<1>0. /\ chan \in Entry /\ chan.left \in Nat /\ chan.balance \in Nat /\ covered \in Nat /\ SettleDelay \in Nat
      /\ chan'.balance >= chan.balance /\ chan'.balance \in Nat /\ rec.amt \in Nat
  BY ChanLater, LedgerAssumption DEF TypeOK, Entry
<1>1. CASE ~chan.scheduled
  <2>1. /\ closing /\ closing' = closing /\ chan'.open /\ chan'.left = SettleDelay
        /\ spent' = spent /\ rec' = rec /\ tpc' = tpc
    BY <1>1, Schedules DEF towerVars
  <2>2. ~spent /\ tpc = "idle" /\ ~rec.submitted
    BY <1>1 DEF Closes
  <2> QED BY <2>1, <2>2 DEF Fresh
<1>2. CASE chan.scheduled
  <2>0. ~quit /\ ~outage /\ ~torn /\ covered' = covered
    <3>1. ~quit /\ covered' = covered
      BY <1>2, QuitLater, SameStakes
    <3>2. ~outage
      BY <1>2, HistoryFrame DEF StartClose, ApplyPayer, Scheduling, history
    <3>3. ~torn
      BY <1>2, HistoryFrame DEF TowerCrash, ApplyPayer, Scheduling, history
    <3> QED BY <3>1, <3>2, <3>3
  <2>2. chan.balance < covered
    BY <1>0, <2>0
  <2>3. chan.open /\ ~spent /\ Stays
    BY <1>2, <2>0, <2>2 DEF Guards
  <2>4. chan.left >= 1 /\ chan.left <= SettleDelay
    BY <1>0, <2>3 DEF Fresh, Second
  <2>5. /\ \A x \in pool : ApplyBlob(x) => x.amt < covered
        /\ chan'.open \/ \E x \in pool : ApplyBlob(x)
        /\ EndClose => chan'.left = chan.left - 1
        /\ chan' = chan \/ EndClose \/ chan'.left = chan.left
    <3>1. covered <= owed /\ chan'.balance < covered
      BY <2>0 DEF Closes
    <3> QED BY <1>0, <1>2, <2>0, <2>3, <2>4, <3>1, InDanger
  <2>6. ASSUME NEW x \in pool PROVE ~ApplyBlob(x)
    <3>1. x.kind = "blob" => x.amt >= covered /\ x.amt \in Nat
      BY <1>2, PoolFacts, LedgerAssumption DEF Kept
    <3>2. ApplyBlob(x) => x.kind = "blob"
      BY DEF ApplyBlob
    <3>3. ApplyBlob(x) => x.amt < covered
      BY <2>5
    <3>4. x.amt \in Nat /\ x.amt >= covered => ~(x.amt < covered)
      BY <1>0
    <3> QED BY <3>1, <3>2, <3>3, <3>4
  <2>7. chan'.open /\ ~spent'
    BY <2>3, <2>5, <2>6, LedgerFrame
  <2>8. HasBlob => HasBlob'
    BY <2>6, BlobStays
  <2>9. CASE EndClose /\ closing
    <3>1. ~HasBlob /\ ~closing' /\ ~polled' /\ tpc' = tpc /\ rec' = rec
      BY <2>9 DEF EndClose, HasBlob
    <3>2. Fresh /\ tpc = "idle" /\ ~rec.submitted
      BY <2>3, <2>9, <3>1
    <3>3. chan'.left + 1 = SettleDelay
      BY <1>0, <2>4, <2>5, <2>9, <3>2 DEF Fresh
    <3> QED BY <2>7, <3>1, <3>2, <3>3 DEF Second
  <2>10. CASE ~(EndClose /\ closing)
    <3>1. chan'.left = chan.left /\ (closing => closing')
      BY <2>5, <2>10, LedgerFrame
    <3>2. CASE Fresh /\ tpc = "idle" /\ ~rec.submitted
      <4>1. tpc' = tpc /\ rec' = rec
        BY <3>2, TowerFrame DEF Fresh
      <4> QED BY <2>7, <3>1, <3>2, <4>1 DEF Fresh
    <3> SUFFICES ASSUME ~(Fresh /\ tpc = "idle" /\ ~rec.submitted) PROVE chan'.open /\ ~spent' /\ Stays'
      BY <3>2
    <3>3. Second'
      BY <2>3, <3>1 DEF Second
    <3>4. CASE HasBlob
      BY <2>7, <2>8, <3>3, <3>4
    <3>5. CASE ~HasBlob
      <4>0. ~closing /\ ~(towerUp /\ polled /\ tpc = "idle") /\ tpc # "await" /\ (rec.submitted => tpc = "submit")
        BY <2>3, <3>5
      <4>1. ~closing'
        <5>1. StartClose => towerUp
          BY <1>2, <2>3 DEF StartClose
        <5>2. ~StartClose
          BY <4>0, <5>1 DEF StartClose, TowerSettled
        <5> QED BY <4>0, <5>2, LedgerFrame
      <4>2. ~TowerSeesGone /\ ~TowerSeesQuiet /\ ~TowerValidated /\ ~TowerGivesUp
        <5>1. ~TowerSeesGone /\ ~TowerValidated /\ ~TowerGivesUp
          BY <2>3, <4>0 DEF TowerSeesGone, TowerValidated, TowerGivesUp
        <5>2. rec.amt > chan.balance
          BY <1>0, <1>2, <2>2, <2>3 DEF Kept
        <5>3. tpc = "idle" => TowerMustSubmit
          BY <1>2, <2>3, <4>0, <5>2 DEF TowerMustSubmit, Handed
        <5>4. ~TowerSeesQuiet
          BY <5>3 DEF TowerSeesQuiet, TowerPolls
        <5> QED BY <5>1, <5>4
      <4>3. CASE TowerSeesScheduled
        BY <2>7, <3>3, <4>1, <4>3 DEF TowerSeesScheduled
      <4>4. CASE TowerSubmit
        <5>1. BlobTx(hash) \in pool'
          BY <2>3, <3>5, <4>4 DEF TowerSubmit, HasBlob
        <5>2. HasBlob'
          BY <5>1 DEF HasBlob, BlobTx
        <5> QED BY <2>7, <3>3, <5>2
      <4>5. CASE TowerCrash
        <5>1. ~rec.submitted /\ rec' = rec /\ tpc' = "idle" /\ ~towerUp'
          BY <2>3, <4>0, <4>5 DEF TowerCrash
        <5> QED BY <2>7, <3>3, <4>1, <5>1
      <4>6. CASE ~TowerSeesScheduled /\ ~TowerSubmit /\ ~TowerCrash
        <5>1. tpc' = tpc
          BY <4>2, <4>6, TowerFrame
        <5>2. rec'.submitted => rec.submitted
          <6>1. ASSUME NEW amt \in mail, TowerReceive(amt) PROVE rec'.submitted => rec.submitted
            BY <6>1 DEF TowerReceive, TowerStores, NoRec
          <6> QED BY <4>2, <4>6, <6>1, TowerFrame
        <5>3. towerUp' /\ polled' => towerUp /\ polled
          BY <4>0, <4>2, <4>6, TowerFrame DEF TowerStep, TowerRestart
        <5> QED BY <2>7, <3>3, <4>0, <4>1, <5>1, <5>2, <5>3
      <4> QED BY <4>3, <4>4, <4>5, <4>6
    <3> QED BY <3>4, <3>5
  <2> QED BY <2>9, <2>10
<1> QED BY <1>1, <1>2

\* The tower protects the payee for every settle delay of at least two ledgers:
\* when the entry is gone, the payee has been paid at least the claim the tower
\* held when the payer scheduled the closure, whatever the payee does or loses
\* meanwhile, if the tower was up at every ledger since, did not die between
\* marking the record and submitting the blob (submit_blob), and the payee's
\* operator did not close with less.
THEOREM TowerCorrect == SettleDelay >= 2 => (Spec => []TowerProtects)
<1> SUFFICES ASSUME SettleDelay >= 2 PROVE Spec => []TowerProtects
  OBVIOUS
<1> DEFINE IInv == TypeOK /\ Handed /\ Untowered /\ Jobs /\ Closes /\ Kept /\ Guards
<1>1. Init => IInv
  BY InitType, InitHanded, InitUntowered, InitJobs, InitCloses, InitTower
<1>2. IInv /\ [Next]_vars => IInv'
  BY TypeStep, HandedStep, UntoweredStep, JobsStep, ClosesStep, KeptStep, GuardsStep
<1>3. IInv => TowerProtects
  <2> SUFFICES ASSUME IInv, ~chan.open, ~quit, ~outage, ~torn PROVE chan.balance >= covered
    BY DEF TowerProtects
  <2>1. chan.balance \in Nat /\ covered \in Nat
    BY LedgerAssumption DEF TypeOK, Entry
  <2> QED BY <2>1 DEF Guards, Closes
<1> QED BY <1>1, <1>2, <1>3, PTL DEF Spec

=============================================================================
