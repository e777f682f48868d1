----------------------------- MODULE XrpDispute -----------------------------
(***************************************************************************)
(* Redeeming and closing a payment channel of the XRP arm                  *)
(* (xrp-mvp/xrppay/xrppay.py): the payer schedules the closure, and the    *)
(* payee (watcher, redeem, tower_loop) and its tower on the gateway have   *)
(* the settle delay to get the best claim onto the ledger.                 *)
(*                                                                         *)
(* Processes: the payer's close command; the payee's claim handlers,       *)
(* control threads, watcher and tower thread, which share redeem_lock and  *)
(* chain_lock; the tower's message handlers and its polling loop; and      *)
(* xrpld, which validates a ledger from the submitted transactions.        *)
(*                                                                         *)
(* Time.  Pollers run every 2 s, a ledger closes every 4 s, so every       *)
(* process that is up finishes a poll, and the calls that poll leads to,   *)
(* between two ledgers.  StartClose is therefore guarded by PayeeSettled   *)
(* and TowerSettled; nothing else is synchronised.  A process that cannot  *)
(* reach the gateway acts like one that is down.                           *)
(*                                                                         *)
(* The state files are written inside the sections that change them        *)
(* (XrpPay looks at that), so what a restart loses here is the control     *)
(* state of the threads.                                                   *)
(***************************************************************************)
EXTENDS XrpLedger

CONSTANT Setups       \* how the arm may be set up, a set of records:
                      \*   tower: the payee runs with -tower
                      \*   commands: what the payee's operator may ask for
                      \*   faults: what may go wrong: "payer", "payee" and "tower" may
                      \*     die, a submission of the tower thread may raise ("submit")

ASSUME DisputeAssumption ==
  Setups \subseteq [tower : BOOLEAN, commands : SUBSET {"redeem", "close"},
                    faults : SUBSET {"payer", "payee", "tower", "submit"}]

VARIABLES
  chan, pool, closing, spent, blobRes,             \* xrpld
  best, redeemed, towerDrops, hasTicket, inClosed, \* payee file: state.d["in"]
  payeeUp, watched, want, job, push, notify,       \* payee threads
  mail,                                            \* pushes on their way to the tower
  rec,                                             \* tower file: channels[chan]
  towerUp, polled, tpc, hash,                      \* tower loop
  ppc, outClosed,                                  \* payer
  covered, outage, torn, owed, away, quit,         \* history, see Scheduling
  setup                                            \* how the arm is set up

chainVars == <<chan, pool, closing, spent, blobRes>>
fileVars == <<best, redeemed, towerDrops, hasTicket, inClosed>>
threadVars == <<payeeUp, watched, want, job, push, notify>>
payeeVars == <<fileVars, threadVars>>
towerVars == <<rec, towerUp, polled, tpc, hash>>
payerVars == <<ppc, outClosed>>
history == <<covered, outage, torn, owed, away, quit>>
moving == <<chainVars, payeeVars, mail, towerVars, payerVars, history>>
vars == <<moving, setup>>

HasTower == setup.tower
Commands == setup.commands
Faults == setup.faults

Amount == 1..Funding

\* A transaction in the open ledger.  `live' tells whether the thread that
\* submitted it still waits for the result.
ClaimTx(amt, close) == [kind |-> "redeem", amt |-> amt, close |-> close, live |-> TRUE]
BlobTx(amt) == [kind |-> "blob", amt |-> amt, close |-> TRUE, live |-> FALSE]
TicketTx == [kind |-> "ticket", amt |-> 0, close |-> FALSE, live |-> TRUE]
PayerTx == [kind |-> "payer", amt |-> 0, close |-> TRUE, live |-> TRUE]

Tx == [kind : {"redeem", "blob", "ticket", "payer"}, amt : 0..Funding,
       close : BOOLEAN, live : BOOLEAN]

NoJob == [pc |-> "none", amt |-> 0, close |-> FALSE, before |-> 0]

NoRec == [amt |-> 0, submitted |-> FALSE, done |-> FALSE, result |-> "none"]

Result == {"none", "tesSUCCESS", "tec"}

TypeOK ==
  /\ chan \in Entry
  /\ pool \subseteq Tx
  /\ closing \in BOOLEAN /\ spent \in BOOLEAN
  /\ blobRes \in [Amount -> Result]
  /\ best \in 0..Funding /\ redeemed \in 0..Funding /\ towerDrops \in 0..Funding
  /\ hasTicket \in BOOLEAN /\ inClosed \in BOOLEAN
  /\ payeeUp \in BOOLEAN /\ watched \in BOOLEAN
  /\ want \in BOOLEAN /\ notify \in BOOLEAN
  /\ job \in [pc : {"none", "ready", "sent", "ok", "failed"}, amt : 0..Funding,
              close : BOOLEAN, before : Nat]
  /\ push \in [pc : {"idle", "needTicket", "ticket", "ticketed", "wait", "acked"},
               amt : 0..Funding]
  /\ mail \subseteq Amount
  /\ rec \in [amt : 0..Funding, submitted : BOOLEAN, done : BOOLEAN, result : Result]
  /\ towerUp \in BOOLEAN /\ polled \in BOOLEAN
  /\ tpc \in {"idle", "submit", "await"} /\ hash \in 0..Funding
  /\ ppc \in {"idle", "sent", "poll"} /\ outClosed \in BOOLEAN
  /\ setup \in Setups
  /\ covered \in 0..Funding /\ owed \in 0..Funding
  /\ outage \in BOOLEAN /\ torn \in BOOLEAN /\ away \in BOOLEAN /\ quit \in BOOLEAN

Init ==
  /\ setup \in Setups
  /\ chan = NewEntry /\ pool = {} /\ closing = FALSE /\ spent = FALSE
  /\ blobRes = [a \in Amount |-> "none"]
  /\ best = 0 /\ redeemed = 0 /\ towerDrops = 0 /\ hasTicket = FALSE /\ inClosed = FALSE
  /\ payeeUp = TRUE /\ watched = FALSE /\ want = FALSE /\ job = NoJob
  /\ push = [pc |-> "idle", amt |-> 0] /\ notify = HasTower
  /\ mail = {} /\ rec = NoRec
  /\ towerUp = TRUE /\ polled = FALSE /\ tpc = "idle" /\ hash = 0
  /\ ppc = "idle" /\ outClosed = FALSE
  /\ covered = 0 /\ outage = FALSE /\ torn = FALSE /\ owed = 0 /\ away = FALSE /\ quit = FALSE

MaxOf(a, b) == IF a > b THEN a ELSE b

\* submit() holds chain_lock until its transaction is validated.
ChainLockFree == job.pc # "sent" /\ push.pc # "ticket"

-----------------------------------------------------------------------------
(* The payer: payer_close.                                                 *)

\* The close command, first transaction.  Nothing keeps a second command
\* from doing it again.
PayerRequest ==
  /\ ppc = "idle"
  /\ pool' = pool \cup {PayerTx}
  /\ ppc' = "sent"
  /\ UNCHANGED <<chan, closing, spent, blobRes, payeeVars, mail, towerVars, outClosed, history>>

\* The poll finds the entry gone, whoever deleted it.
PayerSeesGone ==
  /\ ppc = "poll"
  /\ ~chan.open
  /\ outClosed' = TRUE
  /\ ppc' = "idle"
  /\ UNCHANGED <<chainVars, payeeVars, mail, towerVars, history>>

\* mutant: the last transaction is never sent
PayerFinalizeEarlyReturn ==
  /\ ppc = "poll"
  /\ chan.open /\ Expired(chan)
  /\ ppc' = "idle"
  /\ UNCHANGED <<chainVars, payeeVars, mail, towerVars, outClosed, history>>

\* The settle delay is over: the last transaction deletes the entry.
PayerFinalize ==
  /\ ppc = "poll"
  /\ chan.open /\ Expired(chan)
  /\ pool' = pool \cup {PayerTx}
  /\ ppc' = "sent"
  /\ UNCHANGED <<chan, closing, spent, blobRes, payeeVars, mail, towerVars, outClosed, history>>

\* Nobody resumes the loop of payer_close after a restart.
PayerCrash ==
  /\ "payer" \in Faults
  /\ ppc' = "idle"
  /\ pool' = {[x EXCEPT !.live = @ /\ x.kind # "payer"] : x \in pool}
  /\ UNCHANGED <<chan, closing, spent, blobRes, payeeVars, mail, towerVars, outClosed, history>>

-----------------------------------------------------------------------------
(* The payee: on_claim (the checks are in XrpPay).                         *)

\* A claim is accepted and the tower thread notified.  Neither a scheduled
\* closure nor a closed channel stops it.
OnClaim(amt) ==
  /\ payeeUp
  /\ amt > best
  /\ best' = amt
  /\ notify' = HasTower
  /\ UNCHANGED <<chainVars, redeemed, towerDrops, hasTicket, inClosed,
                 payeeUp, watched, want, job, push, mail, towerVars, payerVars, history>>

(* The payee: redeem, called by the watcher (want) or a control thread.    *)

\* redeem_lock is taken and the best claim read, along with the balance of
\* the account before the transaction.
StartRedeem(close) ==
  /\ job.pc = "none"
  /\ best > redeemed \/ close
  /\ job' = [pc |-> "ready", amt |-> best, close |-> close, before |-> chan.balance]

CtlRedeem(close) ==
  /\ payeeUp
  /\ (IF close THEN "close" ELSE "redeem") \in Commands
  /\ StartRedeem(close)
  /\ quit' = (quit \/ close)
  /\ UNCHANGED <<chainVars, fileVars, payeeUp, watched, want, push, notify,
                 mail, towerVars, payerVars, covered, outage, torn, owed, away>>

WatcherRedeem ==
  /\ payeeUp
  /\ want
  /\ StartRedeem(TRUE)
  /\ want' = FALSE
  /\ UNCHANGED <<chainVars, fileVars, payeeUp, watched, push, notify,
                 mail, towerVars, payerVars, history>>

\* submit() once chain_lock is free.
RedeemSubmit ==
  /\ job.pc = "ready"
  /\ ChainLockFree
  /\ pool' = pool \cup {ClaimTx(job.amt, job.close)}
  /\ job' = [job EXCEPT !.pc = "sent"]
  /\ UNCHANGED <<chan, closing, spent, blobRes, fileVars, payeeUp, watched, want,
                 push, notify, mail, towerVars, payerVars, history>>

\* mutant: the claim counts as redeemed whether or not it was paid
RedeemDoneUnpaid ==
  /\ job.pc = "ok"
  /\ redeemed' = MaxOf(redeemed, job.amt)
  /\ inClosed' = (inClosed \/ ~chan.open)
  /\ job' = NoJob
  /\ watched' = FALSE
  /\ UNCHANGED <<chainVars, best, towerDrops, hasTicket, payeeUp, want, push, notify,
                 mail, towerVars, payerVars, history>>

\* The transaction succeeded: book the claim if the account grew, and note
\* whether the entry is gone.  The watcher runs again, now that redeem_lock
\* is free.
RedeemDone ==
  /\ job.pc = "ok"
  /\ redeemed' = IF chan.balance > job.before THEN MaxOf(redeemed, job.amt) ELSE redeemed
  /\ inClosed' = (inClosed \/ ~chan.open)
  /\ job' = NoJob
  /\ watched' = FALSE
  /\ UNCHANGED <<chainVars, best, towerDrops, hasTicket, payeeUp, want, push, notify,
                 mail, towerVars, payerVars, history>>

\* submit() raised on a tec result: nothing is booked.
RedeemFailed ==
  /\ job.pc = "failed"
  /\ job' = NoJob
  /\ watched' = FALSE
  /\ UNCHANGED <<chainVars, fileVars, payeeUp, want, push, notify,
                 mail, towerVars, payerVars, history>>

(* The payee: watcher.  It stays quiet while redeem_lock is held.          *)

WatcherPolls ==
  /\ payeeUp
  /\ ~watched /\ ~want
  /\ job.pc = "none"
  /\ watched' = TRUE
  /\ UNCHANGED <<chainVars, best, towerDrops, hasTicket, payeeUp, job, push, notify,
                 mail, towerVars, payerVars, history>>

\* tower_status(), {} without a tower or when it does not answer.
TowerPaid == HasTower /\ towerUp /\ rec.result = "tesSUCCESS"

\* mutant: without a report of the tower the channel stays on the books
WatcherSeesGoneIfPaid ==
  /\ ~inClosed /\ ~chan.open
  /\ inClosed' = TowerPaid
  /\ redeemed' = IF TowerPaid THEN MaxOf(redeemed, rec.amt) ELSE redeemed
  /\ want' = want
  /\ WatcherPolls

\* The entry is gone: the channel is closed, and if the tower reports a
\* successful blob its amount counts as redeemed.
WatcherSeesGone ==
  /\ ~inClosed /\ ~chan.open
  /\ inClosed' = TRUE
  /\ redeemed' = IF TowerPaid THEN MaxOf(redeemed, rec.amt) ELSE redeemed
  /\ want' = want
  /\ WatcherPolls

\* mutant: the watcher never reacts to the expiration
WatcherBlind ==
  /\ ~inClosed /\ chan.open
  /\ want' = FALSE
  /\ UNCHANGED <<inClosed, redeemed>>
  /\ WatcherPolls

\* An expiration is set and something is unredeemed: redeem with close.
WatcherSeesOpen ==
  /\ ~inClosed /\ chan.open
  /\ want' = (chan.scheduled /\ best > redeemed)
  /\ UNCHANGED <<inClosed, redeemed>>
  /\ WatcherPolls

(* The payee: tower_loop and tower_push.                                   *)

\* Read the best claim; if the tower lacks it, sign the blob and send it.
\* A tower that is down refuses the connection.
SendBest ==
  IF best > towerDrops
  THEN push' = [pc |-> "wait", amt |-> best] /\ mail' = IF towerUp THEN mail \cup {best} ELSE mail
  ELSE push' = [push EXCEPT !.pc = "idle"] /\ UNCHANGED mail

\* The queued notifications collapse into one push; a closed channel needs
\* none, and the first push needs a Ticket first.
PushStart ==
  /\ payeeUp /\ notify /\ push.pc = "idle"
  /\ notify' = FALSE
  /\ CASE inClosed -> UNCHANGED <<push, mail>>
       [] ~inClosed /\ hasTicket -> SendBest
       [] ~inClosed /\ ~hasTicket -> push' = [push EXCEPT !.pc = "needTicket"] /\ UNCHANGED mail
  /\ UNCHANGED <<chainVars, fileVars, payeeUp, watched, want, job, towerVars, payerVars, history>>

\* TicketCreate, under chain_lock.
PushTicket ==
  /\ push.pc = "needTicket"
  /\ ChainLockFree
  /\ pool' = pool \cup {TicketTx}
  /\ push' = [push EXCEPT !.pc = "ticket"]
  /\ UNCHANGED <<chan, closing, spent, blobRes, fileVars, payeeUp, watched, want, job, notify,
                 mail, towerVars, payerVars, history>>

\* The Ticket is there: it is saved and the push goes on.
PushTicketed ==
  /\ push.pc = "ticketed"
  /\ hasTicket' = TRUE
  /\ SendBest
  /\ UNCHANGED <<chainVars, best, redeemed, towerDrops, inClosed, payeeUp, watched, want, job, notify,
                 towerVars, payerVars, history>>

\* mutant: cumulative amounts are added up
PushAckedAdds ==
  /\ push.pc = "acked"
  /\ towerDrops' = towerDrops + push.amt
  /\ push' = [push EXCEPT !.pc = "idle"]
  /\ UNCHANGED <<chainVars, best, redeemed, hasTicket, inClosed, payeeUp, watched, want, job, notify,
                 mail, towerVars, payerVars, history>>

PushAcked ==
  /\ push.pc = "acked"
  /\ towerDrops' = MaxOf(towerDrops, push.amt)
  /\ push' = [push EXCEPT !.pc = "idle"]
  /\ UNCHANGED <<chainVars, best, redeemed, hasTicket, inClosed, payeeUp, watched, want, job, notify,
                 mail, towerVars, payerVars, history>>

\* tower_loop after an exception: try again in 2 s.
PushAgain == push' = [push EXCEPT !.pc = "idle"] /\ notify' = TRUE

\* TicketCreate could not be submitted, or its result not be seen.
TicketFails ==
  /\ "submit" \in Faults
  /\ push.pc \in {"needTicket", "ticket"}
  /\ PushAgain
  /\ pool' = {[x EXCEPT !.live = @ /\ x.kind # "ticket"] : x \in pool}
  /\ UNCHANGED <<chan, closing, spent, blobRes, fileVars, payeeUp, watched, want, job,
                 mail, towerVars, payerVars, history>>

\* mutant: a failed push is forgotten
PushFailsForGood ==
  /\ push.pc \in {"wait", "acked"}
  /\ push' = [push EXCEPT !.pc = "idle"]
  /\ UNCHANGED <<chainVars, fileVars, payeeUp, watched, want, job, notify,
                 mail, towerVars, payerVars, history>>

\* No connection, no answer in 5 s, or a lost answer.  A message already sent
\* may still arrive.
PushFails ==
  /\ push.pc \in {"wait", "acked"}
  /\ PushAgain
  /\ UNCHANGED <<chainVars, fileVars, payeeUp, watched, want, job,
                 mail, towerVars, payerVars, history>>

(* The payee dies, or loses the gateway; it comes back from its file and   *)
(* pushes once.                                                            *)

PayeeCrash ==
  /\ "payee" \in Faults /\ payeeUp
  /\ payeeUp' = FALSE
  /\ job' = NoJob /\ want' = FALSE
  /\ push' = [pc |-> "idle", amt |-> 0] /\ notify' = FALSE
  /\ pool' = {[x EXCEPT !.live = @ /\ x.kind = "payer"] : x \in pool}
  /\ away' = TRUE
  /\ UNCHANGED <<chan, closing, spent, blobRes, fileVars, watched, mail, towerVars, payerVars,
                 covered, outage, torn, owed, quit>>

PayeeRestart ==
  /\ ~payeeUp
  /\ payeeUp' = TRUE
  /\ watched' = FALSE
  /\ notify' = HasTower
  /\ UNCHANGED <<chainVars, fileVars, want, job, push, mail, towerVars, payerVars, history>>

-----------------------------------------------------------------------------
(* The tower: on_message, any time, in a thread of its own.                *)

\* mutant: the last message wins
TowerStoresAny(amt) == [NoRec EXCEPT !.amt = amt]

\* A claim replaces the record unless it is no higher than a record that is
\* still being watched.
TowerStores(amt) ==
  IF rec.amt >= amt /\ ~rec.done THEN rec ELSE [NoRec EXCEPT !.amt = amt]

TowerReceive(amt) ==
  /\ towerUp
  /\ rec' = TowerStores(amt)
  /\ mail' = mail \ {amt}
  /\ push' = IF push.pc = "wait" /\ push.amt = amt THEN [push EXCEPT !.pc = "acked"] ELSE push
  /\ UNCHANGED <<chainVars, fileVars, payeeUp, watched, want, job, notify,
                 towerUp, polled, tpc, hash, payerVars, history>>

(* The tower: loop, one channel.                                           *)

TowerPolls ==
  /\ towerUp /\ tpc = "idle" /\ ~polled
  /\ polled' = TRUE
  /\ UNCHANGED <<chainVars, payeeVars, mail, towerUp, payerVars, history>>

\* The entry is gone: the record is done.
TowerSeesGone ==
  /\ ~chan.open
  /\ rec' = IF rec.amt > 0 THEN [rec EXCEPT !.done = TRUE] ELSE rec
  /\ UNCHANGED <<tpc, hash>>
  /\ TowerPolls

TowerMustSubmit ==
  /\ ~rec.done /\ ~rec.submitted
  /\ chan.scheduled
  /\ rec.amt > chan.balance

TowerSeesQuiet ==
  /\ chan.open /\ ~TowerMustSubmit
  /\ UNCHANGED <<rec, tpc, hash>>
  /\ TowerPolls

\* mutant: the loop waits for the expiration instead of reacting to it
TowerSeesScheduledLate ==
  /\ chan.open /\ TowerMustSubmit
  /\ rec' = IF Expired(chan) THEN [rec EXCEPT !.submitted = TRUE] ELSE rec
  /\ hash' = IF Expired(chan) THEN rec.amt ELSE hash
  /\ tpc' = IF Expired(chan) THEN "submit" ELSE tpc
  /\ TowerPolls

\* submit_blob, first section: the record is marked and saved.
TowerSeesScheduled ==
  /\ chan.open /\ TowerMustSubmit
  /\ rec' = [rec EXCEPT !.submitted = TRUE]
  /\ hash' = rec.amt
  /\ tpc' = "submit"
  /\ TowerPolls

\* SubmitOnly.  A blob whose Ticket is spent, or about to be by a blob in the
\* open ledger, is refused (tefNO_TICKET).
TowerSubmit ==
  /\ tpc = "submit"
  /\ pool' = IF spent \/ \E x \in pool : x.kind = "blob" THEN pool ELSE pool \cup {BlobTx(hash)}
  /\ tpc' = "await"
  /\ UNCHANGED <<chan, closing, spent, blobRes, payeeVars, mail, rec, towerUp, polled, hash, payerVars, history>>

\* The blob is validated: the result goes to whatever record is there now.
TowerValidated ==
  /\ tpc = "await"
  /\ hash \in Amount /\ blobRes[hash] # "none"
  /\ rec' = [rec EXCEPT !.result = blobRes[hash], !.done = (blobRes[hash] = "tesSUCCESS")]
  /\ tpc' = "idle" /\ polled' = FALSE /\ UNCHANGED hash
  /\ UNCHANGED <<chainVars, payeeVars, mail, towerUp, payerVars, history>>

\* 40 s without a validated blob.
TowerGivesUp ==
  /\ tpc = "await"
  /\ BlobTx(hash) \notin pool /\ (hash \in Amount => blobRes[hash] = "none")
  /\ tpc' = "idle" /\ polled' = FALSE
  /\ UNCHANGED <<chainVars, payeeVars, mail, rec, towerUp, hash, payerVars, history>>

\* The process dies, also of an exception in submit_blob, which loop does
\* not catch.
TowerCrash ==
  /\ "tower" \in Faults /\ towerUp
  /\ towerUp' = FALSE /\ tpc' = "idle" /\ hash' = 0
  /\ mail' = {}
  /\ torn' = (torn \/ (chan.open /\ tpc = "submit"))
  /\ UNCHANGED <<chainVars, payeeVars, rec, polled, payerVars, covered, outage, owed, away, quit>>

TowerRestart ==
  /\ ~towerUp
  /\ towerUp' = TRUE /\ polled' = FALSE
  /\ UNCHANGED <<chainVars, payeeVars, mail, rec, tpc, hash, payerVars, history>>

-----------------------------------------------------------------------------
(* xrpld validates a ledger.                                               *)

PayeeSettled ==
  payeeUp => /\ push.pc # "ticketed"
             /\ \/ job.pc = "sent"
                \/ job.pc = "ready" /\ ~ChainLockFree
                \/ job.pc = "none" /\ ~want /\ (watched \/ inClosed)

TowerSettled ==
  towerUp => \/ tpc = "idle" /\ polled
             \/ tpc = "await" /\ (hash \in Amount => blobRes[hash] = "none")

StartClose ==
  /\ PayeeSettled /\ TowerSettled
  /\ closing' = TRUE
  /\ outage' = (outage \/ (chan.open /\ chan.scheduled /\ ~towerUp))
  /\ UNCHANGED <<chan, pool, spent, blobRes, payeeVars, mail, towerVars, payerVars,
                 covered, torn, owed, away, quit>>

ApplyTicket(x) ==
  /\ x.kind = "ticket"
  /\ pool' = pool \ {x}
  /\ push' = IF x.live THEN [push EXCEPT !.pc = "ticketed"] ELSE push
  /\ UNCHANGED <<chan, closing, spent, blobRes, fileVars, payeeUp, watched, want, job, notify,
                 mail, towerVars, payerVars, history>>

ApplyRedeem(x) ==
  /\ x.kind = "redeem"
  /\ pool' = pool \ {x}
  /\ chan' = AfterPayeeClaim(chan, x.amt, x.close)
  /\ job' = IF x.live THEN [job EXCEPT !.pc = IF PayeeClaimOK(chan, x.amt) THEN "ok" ELSE "failed"] ELSE job
  /\ UNCHANGED <<closing, spent, blobRes, fileVars, payeeUp, watched, want, push, notify,
                 mail, towerVars, payerVars, history>>

ApplyBlob(x) ==
  /\ x.kind = "blob"
  /\ pool' = pool \ {x}
  /\ IF spent THEN UNCHANGED <<chan, spent, blobRes>>
     ELSE /\ chan' = AfterPayeeClaim(chan, x.amt, TRUE)
          /\ spent' = TRUE
          /\ blobRes' = [blobRes EXCEPT ![x.amt] = IF PayeeClaimOK(chan, x.amt) THEN "tesSUCCESS" ELSE "tec"]
  /\ UNCHANGED <<closing, payeeVars, mail, towerVars, payerVars, history>>

\* The history variables record what there was to protect when the closure
\* was scheduled: the claim the tower held and the best claim of the payee
\* (covered, owed), whether tower and payee kept running since (outage, torn,
\* away), and whether the payee's operator ever asked to close (quit).
Scheduling ==
  IF chan'.scheduled /\ ~chan.scheduled
  THEN covered' = rec.amt /\ owed' = best /\ outage' = FALSE /\ torn' = FALSE /\ away' = ~payeeUp
       /\ UNCHANGED quit
  ELSE UNCHANGED history

ApplyPayer(x) ==
  /\ x.kind = "payer"
  /\ pool' = pool \ {x}
  /\ chan' = AfterPayerClose(chan)
  /\ ppc' = IF x.live THEN IF chan.open THEN "poll" ELSE "idle" ELSE ppc
  /\ Scheduling
  /\ UNCHANGED <<closing, spent, blobRes, payeeVars, mail, towerVars, outClosed>>

EndClose ==
  /\ pool = {}
  /\ closing' = FALSE
  /\ chan' = Aged(chan)
  /\ watched' = FALSE /\ polled' = FALSE
  /\ UNCHANGED <<pool, spent, blobRes, fileVars, payeeUp, want, job, push, notify, mail,
                 rec, towerUp, tpc, hash, payerVars, history>>

ApplyTx(x) == ApplyTicket(x) \/ ApplyRedeem(x) \/ ApplyBlob(x) \/ ApplyPayer(x)

CloseStep == (\E x \in pool : ApplyTx(x)) \/ EndClose

-----------------------------------------------------------------------------
PayerStep == PayerRequest \/ PayerSeesGone \/ PayerFinalize

RedeemStep == WatcherRedeem \/ RedeemSubmit \/ RedeemDone \/ RedeemFailed

WatcherStep == WatcherSeesGone \/ WatcherSeesOpen

PushStep == PushStart \/ PushTicket \/ PushTicketed \/ PushAcked

TowerStep == TowerSeesGone \/ TowerSeesQuiet \/ TowerSeesScheduled
             \/ TowerSubmit \/ TowerValidated \/ TowerGivesUp

FailureStep == TicketFails \/ PushFails \/ PayerCrash \/ PayeeCrash \/ PayeeRestart \/ TowerCrash \/ TowerRestart

Step ==
  \/ closing /\ CloseStep
  \/ ~closing /\ \/ StartClose
                 \/ PayerStep
                 \/ \E amt \in Amount : OnClaim(amt)
                 \/ \E close \in BOOLEAN : CtlRedeem(close)
                 \/ RedeemStep
                 \/ WatcherStep
                 \/ PushStep
                 \/ \E amt \in mail : TowerReceive(amt)
                 \/ TowerStep
                 \/ FailureStep

Next == Step /\ UNCHANGED setup

Spec == Init /\ [][Next]_vars

\* The threads of a node that is up are scheduled, ledger-loop.py keeps
\* closing ledgers, a loop that sleeps and polls runs again and again (weak
\* where StartClose waits for the step, strong where ledgers pass it by),
\* chain_lock is not taken for ever by a tower thread that sleeps 2 s after
\* every failure, and the link is not broken for good: a tower that is asked again and again
\* answers in time once.
Fairness ==
  /\ WF_moving(closing /\ CloseStep)
  /\ WF_moving(~closing /\ StartClose)
  /\ WF_moving(~closing /\ RedeemStep)
  /\ SF_moving(~closing /\ RedeemSubmit)
  /\ WF_moving(~closing /\ WatcherStep)
  /\ WF_moving(~closing /\ PushTicketed)
  /\ WF_moving(~closing /\ TowerStep)
  /\ SF_moving(~closing /\ (PayerSeesGone \/ PayerFinalize))
  /\ SF_moving(~closing /\ (PushStart \/ PushTicket))
  /\ SF_moving(~closing /\ PushAcked)
  /\ SF_moving(~closing /\ push.pc = "wait" /\ push.amt \in mail /\ TowerReceive(push.amt))

LiveSpec == Spec /\ Fairness

-----------------------------------------------------------------------------
(* Properties.                                                             *)

\* The payee's note of what the tower holds (tower_drops) is true while the
\* channel is open: the tower's record covers it, and was really owed.
HandoverIsTrue == chan.open => towerDrops <= rec.amt /\ rec.amt <= best

\* The tower protects the payee (xrp-mvp/README.md: "As soon as it sees an
\* expiration on the channel, it submits the blob"): when the entry is gone,
\* the payee has been paid at least the claim the tower held when the payer
\* scheduled the closure, if the tower was up at every ledger since and did
\* not die between marking the record and submitting the blob.
TowerProtects == ~chan.open /\ ~quit /\ ~outage /\ ~torn => chan.balance >= covered

\* A payee that stays up protects itself ("The watcher of the payee redeems
\* the best claim with close as soon as it sees the scheduled expiration"):
\* when the entry is gone, everything it held when the payer scheduled the
\* closure has been paid.
WatcherProtects == ~chan.open /\ ~quit /\ ~away => chan.balance >= owed

\* That holds of a payee without a tower, whose own transactions are the only
\* claims (redeem, watcher).
LoneWatcherProtects == ~HasTower => WatcherProtects

\* A scheduled closure is carried out: payer_close does not return before
\* somebody's transaction has deleted the entry.
ClosureCompletes == chan.scheduled ~> ~chan.open

\* The payee finds out: its watcher notices that the entry is gone, also when
\* the tower or the payer deleted it.
PayeeLearnsOfClosure == ~chan.open ~> inClosed

\* Notifications are not lost (tower_loop): as long as the channel is open
\* the tower's acknowledged claim catches up with the best one, however many
\* pushes fail.
TowerCatchesUp == []<>(~chan.open \/ towerDrops = best)

\* The books of a payee without a tower are right: what it counts as redeemed
\* the ledger paid (redeem, which compares the account before and after).
RedeemedIsPaid == ~HasTower => redeemed <= chan.balance
=============================================================================
