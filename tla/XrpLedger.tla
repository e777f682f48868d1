------------------------------ MODULE XrpLedger ------------------------------
(***************************************************************************)
(* The payment channel of xrpld, as the program in src/ uses it.  xrpld is *)
(* not part of the repository: these rules are the ones xrppay.py relies   *)
(* on (PaymentChannelClaim by payer and payee, TF_CLOSE, Expiration,       *)
(* Tickets) and the ones xrp-mvp/README.md states.                         *)
(*                                                                         *)
(* Time is counted in ledgers (ledger-loop.py closes one every 4 s).       *)
(* A transaction is judged by the close time of the parent ledger, so a    *)
(* channel entry keeps `left', the ledgers left until its Expiration seen  *)
(* from the last validated ledger, instead of an absolute time.            *)
(***************************************************************************)
EXTENDS Naturals

CONSTANTS Funding,      \* drops the channel is funded with
          SettleDelay   \* settle_delay of the channel, in ledgers

ASSUME LedgerAssumption == Funding \in Nat /\ SettleDelay \in Nat

\* A channel entry.  `balance' is what the channel has paid to the payee; it
\* is kept when the entry is deleted (open = FALSE) and the rest refunded.
Entry == [open : BOOLEAN, balance : Nat, scheduled : BOOLEAN, left : Nat]

NewEntry == [open |-> TRUE, balance |-> 0, scheduled |-> FALSE, left |-> 0]

\* close_time >= Expiration
Expired(ch) == ch.scheduled /\ ch.left = 0

Deleted(ch) == [ch EXCEPT !.open = FALSE]

(* PaymentChannelClaim of the payee for the cumulative amount amt (0 is a  *)
(* transaction without Balance), with or without TF_CLOSE.                 *)

Unfunded(ch, amt) == amt > 0 /\ (amt <= ch.balance \/ amt > Funding)

PayeeClaimOK(ch, amt) == ch.open /\ (Expired(ch) \/ ~Unfunded(ch, amt))

AfterPayeeClaim(ch, amt, close) ==
  IF ~PayeeClaimOK(ch, amt) THEN ch
  ELSE IF Expired(ch) THEN Deleted(ch)
  ELSE [ch EXCEPT !.balance = IF amt > 0 THEN amt ELSE @, !.open = ~close]

(* PaymentChannelClaim of the payer with TF_CLOSE: schedules the closure,  *)
(* or deletes the entry if it has expired or nothing is left to pay.       *)

AfterPayerClose(ch) ==
  IF ~ch.open THEN ch
  ELSE IF Expired(ch) \/ ch.balance = Funding THEN Deleted(ch)
  ELSE [ch EXCEPT !.scheduled = TRUE,
                  !.left = IF ch.scheduled /\ ch.left < SettleDelay THEN @ ELSE SettleDelay]

\* One more ledger is validated.
Aged(ch) == [ch EXCEPT !.left = IF @ > 0 THEN @ - 1 ELSE 0]
==============================================================================
