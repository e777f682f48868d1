------------------------------ MODULE XrpClaims ------------------------------
(***************************************************************************)
(* What the payment link of the XRP arm promises, without its protocol.    *)
(* The payer issues claims on a channel, each a cumulative amount; the     *)
(* payee holds, for every channel, the highest claim it has accepted.  A   *)
(* claim is worth money only if the payer really issued it and the ledger  *)
(* can pay it, and money the payee holds is never given up again.          *)
(*                                                                         *)
(* XrpPay implements this specification with threads, a lossy link,        *)
(* retries and two state files.                                            *)
(***************************************************************************)
EXTENDS Naturals

CONSTANTS Channel,   \* the channels the payer may create
          Funding,   \* what one channel is funded with
          MaxTotal   \* bound: the highest amount ever signed

VARIABLES issued,    \* the claims the payer has signed, as <<channel, amount>>
          held       \* the amount the payee durably holds on each channel

claimVars == <<issued, held>>

Claim == Channel \X (0..MaxTotal)

ClaimsInit == /\ issued = {}
              /\ held = [c \in Channel |-> 0]

Issue == \E x \in Claim : /\ issued' = issued \cup {x}
                          /\ UNCHANGED held

Accept == \E x \in issued : /\ x[2] > held[x[1]]
                            /\ x[2] <= Funding
                            /\ held' = [held EXCEPT ![x[1]] = x[2]]
                            /\ UNCHANGED issued

ClaimsNext == Issue \/ Accept

ClaimsSpec == ClaimsInit /\ [][ClaimsNext]_claimVars
==============================================================================
