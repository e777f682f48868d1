------------------------------ MODULE MCXrpPay ------------------------------
(* Small instances of XrpPay for TLC. *)
EXTENDS XrpPay, TLC

Channels == Permutations(Channel)
=============================================================================
