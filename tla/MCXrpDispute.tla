---------------------------- MODULE MCXrpDispute ----------------------------
(* Small instances of XrpDispute for TLC. *)
EXTENDS XrpDispute

\* A payee with a tower; payee and tower may die.
Towered == [tower |-> TRUE, commands |-> {}, faults |-> {"payee", "tower", "submit"}]

\* A payee without a tower, with an operator who redeems.
Lone == [tower |-> FALSE, commands |-> {"redeem", "close"}, faults |-> {"payer", "payee"}]

\* No process dies; pushes to the tower fail now and then.
Smooth == [tower |-> TRUE, commands |-> {}, faults |-> {}]

DisputeSetups == {Towered, Lone}
SmoothSetups == {Smooth}
=============================================================================
