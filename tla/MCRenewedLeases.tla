------------------------- MODULE MCRenewedLeases ----------------------------
(***************************************************************************)
(* Small instances of RenewedLeases for TLC.                               *)
(***************************************************************************)
EXTENDS RenewedLeases

OneRun == [a \in Acts |-> CHOOSE r \in Runs : TRUE]
OneKey == [a \in Acts |-> "key"]
=============================================================================
