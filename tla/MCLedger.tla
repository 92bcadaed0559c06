------------------------------- MODULE MCLedger -------------------------------
(* Three accounts: two validators and a wallet of the EVM side. *)
EXTENDS Ledger

MCFunds == <<2, 1, 1>>

MCStakes == <<3, 3, 3>>

MCTerms == {[cliff |-> 1, duration |-> 3]}

MCOffences == {<<1, 1>>}
=============================================================================
