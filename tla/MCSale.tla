------------------------------- MODULE MCSale -------------------------------
(* A ladder of two tiers: the first intent raised gets more than the next. *)
EXTENDS Sale, TLC

MCTiers == <<[until |-> 1, tokens |-> 2], [until |-> 0, tokens |-> 1]>>

(* Amounts are only compared. *)
AmountSymmetry == Permutations(PayAmounts)
=============================================================================
