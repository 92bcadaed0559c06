------------------------------ MODULE MCChain ------------------------------
(* Instances of Chain for TLC. *)
EXTENDS Chain, TLC

(* The branches are interchangeable. *)
BranchSymmetry == Permutations(Branch)
=============================================================================
