---------------------------- MODULE MCConsensus ----------------------------
(* Instances of Consensus for TLC: the rotations the runs use. *)
EXTENDS Consensus

CONSTANTS v1, v2

OneValidator == <<v1>>
TwoValidators == <<v1, v2>>
=============================================================================
