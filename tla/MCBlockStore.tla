---------------------------- MODULE MCBlockStore ----------------------------
(* Instances of BlockStore for TLC: two distinguishable lines. *)
EXTENDS BlockStore

CONSTANTS l1, l2
=============================================================================
