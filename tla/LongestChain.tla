---------------------------- MODULE LongestChain ----------------------------
(***************************************************************************)
(* What nodes promise about their chains to whoever reads them (whitepaper *)
(* section 4.3): a chain is only ever replaced by a longer one, and a step *)
(* never touches the blocks that were final on the chain it replaces.      *)
(* Producing, accepting a block, extending by sync and reorganising are    *)
(* all instances of that one step.                                         *)
(***************************************************************************)
EXTENDS ChainRules

CONSTANT Holders   \* who holds a chain

VARIABLE log       \* log[n]: the chain of n

Init == log = [n \in Holders |-> <<>>]

Longer(c, d) == /\ d \in Seq(Block)
                /\ Len(d) > Len(c)
                /\ \A i \in 1..FinalizedHeight(c) : d[i] = c[i]

Grow == \E n \in Holders : \E d \in {log'[n]} :
          /\ Longer(log[n], d)
          /\ log' = [log EXCEPT ![n] = d]

Spec == Init /\ [][Grow]_log
=============================================================================
