----------------------------- MODULE ChainRules -----------------------------
(***************************************************************************)
(* The rules of rust/src/blockchain.rs that decide, from a chain alone,    *)
(* who may produce, what is final and which chain replaces which.          *)
(*                                                                         *)
(* A chain is the sequence of its blocks above genesis, so the height of a *)
(* chain is its length and the head hash of a chain is the chain itself    *)
(* (previousHash commits each block to everything below it).  Transactions *)
(* and the state root are abstracted away: every honest block carries a    *)
(* root its readers recompute.  What is kept of a block is its slot and    *)
(* whether it carries its producer's public keys: a block of a producer    *)
(* whose keys the producing node already knows omits them (the "compact"   *)
(* block, COMPACT_BLOCK_HEIGHT = 0).  The signer needs no field: above     *)
(* STRICT_PRODUCER_HEIGHT = 0 add_block accepts only the slot's validator. *)
(***************************************************************************)
EXTENDS Integers, Sequences, FiniteSets

CONSTANTS Nodes,        \* the nodes of the network
          Schedule,     \* the validators, in the order of the rotation
          FinalityMin   \* FINALITY_MIN_VALIDATORS

ASSUME ScheduleAssumption == /\ Schedule \in Seq(Nodes)
                             /\ Schedule # <<>>
                             /\ FinalityMin \in Nat

Validators == {Schedule[i] : i \in 1..Len(Schedule)}

Block == [slot : Nat, full : BOOLEAN]

(* expected_producer: the rotation is indexed by the slot number. *)
ExpectedProducer(s) == Schedule[(s % Len(Schedule)) + 1]

Producer(b) == ExpectedProducer(b.slot)

(* The genesis block occupies slot 0. *)
HeadSlot(c) == IF c = <<>> THEN 0 ELSE c[Len(c)].slot

(* Two chains agree up to height h: their blocks at h have the same hash. *)
AgreeUpTo(c, d, h) == \A i \in 1..h : c[i] = d[i]

-----------------------------------------------------------------------------
(* Finality is read from the chain: a height is final once a quorum of      *)
(* distinct validators produced above it.  finalized_height walks down from *)
(* the head and stops at the first height that completes the quorum.        *)
Quorum == (2 * Len(Schedule)) \div 3 + 1

ProducersFrom(c, h) == {Producer(c[i]) : i \in h..Len(c)}

QuorumAbove(c, h) == Cardinality(ProducersFrom(c, h + 1)) >= Quorum

FinalAt(c, h) == /\ QuorumAbove(c, h)
                 /\ \A k \in (h + 1)..(Len(c) - 1) : ~QuorumAbove(c, k)

FinalizedHeight(c) ==
  IF Len(Schedule) >= FinalityMin /\ \E h \in 0..(Len(c) - 1) : FinalAt(c, h)
  THEN CHOOSE h \in 0..(Len(c) - 1) : FinalAt(c, h)
  ELSE -1

-----------------------------------------------------------------------------
(* The producers whose keys are published in blocks lo..hi of a chain. *)
KeysIn(c, lo, hi) == {Producer(c[i]) : i \in {j \in lo..hi : c[j].full}}

(* verify_block_integrity_ex on block i of c by a chain that has validated  *)
(* the blocks lo..i-1 of c and knew the keys ks before: a compact block     *)
(* verifies only when its producer's keys are known.                        *)
KeysResolve(ks, c, lo, i) ==
  c[i].full \/ Producer(c[i]) \in ks \cup KeysIn(c, lo, i - 1)

(* add_block on block i of c: it extends its parent in a later slot, that   *)
(* is not in the future, and its signature can be verified.                 *)
AddBlockOk(ks, c, lo, i, now) ==
  /\ c[i].slot > HeadSlot(SubSeq(c, 1, i - 1))
  /\ c[i].slot <= now
  /\ KeysResolve(ks, c, lo, i)

(* Every block of d above height h passes add_block. *)
TailOk(ks, d, h, now) == \A i \in (h + 1)..Len(d) : AddBlockOk(ks, d, h + 1, i, now)

(* The whole chain passes the replay of load_from_disk, which starts from   *)
(* no key at all.                                                           *)
ReplaysUpTo(c, k) == \A i \in 1..k : KeysResolve({}, c, 1, i)

(* common_ancestor: the highest height in from.. at which both chains hold  *)
(* the same block.                                                          *)
IsCommon(c, d, from, h) ==
  /\ h \in from..Len(c) /\ h <= Len(d)
  /\ AgreeUpTo(c, d, h)
  /\ \A k \in (h + 1)..Len(c) : k <= Len(d) => ~AgreeUpTo(c, d, k)

(* The blocks c[1..h] followed by d[h+1..k]. *)
Splice(c, d, h, k) == SubSeq(c, 1, h) \o SubSeq(d, h + 1, k)

(* Mutants of ReorgAdopts: the length is not compared; a chain of the same  *)
(* length is adopted.                                                       *)
ReorgAdoptsAnyLength(c, d, common, now) ==
  common >= FinalizedHeight(c) /\ TailOk({}, d, common, now)

ReorgAdoptsEqual(c, d, common, now) ==
  Len(d) >= Len(c) /\ common >= FinalizedHeight(c) /\ TailOk({}, d, common, now)

(* reorg(common, tail of d): adopts d when it is longer, does not undo a    *)
(* final height, and its new tail passes add_block on a candidate chain     *)
(* that starts with an empty table of producer keys.                        *)
ReorgAdopts(c, d, common, now) ==
  /\ Len(d) > Len(c)
  /\ common >= FinalizedHeight(c)
  /\ TailOk({}, d, common, now)
=============================================================================
