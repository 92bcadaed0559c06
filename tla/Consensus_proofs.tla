-------------------------- MODULE Consensus_proofs --------------------------
(***************************************************************************)
(* Proofs about Consensus for every set of nodes, every rotation and every *)
(* bound: type correctness, no double signing, one block per slot, the     *)
(* implementation of LongestChain, that every chain was signed block by    *)
(* block, and, when every peer answers, that forks stay shallow.           *)
(***************************************************************************)
EXTENDS Consensus, Lemmas

-----------------------------------------------------------------------------
(* Facts about the operators of ChainRules. *)

(* The rotation names a node for every slot. *)
LEMMA ProducerIsNode ==
  ASSUME NEW s \in Nat
  PROVE  ExpectedProducer(s) \in Nodes
<1>1. Len(Schedule) \in Nat /\ Len(Schedule) > 0
  BY ScheduleAssumption
<1>2. (s % Len(Schedule)) + 1 \in 1..Len(Schedule)
  BY <1>1
<1>3. QED
  BY <1>2, ScheduleAssumption DEF ExpectedProducer

(* The slot of a chain's head is a slot, and its signer a node. *)
LEMMA HeadFacts ==
  ASSUME NEW c \in Seq(Block)
  PROVE  HeadSlot(c) \in Nat /\ Signer(c) \in Nodes
<1>1. CASE c = <<>>
  BY <1>1, ProducerIsNode DEF HeadSlot, Signer
<1>2. CASE c # <<>>
  <2>1. Len(c) \in 1..Len(c)
    BY <1>2
  <2>2. c[Len(c)] \in Block
    BY <2>1
  <2>3. c[Len(c)].slot \in Nat
    BY <2>2 DEF Block
  <2>4. QED
    BY <1>2, <2>3, ProducerIsNode DEF HeadSlot, Signer
<1>3. QED
  BY <1>1, <1>2

(* A final height lies strictly below the head. *)
LEMMA FinalBelowHead ==
  ASSUME NEW c \in Seq(Block)
  PROVE  FinalizedHeight(c) \in Int /\ FinalizedHeight(c) <= Len(c)
<1>1. CASE Len(Schedule) >= FinalityMin /\ \E h \in 0..(Len(c) - 1) : FinalAt(c, h)
  <2>1. FinalizedHeight(c) \in 0..(Len(c) - 1)
    BY <1>1 DEF FinalizedHeight
  <2>2. QED
    BY <2>1
<1>2. CASE ~(Len(Schedule) >= FinalityMin /\ \E h \in 0..(Len(c) - 1) : FinalAt(c, h))
  BY <1>2 DEF FinalizedHeight
<1>3. QED
  BY <1>1, <1>2

(* Appending to a chain lengthens it by one and keeps every block of it. *)
LEMMA AppendFacts ==
  ASSUME NEW c \in Seq(Block), NEW b \in Block
  PROVE  /\ Append(c, b) \in Seq(Block)
         /\ Len(Append(c, b)) = Len(c) + 1
         /\ \A i \in 1..Len(c) : Append(c, b)[i] = c[i]
         /\ HeadSlot(Append(c, b)) = b.slot
  BY DEF HeadSlot

(* Keys are published by nodes. *)
LEMMA KeysAreNodes ==
  ASSUME NEW c \in Seq(Block), NEW lo \in Nat, NEW hi \in Nat, 1 <= lo, hi <= Len(c)
  PROVE  KeysIn(c, lo, hi) \subseteq Nodes
<1>1. \A i \in lo..hi : c[i] \in Block
  OBVIOUS
<1>2. \A i \in lo..hi : Producer(c[i]) \in Nodes
  BY <1>1, ProducerIsNode DEF Producer, Block
<1>3. QED
  BY <1>2 DEF KeysIn

(* Concatenation adds lengths and keeps the first sequence in place. *)
LEMMA ConcatFacts ==
  ASSUME NEW S, NEW p \in Seq(S), NEW q \in Seq(S)
  PROVE  /\ p \o q \in Seq(S)
         /\ Len(p \o q) = Len(p) + Len(q)
         /\ \A i \in 1..Len(p) : (p \o q)[i] = p[i]
  OBVIOUS

(* Splicing keeps the first chain up to the cut and has the second's length. *)
LEMMA SpliceFacts ==
  ASSUME NEW c \in Seq(Block), NEW d \in Seq(Block),
         NEW h \in 0..Len(c), NEW k \in h..Len(d)
  PROVE  /\ Splice(c, d, h, k) \in Seq(Block)
         /\ Len(Splice(c, d, h, k)) = k
         /\ \A i \in 1..h : Splice(c, d, h, k)[i] = c[i]
<1> DEFINE p == SubSeq(c, 1, h)
           q == SubSeq(d, h + 1, k)
<1>1. p \in Seq(Block) /\ Len(p) = h /\ \A i \in 1..h : p[i] = c[i]
  OBVIOUS
<1>2. q \in Seq(Block) /\ Len(q) = k - h
  OBVIOUS
<1>3. h \in Nat /\ k \in Nat
  OBVIOUS
<1>4. Splice(c, d, h, k) = p \o q
  BY DEF Splice
<1> HIDE DEF p, q
<1>5. /\ p \o q \in Seq(Block)
      /\ Len(p \o q) = Len(p) + Len(q)
      /\ \A i \in 1..Len(p) : (p \o q)[i] = p[i]
  BY <1>1, <1>2, ConcatFacts
<1>6. Len(p \o q) = k
  BY <1>1, <1>2, <1>3, <1>5
<1>7. QED
  BY <1>1, <1>4, <1>5, <1>6

-----------------------------------------------------------------------------
(* A step leaves chain alone or replaces one node's chain by a longer one   *)
(* that keeps the blocks that are final on it.                              *)

Extends(c, d) == /\ d \in Seq(Block)
                 /\ Len(d) > Len(c)
                 /\ \A i \in 1..FinalizedHeight(c) : d[i] = c[i]

Replaces(n) == /\ Extends(chain[n], chain'[n])
               /\ chain' = [chain EXCEPT ![n] = chain'[n]]

(* Replacing one node's chain by such a chain keeps the chains typed.       *)
LEMMA ReplacesByLonger ==
  ASSUME TypeOK, NEW n \in Nodes, NEW d,
         chain' = [chain EXCEPT ![n] = d],
         Extends(chain[n], d)
  PROVE  Replaces(n) /\ chain' \in [Nodes -> Seq(Block)]
<1>1. chain'[n] = d
  BY DEF TypeOK
<1>2. QED
  BY <1>1 DEF Replaces, Extends, TypeOK

(* Agreement up to a height that is not below the final one is enough. *)
LEMMA ExtendsByPrefix ==
  ASSUME NEW c \in Seq(Block), NEW d \in Seq(Block), NEW h \in Nat,
         Len(d) > Len(c), FinalizedHeight(c) <= h,
         \A i \in 1..h : d[i] = c[i]
  PROVE  Extends(c, d)
<1>1. FinalizedHeight(c) \in Int
  BY FinalBelowHead
<1>2. \A i \in 1..FinalizedHeight(c) : i \in 1..h
  BY <1>1
<1>3. QED
  BY <1>2 DEF Extends

(* A chain with one more block extends it. *)
LEMMA ExtendsByAppend ==
  ASSUME NEW c \in Seq(Block), NEW b \in Block
  PROVE  Extends(c, Append(c, b))
<1>1. /\ Append(c, b) \in Seq(Block)
      /\ Len(Append(c, b)) = Len(c) + 1
      /\ \A i \in 1..Len(c) : Append(c, b)[i] = c[i]
  BY AppendFacts
<1>2. Len(c) \in Nat /\ FinalizedHeight(c) <= Len(c)
  BY FinalBelowHead
<1>3. Len(Append(c, b)) > Len(c)
  BY <1>1, <1>2
<1>4. QED
  BY <1>1, <1>2, <1>3, ExtendsByPrefix

(* The initial state is well typed. *)
LEMMA InitType == Init => TypeOK
  BY DEF Init, TypeOK, Idle, Pull

(* producer.rs tick keeps the types, and lengthens one chain. *)
LEMMA ProduceType ==
  ASSUME TypeOK, NEW n \in Nodes, Produce(n)
  PROVE  TypeOK' /\ Replaces(n)
<1> DEFINE b == [slot |-> slot, full |-> n \notin keys[n]]
           c == Append(chain[n], b)
<1>1. chain[n] \in Seq(Block) /\ b \in Block
  BY DEF TypeOK, Block
<1>2. Extends(chain[n], c) /\ c \in Seq(Block)
  BY <1>1, ExtendsByAppend, AppendFacts
<1>3. chain' = [chain EXCEPT ![n] = c] /\ blocks' = blocks \cup {c}
  BY DEF Produce
<1> HIDE DEF c
<1>4. Replaces(n) /\ chain' \in [Nodes -> Seq(Block)]
  BY <1>2, <1>3, ReplacesByLonger
<1>5. TypeOK'
  BY <1>2, <1>3, <1>4 DEF TypeOK, Produce
<1>6. QED
  BY <1>4, <1>5

(* receive_block keeps the types, and lengthens one chain. *)
LEMMA ReceiveType ==
  ASSUME TypeOK, NEW n \in Nodes, Receive(n)
  PROVE  TypeOK' /\ Replaces(n)
<1>1. PICK c \in blocks : /\ Len(c) = Len(chain[n]) + 1
                          /\ chain' = [chain EXCEPT ![n] = Append(@, c[Len(c)])]
                          /\ keys' = [keys EXCEPT ![n] = @ \cup KeysIn(c, Len(c), Len(c))]
  BY DEF Receive
<1>2. chain[n] \in Seq(Block) /\ c \in Seq(Block) /\ Len(c) \in Nat /\ 1 <= Len(c)
  BY <1>1 DEF TypeOK
<1>3. c[Len(c)] \in Block
  BY <1>2
<1> DEFINE d == Append(chain[n], c[Len(c)])
<1>4. Extends(chain[n], d)
  BY <1>2, <1>3, ExtendsByAppend
<1>5. chain' = [chain EXCEPT ![n] = d]
  BY <1>1
<1> HIDE DEF d
<1>6. Replaces(n) /\ chain' \in [Nodes -> Seq(Block)]
  BY <1>4, <1>5, ReplacesByLonger
<1>7. KeysIn(c, Len(c), Len(c)) \subseteq Nodes
  BY <1>2, KeysAreNodes
<1>8. TypeOK'
  BY <1>1, <1>6, <1>7 DEF TypeOK, Receive
<1>9. QED
  BY <1>6, <1>8

(* Taking the photograph of sync_with_peer keeps the types. *)
LEMMA SyncBeginType ==
  ASSUME TypeOK, NEW n \in Nodes, NEW p \in Nodes, SyncBegin(n, p)
  PROVE  TypeOK'
<1>1. chain[n] \in Seq(Block) /\ chain[p] \in Seq(Block)
  BY DEF TypeOK
<1>2. Len(chain[n]) \in Nat
  BY <1>1
<1> DEFINE q == [stage |-> IF Len(chain[p]) > Len(chain[n]) THEN "extend" ELSE "tip",
                 peer |-> p, alt |-> Len(chain[n]), data |-> chain[p]]
<1>3. q \in Pull
  BY <1>1, <1>2 DEF Pull
<1>4. pull' = [pull EXCEPT ![n] = q]
  BY DEF SyncBegin
<1> HIDE DEF q
<1>5. pull' \in [Nodes -> Pull]
  BY <1>3, <1>4 DEF TypeOK
<1>6. QED
  BY <1>5 DEF SyncBegin, TypeOK

(* Ending a sync round keeps the types. *)
LEMMA IdleType ==
  ASSUME TypeOK, NEW n \in Nodes, pull' = [pull EXCEPT ![n] = Idle(n)]
  PROVE  pull' \in [Nodes -> Pull]
<1>1. Idle(n) \in Pull
  BY DEF Idle, Pull
<1>2. QED
  BY <1>1 DEF TypeOK

(* The next download of a sync round keeps the types. *)
LEMMA RefetchType ==
  ASSUME TypeOK, NEW n \in Nodes, NEW stage \in {"window", "all"}, Refetch(n, stage)
  PROVE  pull' \in [Nodes -> Pull]
<1>1. pull[n] \in Pull /\ pull[n].peer \in Nodes
  BY DEF TypeOK, Pull
<1>2. chain[pull[n].peer] \in Seq(Block)
  BY <1>1 DEF TypeOK
<1>3. [pull[n] EXCEPT !.stage = stage, !.data = chain[pull[n].peer]] \in Pull
  BY <1>1, <1>2 DEF Pull
<1>4. pull' = [pull EXCEPT ![n] = [pull[n] EXCEPT !.stage = stage, !.data = chain[pull[n].peer]]]
  BY DEF Refetch, TypeOK
<1>5. QED
  BY <1>3, <1>4 DEF TypeOK

(* The extension of sync_with_peer keeps the types, and lengthens one chain. *)
LEMMA SyncExtendType ==
  ASSUME TypeOK, NEW n \in Nodes, SyncExtend(n)
  PROVE  TypeOK' /\ Replaces(n)
<1> DEFINE d == pull[n].data
           alt == pull[n].alt
<1>1. chain[n] \in Seq(Block) /\ d \in Seq(Block) /\ alt \in Nat /\ alt = Len(chain[n])
  BY DEF TypeOK, Pull, SyncExtend, Continues
<1>2. PICK k \in (alt + 1)..Len(d) :
           /\ chain' = [chain EXCEPT ![n] = Splice(@, d, alt, k)]
           /\ keys' = [keys EXCEPT ![n] = @ \cup KeysIn(d, alt + 1, k)]
  BY DEF SyncExtend
<1>3. alt \in 0..Len(chain[n]) /\ k \in alt..Len(d) /\ k > Len(chain[n])
  BY <1>1, <1>2
<1> DEFINE e == Splice(chain[n], d, alt, k)
<1>4. e \in Seq(Block) /\ Len(e) = k /\ \A i \in 1..alt : e[i] = chain[n][i]
  BY <1>1, <1>3, SpliceFacts
<1>5. chain' = [chain EXCEPT ![n] = e]
  BY <1>2
<1> HIDE DEF e
<1>6. FinalizedHeight(chain[n]) <= alt
  BY <1>1, FinalBelowHead
<1>7. Extends(chain[n], e)
  BY <1>1, <1>3, <1>4, <1>6, ExtendsByPrefix
<1>8. Replaces(n) /\ chain' \in [Nodes -> Seq(Block)]
  BY <1>5, <1>7, ReplacesByLonger
<1>9. KeysIn(d, alt + 1, k) \subseteq Nodes
  <2>1. alt + 1 \in Nat /\ k \in Nat /\ 1 <= alt + 1 /\ k <= Len(d)
    BY <1>1, <1>3
  <2>2. QED
    BY <1>1, <2>1, KeysAreNodes
<1>10. pull' \in [Nodes -> Pull]
  BY IdleType DEF SyncExtend
<1>11. TypeOK'
  BY <1>2, <1>8, <1>9, <1>10 DEF TypeOK, SyncExtend
<1>12. QED
  BY <1>8, <1>11

(* A reorg keeps the types, and replaces one chain by a longer one. *)
LEMMA SyncReorgType ==
  ASSUME TypeOK, NEW n \in Nodes, SyncReorg(n)
  PROVE  TypeOK' /\ Replaces(n)
<1> DEFINE d == pull[n].data
<1>1. chain[n] \in Seq(Block) /\ d \in Seq(Block)
  BY DEF TypeOK, Pull
<1>2. PICK h \in 0..Len(chain[n]) :
           /\ ReorgPoint(n, h)
           /\ ReorgAdopts(chain[n], d, h, slot)
           /\ chain' = [chain EXCEPT ![n] = Splice(@, d, h, Len(d))]
  BY DEF SyncReorg
<1>3. h <= Len(d) /\ Len(d) > Len(chain[n]) /\ FinalizedHeight(chain[n]) <= h
  <2>1. FinalizedHeight(chain[n]) \in Int
    BY <1>1, FinalBelowHead
  <2>2. QED
    BY <1>1, <1>2, <2>1 DEF ReorgPoint, IsCommon, ReorgAdopts
<1>4. h \in Nat /\ Len(d) \in h..Len(d)
  BY <1>1, <1>3
<1> DEFINE e == Splice(chain[n], d, h, Len(d))
<1>5. e \in Seq(Block) /\ Len(e) = Len(d) /\ \A i \in 1..h : e[i] = chain[n][i]
  BY <1>1, <1>4, SpliceFacts
<1>6. chain' = [chain EXCEPT ![n] = e]
  BY <1>2
<1> HIDE DEF e
<1>7. Extends(chain[n], e)
  BY <1>1, <1>3, <1>4, <1>5, ExtendsByPrefix
<1>8. Replaces(n) /\ chain' \in [Nodes -> Seq(Block)]
  BY <1>6, <1>7, ReplacesByLonger
<1>9. pull' \in [Nodes -> Pull]
  BY IdleType DEF SyncReorg
<1>10. TypeOK'
  BY <1>8, <1>9 DEF TypeOK, SyncReorg
<1>11. QED
  BY <1>8, <1>10

(* A refused reorg keeps the types. *)
LEMMA SyncKeepType ==
  ASSUME TypeOK, NEW n \in Nodes, SyncKeep(n)
  PROVE  TypeOK'
<1>1. pull' \in [Nodes -> Pull]
  <2>1. Refetch(n, "all") \/ pull' = [pull EXCEPT ![n] = Idle(n)]
    BY DEF SyncKeep
  <2>2. QED
    BY <2>1, RefetchType, IdleType
<1>2. QED
  BY <1>1 DEF TypeOK, SyncKeep

(* Falling back to the window keeps the types. *)
LEMMA SyncDivergedType ==
  ASSUME TypeOK, NEW n \in Nodes, SyncDiverged(n)
  PROVE  TypeOK'
<1>1. pull' \in [Nodes -> Pull]
  BY RefetchType DEF SyncDiverged
<1>2. QED
  BY <1>1 DEF TypeOK, SyncDiverged

(* The whole next-state relation. *)
LEMMA StepFacts ==
  ASSUME TypeOK, [Next]_vars
  PROVE  TypeOK' /\ (chain' = chain \/ \E n \in Nodes : Replaces(n))
<1>1. CASE UNCHANGED vars
  BY <1>1 DEF TypeOK, vars
<1>2. CASE NextSlot
  BY <1>2 DEF NextSlot, TypeOK
<1>3. ASSUME NEW n \in Nodes, CheckPeers(n)
      PROVE  TypeOK' /\ chain' = chain
  BY <1>3 DEF CheckPeers, TypeOK
<1>4. ASSUME NEW n \in Nodes, MissSlot(n)
      PROVE  TypeOK' /\ chain' = chain
  BY <1>4 DEF MissSlot, TypeOK
<1>5. ASSUME NEW n \in Nodes, Produce(n) \/ Receive(n) \/ SyncExtend(n) \/ SyncReorg(n)
      PROVE  TypeOK' /\ Replaces(n)
  BY <1>5, ProduceType, ReceiveType, SyncExtendType, SyncReorgType
<1>6. ASSUME NEW n \in Nodes, SyncDiverged(n) \/ SyncKeep(n)
      PROVE  TypeOK' /\ chain' = chain
  BY <1>6, SyncDivergedType, SyncKeepType DEF SyncDiverged, SyncKeep
<1>7. ASSUME NEW n \in Nodes, NEW p \in Nodes, SyncBegin(n, p)
      PROVE  TypeOK' /\ chain' = chain
  BY <1>7, SyncBeginType DEF SyncBegin
<1>8. QED
  BY <1>1, <1>2, <1>3, <1>4, <1>5, <1>6, <1>7 DEF Next, Producing, Syncing

(* Every reachable state is well typed, for any network and rotation. *)
THEOREM TypeCorrect == Spec => []TypeOK
<1>1. TypeOK /\ [Next]_vars => TypeOK'
  BY StepFacts
<1>2. QED
  BY <1>1, InitType, PTL DEF Spec

-----------------------------------------------------------------------------
(* The inductive invariant.  NoDoubleSign alone is not inductive: that a    *)
(* validator's next block is higher than all it signed before is because    *)
(* its chain is at least as high as each of them (SignedBelow), which a     *)
(* reorg preserves because it only ever lengthens the chain.  Likewise two  *)
(* blocks in one slot are excluded because whoever signed in the current    *)
(* slot has it in last_slot (SlotMarked).                                   *)

SignedBelow == \A c \in blocks : Len(c) <= Len(chain[Signer(c)])

SlotMarked == \A c \in blocks :
  /\ HeadSlot(c) <= slot
  /\ HeadSlot(c) = slot => lastSlot[Signer(c)] = slot

Inv == TypeOK /\ SignedBelow /\ SlotMarked /\ NoDoubleSign /\ OneBlockPerSlot

(* The inductive invariant holds initially. *)
LEMMA InitInv == Init => Inv
  BY InitType DEF Init, Inv, SignedBelow, SlotMarked, NoDoubleSign, OneBlockPerSlot

(* Chains never get shorter. *)
LEMMA HeightGrows ==
  ASSUME TypeOK, [Next]_vars, NEW n \in Nodes
  PROVE  Len(chain[n]) \in Nat /\ Len(chain'[n]) \in Nat /\ Len(chain[n]) <= Len(chain'[n])
<1>1. chain[n] \in Seq(Block) /\ chain'[n] \in Seq(Block)
  BY StepFacts DEF TypeOK
<1>2. Len(chain[n]) \in Nat /\ Len(chain'[n]) \in Nat
  BY <1>1
<1>3. CASE chain' = chain
  BY <1>2, <1>3
<1>4. ASSUME NEW m \in Nodes, Replaces(m)
      PROVE  Len(chain[n]) <= Len(chain'[n])
  <2>1. CASE m = n
    BY <1>2, <1>4, <2>1 DEF Replaces, Extends
  <2>2. CASE m # n
    <3>1. chain'[n] = chain[n]
      BY <1>4, <2>2 DEF Replaces, TypeOK
    <3>2. QED
      BY <1>2, <3>1
  <2>3. QED
    BY <2>1, <2>2
<1>5. QED
  BY <1>2, <1>3, <1>4, StepFacts

(* A step that signs nothing keeps the invariant. *)
LEMMA QuietStep ==
  ASSUME Inv, [Next]_vars, blocks' = blocks, lastSlot' = lastSlot, slot' = slot \/ slot' = slot + 1
  PROVE  Inv'
<1>1. TypeOK /\ TypeOK'
  BY StepFacts DEF Inv
<1>2. \A c \in blocks : c \in Seq(Block) /\ HeadSlot(c) \in Nat /\ Signer(c) \in Nodes
  BY <1>1, HeadFacts DEF TypeOK
<1>3. SignedBelow'
  <2>1. SUFFICES ASSUME NEW c \in blocks
                 PROVE  Len(c) <= Len(chain'[Signer(c)])
    BY DEF SignedBelow
  <2>2. Len(c) \in Nat /\ Len(c) <= Len(chain[Signer(c)])
    BY <1>2 DEF Inv, SignedBelow
  <2>3. QED
    BY <1>1, <1>2, <2>2, HeightGrows
<1>4. SlotMarked'
  <2>1. SUFFICES ASSUME NEW c \in blocks
                 PROVE  /\ HeadSlot(c) <= slot'
                        /\ HeadSlot(c) = slot' => lastSlot[Signer(c)] = slot'
    BY DEF SlotMarked
  <2>2. HeadSlot(c) <= slot /\ (HeadSlot(c) = slot => lastSlot[Signer(c)] = slot)
    BY DEF Inv, SlotMarked
  <2>3. HeadSlot(c) \in Nat /\ slot \in Nat
    BY <1>1, <1>2 DEF TypeOK
  <2>4. QED
    BY <2>2, <2>3
<1>5. NoDoubleSign' /\ OneBlockPerSlot'
  BY DEF Inv, NoDoubleSign, OneBlockPerSlot
<1>6. QED
  BY <1>1, <1>3, <1>4, <1>5 DEF Inv

(* Signing a block keeps it: the new block is higher than everything its    *)
(* signer signed, and in a slot nobody signed.                              *)
LEMMA ProduceStep ==
  ASSUME Inv, NEW n \in Nodes, Produce(n)
  PROVE  Inv'
<1> DEFINE b == [slot |-> slot, full |-> n \notin keys[n]]
           new == Append(chain[n], b)
<1>1. TypeOK /\ TypeOK'
  BY ProduceType DEF Inv
<1>2. chain[n] \in Seq(Block) /\ b \in Block /\ slot \in Nat
  BY <1>1 DEF TypeOK, Block
<1>3. new \in Seq(Block) /\ Len(new) = Len(chain[n]) + 1 /\ HeadSlot(new) = slot
  BY <1>2, AppendFacts
<1>4. /\ blocks' = blocks \cup {new}
      /\ chain' = [chain EXCEPT ![n] = new]
      /\ lastSlot' = [lastSlot EXCEPT ![n] = slot]
      /\ slot' = slot
      /\ slot # lastSlot[n]
      /\ ExpectedProducer(slot) = n
  BY DEF Produce, CanProduce
<1> HIDE DEF new
<1>5. Signer(new) = n
  BY <1>3, <1>4 DEF Signer
<1>6. \A c \in blocks : c \in Seq(Block) /\ HeadSlot(c) \in Nat /\ Signer(c) \in Nodes
  BY <1>1, HeadFacts DEF TypeOK
<1>7. chain'[n] = new /\ lastSlot'[n] = slot
  BY <1>1, <1>4 DEF TypeOK
<1>8. \A m \in Nodes \ {n} : chain'[m] = chain[m] /\ lastSlot'[m] = lastSlot[m]
  BY <1>1, <1>4 DEF TypeOK
<1>9. \A c \in blocks : Signer(c) = n => Len(c) < Len(new)
  <2>1. SUFFICES ASSUME NEW c \in blocks, Signer(c) = n
                 PROVE  Len(c) < Len(new)
    OBVIOUS
  <2>2. Len(c) <= Len(chain[n])
    BY <2>1 DEF Inv, SignedBelow
  <2>3. Len(c) \in Nat /\ Len(chain[n]) \in Nat
    BY <1>2, <1>6
  <2>4. QED
    BY <1>3, <2>2, <2>3
<1>10. \A c \in blocks : HeadSlot(c) # slot
  <2>1. SUFFICES ASSUME NEW c \in blocks, HeadSlot(c) = slot
                 PROVE  FALSE
    OBVIOUS
  <2>2. Signer(c) = n
    BY <1>4, <2>1 DEF Signer
  <2>3. lastSlot[n] = slot
    BY <2>1, <2>2 DEF Inv, SlotMarked
  <2>4. QED
    BY <1>4, <2>3
<1>11. SignedBelow'
  <2>1. SUFFICES ASSUME NEW c \in blocks \cup {new}
                 PROVE  Len(c) <= Len(chain'[Signer(c)])
    BY <1>4 DEF SignedBelow
  <2>2. CASE c = new
    BY <1>3, <1>5, <1>7, <2>2
  <2>3. CASE c \in blocks /\ Signer(c) = n
    BY <1>3, <1>6, <1>7, <1>9, <2>3
  <2>4. CASE c \in blocks /\ Signer(c) # n
    BY <1>6, <1>8, <2>4 DEF Inv, SignedBelow
  <2>5. QED
    BY <2>1, <2>2, <2>3, <2>4
<1>12. SlotMarked'
  <2>1. SUFFICES ASSUME NEW c \in blocks \cup {new}
                 PROVE  /\ HeadSlot(c) <= slot
                        /\ HeadSlot(c) = slot => lastSlot'[Signer(c)] = slot
    BY <1>4 DEF SlotMarked
  <2>2. CASE c = new
    BY <1>2, <1>3, <1>5, <1>7, <2>2
  <2>3. CASE c \in blocks
    BY <1>10, <2>3 DEF Inv, SlotMarked
  <2>4. QED
    BY <2>1, <2>2, <2>3
<1>13. NoDoubleSign'
  <2>1. SUFFICES ASSUME NEW c \in blocks \cup {new}, NEW d \in blocks \cup {new},
                        Signer(c) = Signer(d), Len(c) = Len(d)
                 PROVE  c = d
    BY <1>4 DEF NoDoubleSign
  <2>2. CASE c \in blocks /\ d \in blocks
    BY <2>1, <2>2 DEF Inv, NoDoubleSign
  <2>3. CASE c = new /\ d \in blocks
    <3>1. Len(d) < Len(new) /\ Len(d) = Len(new)
      BY <1>5, <1>9, <2>1, <2>3
    <3>2. Len(d) \in Nat
      BY <1>6, <2>3
    <3>3. QED
      BY <3>1, <3>2
  <2>4. CASE d = new /\ c \in blocks
    <3>1. Len(c) < Len(new) /\ Len(c) = Len(new)
      BY <1>5, <1>9, <2>1, <2>4
    <3>2. Len(c) \in Nat
      BY <1>6, <2>4
    <3>3. QED
      BY <3>1, <3>2
  <2>5. QED
    BY <2>1, <2>2, <2>3, <2>4
<1>14. OneBlockPerSlot'
  BY <1>3, <1>4, <1>10 DEF Inv, OneBlockPerSlot
<1>15. QED
  BY <1>1, <1>11, <1>12, <1>13, <1>14 DEF Inv

(* Every step keeps the inductive invariant. *)
LEMMA NextInv == Inv /\ [Next]_vars => Inv'
<1> SUFFICES ASSUME Inv, [Next]_vars
             PROVE  Inv'
  OBVIOUS
<1>1. ASSUME NEW n \in Nodes, Produce(n)
      PROVE  Inv'
  BY <1>1, ProduceStep
<1>2. CASE \A n \in Nodes : ~Produce(n)
  <2>1. blocks' = blocks /\ lastSlot' = lastSlot /\ (slot' = slot \/ slot' = slot + 1)
    BY <1>2 DEF Next, vars, NextSlot, Producing, Syncing, CheckPeers, MissSlot, Receive,
                SyncBegin, SyncExtend, SyncDiverged, SyncReorg, SyncKeep
  <2>2. QED
    BY <2>1, QuietStep
<1>3. QED
  BY <1>1, <1>2

(* No honest validator ever signs two blocks of one height, however many    *)
(* forks production, gossip and sync lead it through.                       *)
THEOREM NeverDoubleSigns == Spec => []NoDoubleSign
<1>1. Inv => NoDoubleSign
  BY DEF Inv
<1>2. QED
  BY <1>1, InitInv, NextInv, PTL DEF Spec

(* No slot is ever filled twice, in any branch of any node. *)
THEOREM SlotsFilledOnce == Spec => []OneBlockPerSlot
<1>1. Inv => OneBlockPerSlot
  BY DEF Inv
<1>2. QED
  BY <1>1, InitInv, NextInv, PTL DEF Spec

-----------------------------------------------------------------------------
(* The instance's rules are the rules. *)
LEMMA SameRules ==
  /\ Promise!Block = Block
  /\ \A c : Promise!FinalizedHeight(c) = FinalizedHeight(c)
<1>1. Promise!Block = Block
  BY DEF Promise!Block, Block
<1>2. ASSUME NEW c
      PROVE  Promise!FinalizedHeight(c) = FinalizedHeight(c)
  BY DEF Promise!FinalizedHeight, FinalizedHeight, Promise!FinalAt, FinalAt,
         Promise!QuorumAbove, QuorumAbove, Promise!ProducersFrom, ProducersFrom,
         Promise!Quorum, Quorum, Promise!Producer, Producer,
         Promise!ExpectedProducer, ExpectedProducer, Promise!Cardinality, Cardinality
<1>3. QED
  BY <1>1, <1>2

(* Every node keeps the promise of LongestChain in every behaviour: its     *)
(* chain is only replaced by longer ones that keep what is final on it.     *)
THEOREM Refinement == Spec => ImplementsLongestChain
<1>1. Init => Promise!Init
  BY DEF Init, Promise!Init
<1>2. TypeOK /\ [Next]_vars => [Promise!Grow]_chain
  <2> SUFFICES ASSUME TypeOK, [Next]_vars
               PROVE  chain' = chain \/ Promise!Grow
    OBVIOUS
  <2>1. ASSUME NEW n \in Nodes, Replaces(n)
        PROVE  Promise!Grow
    <3>1. Promise!Longer(chain[n], chain'[n])
      BY <2>1, SameRules DEF Promise!Longer, Replaces, Extends
    <3>2. QED
      BY <2>1, <3>1 DEF Promise!Grow, Replaces
  <2>2. QED
    BY <2>1, StepFacts
<1>3. QED
  BY <1>1, <1>2, TypeCorrect, PTL DEF Spec, ImplementsLongestChain, Promise!Spec
-----------------------------------------------------------------------------
(* Every block a node holds was signed.  The invariant needs more than      *)
(* ChainsSigned: what a sync round downloaded is a real chain as well, and  *)
(* so is every chain below a signed block, because that is what gossip and  *)
(* the reorg put in place of the local branch.  It is preserved by restarts *)
(* too, so the theorem covers CrashSpec.                                    *)

Signed(c, B) == \A h \in 1..Len(c) : SubSeq(c, 1, h) \in B

SignedInv == /\ TypeOK
             /\ \A c \in blocks : Signed(c, blocks)
             /\ \A n \in Nodes : Signed(chain[n], blocks)
             /\ \A n \in Nodes : Signed(pull[n].data, blocks)

(* Two sequences of one length with the same elements are equal. *)
LEMMA SameChain ==
  ASSUME NEW c \in Seq(Block), NEW d \in Seq(Block), Len(c) = Len(d),
         \A i \in 1..Len(c) : c[i] = d[i]
  PROVE  c = d
  OBVIOUS

(* A prefix of a chain, element by element. *)
LEMMA PrefixFacts ==
  ASSUME NEW c \in Seq(Block), NEW k \in 0..Len(c)
  PROVE  /\ SubSeq(c, 1, k) \in Seq(Block)
         /\ Len(SubSeq(c, 1, k)) = k
         /\ \A i \in 1..k : SubSeq(c, 1, k)[i] = c[i]
  OBVIOUS

(* Chains that agree up to a height have the same prefixes up to it. *)
LEMMA SamePrefix ==
  ASSUME NEW c \in Seq(Block), NEW d \in Seq(Block), NEW k \in Nat,
         k <= Len(c), k <= Len(d), \A i \in 1..k : c[i] = d[i]
  PROVE  SubSeq(c, 1, k) = SubSeq(d, 1, k)
<1>1. k \in 0..Len(c) /\ k \in 0..Len(d)
  OBVIOUS
<1> DEFINE p == SubSeq(c, 1, k)
           q == SubSeq(d, 1, k)
<1>2. p \in Seq(Block) /\ Len(p) = k /\ \A i \in 1..k : p[i] = c[i]
  BY <1>1, PrefixFacts
<1>3. q \in Seq(Block) /\ Len(q) = k /\ \A i \in 1..k : q[i] = d[i]
  BY <1>1, PrefixFacts
<1> HIDE DEF p, q
<1>4. p = q
  BY <1>2, <1>3, SameChain
<1>5. QED
  BY <1>4 DEF p, q

(* What a set of signed blocks contains, a larger one contains. *)
LEMMA SignedGrows ==
  ASSUME NEW c, NEW B, NEW C, B \subseteq C, Signed(c, B)
  PROVE  Signed(c, C)
  BY DEF Signed

(* A prefix of a signed chain is signed. *)
LEMMA SignedPrefix ==
  ASSUME NEW c \in Seq(Block), NEW B, NEW k \in 0..Len(c), Signed(c, B)
  PROVE  Signed(SubSeq(c, 1, k), B)
<1> DEFINE p == SubSeq(c, 1, k)
<1>1. p \in Seq(Block) /\ Len(p) = k /\ \A i \in 1..k : p[i] = c[i]
  BY PrefixFacts
<1> HIDE DEF p
<1>2. ASSUME NEW h \in 1..Len(p)
      PROVE  SubSeq(p, 1, h) \in B
  <2>1. h \in Nat /\ h \in 1..Len(c) /\ h <= Len(p) /\ h <= Len(c) /\ h <= k
    BY <1>1
  <2>2. SubSeq(p, 1, h) = SubSeq(c, 1, h)
    BY <1>1, <2>1, SamePrefix
  <2>3. QED
    BY <2>1, <2>2 DEF Signed
<1>3. Signed(p, B)
  BY <1>2 DEF Signed
<1>4. QED
  BY <1>3 DEF p

(* A signed block on top of a signed chain is a signed chain. *)
LEMMA SignedAppend ==
  ASSUME NEW c \in Seq(Block), NEW b \in Block, NEW B, Signed(c, B), Append(c, b) \in B
  PROVE  Signed(Append(c, b), B)
<1> DEFINE d == Append(c, b)
<1>1. d \in Seq(Block) /\ Len(d) = Len(c) + 1 /\ \A i \in 1..Len(c) : d[i] = c[i]
  BY AppendFacts
<1>2. d \in B
  OBVIOUS
<1> HIDE DEF d
<1>3. ASSUME NEW h \in 1..Len(d)
      PROVE  SubSeq(d, 1, h) \in B
  <2>1. Len(c) \in Nat /\ h \in Nat /\ Len(d) \in Nat
    BY <1>1
  <2>2. CASE h = Len(d)
    <3>1. h \in 0..Len(d)
      BY <2>1, <2>2
    <3>2. SubSeq(d, 1, h) \in Seq(Block) /\ Len(SubSeq(d, 1, h)) = Len(d)
          /\ \A i \in 1..Len(d) : SubSeq(d, 1, h)[i] = d[i]
      BY <1>1, <2>2, <3>1, PrefixFacts
    <3>3. SubSeq(d, 1, h) = d
      BY <1>1, <3>2, SameChain
    <3>4. QED
      BY <1>2, <3>3
  <2>3. CASE h # Len(d)
    <3>1. h \in 1..Len(c) /\ h <= Len(c) /\ h <= Len(d)
      BY <1>1, <2>1, <2>3
    <3>2. \A i \in 1..h : d[i] = c[i]
      BY <1>1, <2>1, <3>1
    <3>3. SubSeq(d, 1, h) = SubSeq(c, 1, h)
      BY <1>1, <2>1, <3>1, <3>2, SamePrefix
    <3>4. QED
      BY <3>1, <3>3 DEF Signed
  <2>4. QED
    BY <2>2, <2>3
<1>4. Signed(d, B)
  BY <1>3 DEF Signed
<1>5. QED
  BY <1>4 DEF d

(* Adding the next block of a chain one agrees with gives that chain. *)
LEMMA AppendIsPrefix ==
  ASSUME NEW c \in Seq(Block), NEW d \in Seq(Block), Len(d) = Len(c) + 1,
         AgreeUpTo(c, d, Len(c))
  PROVE  Append(c, d[Len(d)]) = d
<1>1. Len(d) \in Nat /\ Len(c) \in Nat /\ Len(d) \in 1..Len(d)
  OBVIOUS
<1>2. d[Len(d)] \in Block
  BY <1>1
<1>3. PICK b \in Block : b = d[Len(d)]
  BY <1>2
<1> DEFINE e == Append(c, b)
<1>4. e \in Seq(Block) /\ Len(e) = Len(c) + 1 /\ e[Len(c) + 1] = b
      /\ \A i \in 1..Len(c) : e[i] = c[i]
  BY <1>1
<1> HIDE DEF e
<1>5. \A i \in 1..Len(e) : e[i] = d[i]
  BY <1>1, <1>3, <1>4 DEF AgreeUpTo
<1>6. e = d
  BY <1>4, <1>5, SameChain
<1>7. QED
  BY <1>3, <1>6 DEF e

(* The second part of a concatenation. *)
LEMMA ConcatTail ==
  ASSUME NEW p \in Seq(Block), NEW q \in Seq(Block), NEW i \in 1..(Len(p) + Len(q)), i > Len(p)
  PROVE  (p \o q)[i] = q[i - Len(p)]
  OBVIOUS

(* Splicing a chain onto one that agrees with it gives its prefix: no       *)
(* mixture of two branches.                                                 *)
LEMMA SpliceIsPrefix ==
  ASSUME NEW c \in Seq(Block), NEW d \in Seq(Block),
         NEW h \in 0..Len(c), NEW k \in h..Len(d), AgreeUpTo(c, d, h)
  PROVE  Splice(c, d, h, k) = SubSeq(d, 1, k)
<1> DEFINE p == SubSeq(c, 1, h)
           q == SubSeq(d, h + 1, k)
           e == SubSeq(d, 1, k)
           f == p \o q
<1>1. h \in Nat /\ k \in Nat /\ h <= k /\ k <= Len(d) /\ k \in 0..Len(d)
  OBVIOUS
<1>2. p \in Seq(Block) /\ Len(p) = h /\ \A i \in 1..h : p[i] = c[i]
  BY PrefixFacts
<1>3. q \in Seq(Block) /\ Len(q) = k - h /\ \A i \in 1..(k - h) : q[i] = d[h + i]
  BY <1>1
<1>4. e \in Seq(Block) /\ Len(e) = k /\ \A i \in 1..k : e[i] = d[i]
  BY <1>1, PrefixFacts
<1>5. Splice(c, d, h, k) = f
  BY DEF Splice
<1> HIDE DEF p, q, e
<1>6. /\ f \in Seq(Block)
      /\ Len(f) = Len(p) + Len(q)
      /\ \A i \in 1..Len(p) : f[i] = p[i]
      /\ \A i \in 1..(Len(p) + Len(q)) : i > Len(p) => f[i] = q[i - Len(p)]
  BY <1>2, <1>3, ConcatFacts, ConcatTail
<1> HIDE DEF f
<1>7. Len(f) = k
  BY <1>1, <1>2, <1>3, <1>6
<1>8. ASSUME NEW i \in 1..k
      PROVE  f[i] = e[i]
  <2>1. CASE i <= h
    BY <1>1, <1>2, <1>4, <1>6, <2>1 DEF AgreeUpTo
  <2>2. CASE i > h
    <3>1. i - h \in 1..(k - h) /\ h + (i - h) = i
      BY <1>1, <2>2
    <3>2. f[i] = q[i - h]
      BY <1>1, <1>2, <1>3, <1>6, <2>2
    <3>3. q[i - h] = d[i]
      BY <1>3, <3>1
    <3>4. QED
      BY <1>4, <3>2, <3>3
  <2>3. QED
    BY <1>1, <2>1, <2>2
<1>9. f = e
  BY <1>4, <1>6, <1>7, <1>8, SameChain
<1>10. QED
  BY <1>5, <1>9 DEF e

(* A step that replaces one node's chain by a signed chain, and keeps or    *)
(* ends its sync round.                                                     *)
LEMMA SignedReplace ==
  ASSUME SignedInv, TypeOK', NEW n \in Nodes, NEW d,
         chain' = [chain EXCEPT ![n] = d],
         blocks \subseteq blocks', Signed(d, blocks'),
         \A c \in blocks' : Signed(c, blocks'),
         pull' = pull \/ pull' = [pull EXCEPT ![n] = Idle(n)]
  PROVE  SignedInv'
<1>1. ASSUME NEW m \in Nodes
      PROVE  Signed(chain'[m], blocks')
  <2>1. CASE m = n
    BY <2>1 DEF SignedInv, TypeOK
  <2>2. CASE m # n
    <3>1. chain'[m] = chain[m]
      BY <2>2 DEF SignedInv, TypeOK
    <3>2. QED
      BY <3>1, SignedGrows DEF SignedInv
  <2>3. QED
    BY <2>1, <2>2
<1>2. ASSUME NEW m \in Nodes
      PROVE  Signed(pull'[m].data, blocks')
  <2>1. CASE pull'[m] = pull[m]
    BY <2>1, SignedGrows DEF SignedInv
  <2>2. CASE pull'[m] # pull[m]
    <3>1. pull'[m] = Idle(m)
      BY <2>2 DEF SignedInv, TypeOK
    <3>2. pull'[m].data = <<>>
      BY <3>1 DEF Idle
    <3>3. QED
      BY <3>2 DEF Signed
  <2>3. QED
    BY <2>1, <2>2
<1>3. QED
  BY <1>1, <1>2 DEF SignedInv

(* A step of the sync task that only changes its download to a chain some   *)
(* node holds, or ends the round.                                           *)
LEMMA SignedDownload ==
  ASSUME SignedInv, TypeOK', NEW n \in Nodes, NEW p \in Nodes, NEW q,
         pull' = [pull EXCEPT ![n] = q], q.data = chain[p] \/ q.data = <<>>,
         chain' = chain, blocks' = blocks
  PROVE  SignedInv'
<1>1. Signed(q.data, blocks)
  <2>1. CASE q.data = chain[p]
    BY <2>1 DEF SignedInv
  <2>2. CASE q.data = <<>>
    BY <2>2 DEF Signed
  <2>3. QED
    BY <2>1, <2>2
<1>2. ASSUME NEW m \in Nodes
      PROVE  Signed(pull'[m].data, blocks)
  <2>1. CASE m = n
    BY <1>1, <2>1 DEF SignedInv, TypeOK
  <2>2. CASE m # n
    <3>1. pull'[m] = pull[m]
      BY <2>2 DEF SignedInv, TypeOK
    <3>2. QED
      BY <3>1 DEF SignedInv
  <2>3. QED
    BY <2>1, <2>2
<1>3. QED
  BY <1>2 DEF SignedInv

(* A produced block stands on a signed chain. *)
LEMMA ProduceSigned ==
  ASSUME SignedInv, NEW n \in Nodes, Produce(n)
  PROVE  SignedInv'
<1> DEFINE b == [slot |-> slot, full |-> n \notin keys[n]]
           d == Append(chain[n], b)
<1>1. TypeOK /\ TypeOK'
  BY ProduceType DEF SignedInv
<1>2. chain[n] \in Seq(Block) /\ b \in Block
  BY <1>1 DEF TypeOK, Block
<1>3. chain' = [chain EXCEPT ![n] = d] /\ blocks' = blocks \cup {d} /\ pull' = pull
  BY DEF Produce
<1>4. Signed(chain[n], blocks') /\ d \in blocks'
  BY <1>3, SignedGrows DEF SignedInv
<1> HIDE DEF b
<1>5. Signed(d, blocks')
  BY <1>2, <1>4, SignedAppend
<1> HIDE DEF d
<1>6. \A c \in blocks' : Signed(c, blocks')
  BY <1>3, <1>5, SignedGrows DEF SignedInv
<1>7. blocks \subseteq blocks'
  BY <1>3
<1>8. QED
  BY <1>1, <1>3, <1>5, <1>6, <1>7, SignedReplace

(* A block that gossip delivers on top of the head makes the chain it was   *)
(* signed on.                                                               *)
LEMMA ReceiveSigned ==
  ASSUME SignedInv, NEW n \in Nodes, Receive(n)
  PROVE  SignedInv'
<1>1. PICK c \in blocks : /\ Len(c) = Len(chain[n]) + 1
                          /\ AgreeUpTo(chain[n], c, Len(chain[n]))
                          /\ chain' = [chain EXCEPT ![n] = Append(@, c[Len(c)])]
  BY DEF Receive
<1>2. TypeOK /\ TypeOK'
  BY ReceiveType DEF SignedInv
<1>3. chain[n] \in Seq(Block) /\ c \in Seq(Block)
  BY <1>2 DEF TypeOK
<1>4. Append(chain[n], c[Len(c)]) = c
  BY <1>1, <1>3, AppendIsPrefix
<1>5. chain' = [chain EXCEPT ![n] = c]
  BY <1>1, <1>4
<1>6. blocks' = blocks /\ pull' = pull
  BY DEF Receive
<1>7. Signed(c, blocks') /\ \A d \in blocks' : Signed(d, blocks')
  BY <1>6 DEF SignedInv
<1>8. QED
  BY <1>2, <1>5, <1>6, <1>7, SignedReplace

(* The extension makes a prefix of the chain that was downloaded. *)
LEMMA SyncExtendSigned ==
  ASSUME SignedInv, NEW n \in Nodes, SyncExtend(n)
  PROVE  SignedInv'
<1> DEFINE d == pull[n].data
           alt == pull[n].alt
<1>1. TypeOK /\ TypeOK'
  BY SyncExtendType DEF SignedInv
<1>2. /\ chain[n] \in Seq(Block) /\ d \in Seq(Block) /\ alt \in Nat
      /\ alt = Len(chain[n]) /\ AgreeUpTo(chain[n], d, alt)
  BY <1>1 DEF TypeOK, Pull, SyncExtend, Continues
<1>3. PICK k \in (alt + 1)..Len(d) : chain' = [chain EXCEPT ![n] = Splice(@, d, alt, k)]
  BY DEF SyncExtend
<1>4. blocks' = blocks /\ pull' = [pull EXCEPT ![n] = Idle(n)]
  BY DEF SyncExtend
<1>5. Signed(d, blocks)
  BY DEF SignedInv
<1> HIDE DEF d, alt
<1>6. alt \in 0..Len(chain[n]) /\ k \in alt..Len(d) /\ k \in 0..Len(d)
  BY <1>2, <1>3
<1> DEFINE e == SubSeq(d, 1, k)
<1>7. Splice(chain[n], d, alt, k) = e
  BY <1>2, <1>6, SpliceIsPrefix
<1>8. Signed(e, blocks)
  BY <1>2, <1>5, <1>6, SignedPrefix
<1>9. chain' = [chain EXCEPT ![n] = e]
  BY <1>3, <1>7
<1> HIDE DEF e
<1>10. Signed(e, blocks') /\ \A c \in blocks' : Signed(c, blocks')
  BY <1>4, <1>8 DEF SignedInv
<1>11. QED
  BY <1>1, <1>4, <1>9, <1>10, SignedReplace

(* A reorg makes the chain that was downloaded. *)
LEMMA SyncReorgSigned ==
  ASSUME SignedInv, NEW n \in Nodes, SyncReorg(n)
  PROVE  SignedInv'
<1> DEFINE d == pull[n].data
<1>1. TypeOK /\ TypeOK'
  BY SyncReorgType DEF SignedInv
<1>2. chain[n] \in Seq(Block) /\ d \in Seq(Block)
  BY <1>1 DEF TypeOK, Pull
<1>3. PICK h \in 0..Len(chain[n]) :
           /\ ReorgPoint(n, h)
           /\ chain' = [chain EXCEPT ![n] = Splice(@, d, h, Len(d))]
  BY DEF SyncReorg
<1>4. h <= Len(d) /\ AgreeUpTo(chain[n], d, h)
  BY <1>3 DEF ReorgPoint, IsCommon
<1>5. blocks' = blocks /\ pull' = [pull EXCEPT ![n] = Idle(n)]
  BY DEF SyncReorg
<1>6. Signed(d, blocks)
  BY DEF SignedInv
<1> HIDE DEF d
<1>7. Len(d) \in h..Len(d) /\ Len(d) \in 0..Len(d)
  BY <1>2, <1>4
<1> DEFINE e == SubSeq(d, 1, Len(d))
<1>8. Splice(chain[n], d, h, Len(d)) = e
  BY <1>2, <1>4, <1>7, SpliceIsPrefix
<1>9. Signed(e, blocks)
  BY <1>2, <1>6, <1>7, SignedPrefix
<1>10. chain' = [chain EXCEPT ![n] = e]
  BY <1>3, <1>8
<1> HIDE DEF e
<1>11. Signed(e, blocks') /\ \A c \in blocks' : Signed(c, blocks')
  BY <1>5, <1>9 DEF SignedInv
<1>12. QED
  BY <1>1, <1>5, <1>10, <1>11, SignedReplace

(* Downloads copy a peer's chain. *)
LEMMA DownloadSigned ==
  ASSUME SignedInv, NEW n \in Nodes,
         SyncDiverged(n) \/ SyncKeep(n) \/ \E p \in Nodes : SyncBegin(n, p)
  PROVE  SignedInv'
<1>1. TypeOK /\ TypeOK'
  BY SyncDivergedType, SyncKeepType, SyncBeginType DEF SignedInv
<1>2. chain' = chain /\ blocks' = blocks
  BY DEF SyncDiverged, SyncKeep, SyncBegin
<1>3. ASSUME NEW stage, Refetch(n, stage)
      PROVE  SignedInv'
  <2> DEFINE q == [pull[n] EXCEPT !.stage = stage, !.data = chain[pull[n].peer]]
  <2>1. pull[n] \in Pull /\ pull[n].peer \in Nodes
    BY <1>1 DEF TypeOK, Pull
  <2>2. pull' = [pull EXCEPT ![n] = q]
    BY <1>1, <1>3 DEF Refetch, TypeOK
  <2>3. q.data = chain[pull[n].peer]
    BY <2>1 DEF Pull
  <2> HIDE DEF q
  <2>4. QED
    BY <1>1, <1>2, <2>1, <2>2, <2>3, SignedDownload
<1>4. ASSUME NEW p \in Nodes, SyncBegin(n, p)
      PROVE  SignedInv'
  <2> DEFINE q == [stage |-> IF Len(chain[p]) > Len(chain[n]) THEN "extend" ELSE "tip",
                   peer |-> p, alt |-> Len(chain[n]), data |-> chain[p]]
  <2>1. pull' = [pull EXCEPT ![n] = q] /\ q.data = chain[p]
    BY <1>4 DEF SyncBegin
  <2> HIDE DEF q
  <2>2. QED
    BY <1>1, <1>2, <2>1, SignedDownload
<1>5. ASSUME pull' = [pull EXCEPT ![n] = Idle(n)]
      PROVE  SignedInv'
  <2>1. Idle(n).data = <<>>
    BY DEF Idle
  <2>2. QED
    BY <1>1, <1>2, <1>5, <2>1, SignedDownload
<1>6. QED
  BY <1>3, <1>4, <1>5 DEF SyncDiverged, SyncKeep

(* A restart keeps the types, and a prefix of the node's chain. *)
LEMMA RestartSigned ==
  ASSUME SignedInv, NEW n \in Nodes, Restart(n)
  PROVE  SignedInv'
<1>1. PICK k \in 0..Len(chain[n]) :
           /\ chain' = [chain EXCEPT ![n] = SubSeq(@, 1, k)]
           /\ keys' = [keys EXCEPT ![n] = KeysIn(chain[n], 1, k)]
  BY DEF Restart
<1> DEFINE d == SubSeq(chain[n], 1, k)
<1>2. TypeOK /\ chain[n] \in Seq(Block)
  BY DEF SignedInv, TypeOK
<1>3. d \in Seq(Block)
  BY <1>2, PrefixFacts
<1>4. Signed(d, blocks)
  BY <1>2, SignedPrefix DEF SignedInv
<1>5. chain' = [chain EXCEPT ![n] = d]
  BY <1>1
<1> HIDE DEF d
<1>6. KeysIn(chain[n], 1, k) \subseteq Nodes
  <2>1. k \in Nat /\ k <= Len(chain[n])
    BY <1>2
  <2>2. QED
    BY <1>2, <2>1, KeysAreNodes
<1>7. blocks' = blocks /\ slot' = slot /\ pull' = [pull EXCEPT ![n] = Idle(n)]
      /\ gate' = [gate EXCEPT ![n] = "idle"] /\ lastSlot' = [lastSlot EXCEPT ![n] = 0]
  BY DEF Restart
<1>8. pull' \in [Nodes -> Pull]
  BY <1>2, <1>7, IdleType
<1>9. TypeOK'
  BY <1>1, <1>2, <1>3, <1>5, <1>6, <1>7, <1>8 DEF TypeOK
<1>10. Signed(d, blocks') /\ \A c \in blocks' : Signed(c, blocks')
  BY <1>4, <1>7 DEF SignedInv
<1>11. QED
  BY <1>5, <1>7, <1>9, <1>10, SignedReplace

(* Every step, restarts included, keeps it. *)
LEMMA SignedStep ==
  ASSUME SignedInv, [CrashNext]_vars
  PROVE  SignedInv'
<1>1. ASSUME UNCHANGED <<chain, pull, blocks>>, TypeOK'
      PROVE  SignedInv'
  BY <1>1 DEF SignedInv
<1>2. CASE UNCHANGED vars
  BY <1>1, <1>2 DEF SignedInv, TypeOK, vars
<1>3. CASE NextSlot
  BY <1>1, <1>3 DEF NextSlot, SignedInv, TypeOK
<1>4. ASSUME NEW n \in Nodes, CheckPeers(n) \/ MissSlot(n)
      PROVE  SignedInv'
  <2>1. TypeOK'
    BY <1>4 DEF CheckPeers, MissSlot, SignedInv, TypeOK
  <2>2. QED
    BY <1>1, <1>4, <2>1 DEF CheckPeers, MissSlot
<1>5. ASSUME NEW n \in Nodes,
             Produce(n) \/ Receive(n) \/ SyncExtend(n) \/ SyncReorg(n) \/ Restart(n)
      PROVE  SignedInv'
  BY <1>5, ProduceSigned, ReceiveSigned, SyncExtendSigned, SyncReorgSigned, RestartSigned
<1>6. ASSUME NEW n \in Nodes, SyncDiverged(n) \/ SyncKeep(n) \/ \E p \in Nodes : SyncBegin(n, p)
      PROVE  SignedInv'
  BY <1>6, DownloadSigned
<1>7. QED
  BY <1>2, <1>3, <1>4, <1>5, <1>6 DEF CrashNext, Next, Producing, Syncing

(* Whatever gossip delivers late and sync applies after an await, and       *)
(* however often nodes restart, every chain a node holds was signed block   *)
(* by block in that order: no two branches are ever mixed.                  *)
THEOREM BlocksWereSigned == Spec \/ CrashSpec => []ChainsSigned
<1>1. Init => SignedInv
  BY InitType DEF Init, SignedInv, Signed, Idle
<1>2. SignedInv /\ [CrashNext]_vars => SignedInv'
  BY SignedStep
<1>3. SignedInv => ChainsSigned
  BY DEF SignedInv, Signed, ChainsSigned
<1>4. [Next]_vars => [CrashNext]_vars
  BY DEF CrashNext
<1>5. Spec => []ChainsSigned
  BY <1>1, <1>2, <1>3, <1>4, PTL DEF Spec
<1>6. Init /\ [][CrashNext]_vars => []ChainsSigned
  BY <1>1, <1>2, <1>3, PTL
<1>7. CrashSpec => Init /\ [][CrashNext]_vars
  BY PTL DEF CrashSpec
<1>8. QED
  BY <1>5, <1>6, <1>7, PTL

-----------------------------------------------------------------------------
(* Forks stay shallow.  The state does not say when a block was signed nor  *)
(* what its signer's tip gate had seen, so the invariant says that some     *)
(* history explains the state: T[b] is the moment block b was signed, G[b]  *)
(* the moment its signer passed the gate for it, X[b] the chain it held     *)
(* then; W and Y are the same two for a permission that is still unused.    *)
(* Only signing advances the history's clock, now.                          *)

Parent(c) == SubSeq(c, 1, Len(c) - 1)

(* c is x, or higher than x. *)
After(x, c) == c = x \/ Len(c) > Len(x)

(* At moment t, x was the highest block signed, and alone at its height. *)
TopAt(T, x, t) == /\ x = <<>> \/ (x \in blocks /\ T[x] < t)
                  /\ \A c \in blocks : T[c] < t => After(c, x)

(* What the gate and the lock make true of every signed block: its signer   *)
(* passed the gate holding the single highest block of that moment, and     *)
(* built on that block or on a longer chain; what it had signed before came *)
(* before the gate, and its parent is not below that.                       *)
Past(now, T, G, X) ==
  /\ \A b \in blocks : /\ Len(b) >= 1
                       /\ T[b] < now
                       /\ G[b] <= T[b]
                       /\ TopAt(T, X[b], G[b])
                       /\ After(X[b], Parent(b))
  /\ \A b, c \in blocks :
       /\ T[b] = T[c] => b = c
       /\ Signer(b) = Signer(c) /\ T[c] < T[b] => T[c] < G[b] /\ After(c, Parent(b))

(* The same for the permissions that are still to be used. *)
Waits(now, T, W, Y) == \A v \in Nodes : gate[v] = "go" =>
  /\ W[v] <= now
  /\ TopAt(T, Y[v], W[v])
  /\ After(Y[v], chain[v])
  /\ \A c \in blocks : Signer(c) = v => T[c] < W[v]

(* Whoever signed a block holds it, or a longer chain. *)
Held == \A c \in blocks : After(c, chain[Signer(c)])

Moments == [Seq(Block) -> Nat]

PastInv == /\ SignedInv /\ Inv /\ Held
           /\ \E now \in Nat, T \in Moments, G \in Moments, X \in [Seq(Block) -> Seq(Block)],
                 W \in [Nodes -> Nat], Y \in [Nodes -> Seq(Block)] :
                Past(now, T, G, X) /\ Waits(now, T, W, Y)

(* The chain below a block is one shorter. *)
LEMMA ParentFacts ==
  ASSUME NEW c \in Seq(Block), Len(c) >= 1
  PROVE  Parent(c) \in Seq(Block) /\ Len(Parent(c)) = Len(c) - 1
<1>1. Len(c) - 1 \in 0..Len(c)
  OBVIOUS
<1>2. QED
  BY <1>1, PrefixFacts DEF Parent

(* A block was signed on top of everything its signer's gate had seen: what *)
(* came before the gate is lower, and at most its parent is one lower.      *)
LEMMA GateSawLower ==
  ASSUME TypeOK, NEW now \in Nat, NEW T \in Moments, NEW G \in Moments,
         NEW X \in [Seq(Block) -> Seq(Block)], Past(now, T, G, X),
         NEW b \in blocks, NEW c \in blocks, T[c] < G[b]
  PROVE  Len(c) < Len(b) /\ (Len(c) = Len(b) - 1 => c = Parent(b))
<1>1. b \in Seq(Block) /\ c \in Seq(Block) /\ X[b] \in Seq(Block)
  BY DEF TypeOK
<1>2. Len(b) >= 1 /\ After(X[b], Parent(b)) /\ After(c, X[b])
  BY DEF Past, TopAt
<1>3. Parent(b) \in Seq(Block) /\ Len(Parent(b)) = Len(b) - 1
  BY <1>1, <1>2, ParentFacts
<1>4. Len(b) \in Nat /\ Len(c) \in Nat /\ Len(X[b]) \in Nat /\ Len(Parent(b)) \in Nat
  BY <1>1, <1>3
<1>5. QED
  BY <1>2, <1>3, <1>4 DEF After

(* When the gate had seen two rival blocks two below a block, it had seen   *)
(* its parent: no other block can have been alone at the top.               *)
LEMMA GateSawParent ==
  ASSUME TypeOK, NEW now \in Nat, NEW T \in Moments, NEW G \in Moments,
         NEW X \in [Seq(Block) -> Seq(Block)], Past(now, T, G, X),
         NEW b \in blocks, NEW c \in blocks, NEW d \in blocks, c # d,
         Len(c) = Len(b) - 2, Len(d) = Len(b) - 2, T[c] < G[b], T[d] < G[b]
  PROVE  T[Parent(b)] < G[b]
<1>1. b \in Seq(Block) /\ c \in Seq(Block) /\ d \in Seq(Block) /\ X[b] \in Seq(Block)
  BY DEF TypeOK
<1>2. /\ Len(b) >= 1 /\ After(X[b], Parent(b)) /\ After(c, X[b]) /\ After(d, X[b])
      /\ Len(c) >= 1
      /\ X[b] = <<>> \/ (X[b] \in blocks /\ T[X[b]] < G[b])
  BY DEF Past, TopAt
<1>3. Parent(b) \in Seq(Block) /\ Len(Parent(b)) = Len(b) - 1
  BY <1>1, <1>2, ParentFacts
<1>4. /\ Len(b) \in Nat /\ Len(c) \in Nat /\ Len(d) \in Nat /\ Len(X[b]) \in Nat
      /\ Len(Parent(b)) \in Nat
  BY <1>1, <1>3
<1>5. Len(X[b]) > Len(c)
  BY <1>2, <1>4 DEF After
<1>6. Parent(b) = X[b]
  BY <1>2, <1>3, <1>4, <1>5 DEF After
<1>7. X[b] # <<>>
  BY <1>2, <1>4, <1>5
<1>8. QED
  BY <1>2, <1>6, <1>7

(* A signer passes the gate for a block after it signed all its lower ones. *)
LEMMA OwnBlocksFirst ==
  ASSUME TypeOK, NEW now \in Nat, NEW T \in Moments, NEW G \in Moments,
         NEW X \in [Seq(Block) -> Seq(Block)], Past(now, T, G, X),
         NEW b \in blocks, NEW c \in blocks, Signer(b) = Signer(c), Len(c) < Len(b)
  PROVE  T[c] < G[b]
<1>1. b \in Seq(Block) /\ c \in Seq(Block)
  BY DEF TypeOK
<1>2. Len(b) \in Nat /\ Len(c) \in Nat /\ T[b] \in Nat /\ T[c] \in Nat
  BY <1>1 DEF Moments
<1>3. CASE T[c] < T[b]
  BY <1>3 DEF Past
<1>4. CASE T[b] < T[c]
  <2>1. After(b, Parent(c)) /\ Len(c) >= 1
    BY <1>4 DEF Past
  <2>2. Len(Parent(c)) = Len(c) - 1
    BY <1>1, <2>1, ParentFacts
  <2>3. QED
    BY <1>2, <2>1, <2>2 DEF After
<1>5. CASE T[b] = T[c]
  <2>1. b = c
    BY <1>5 DEF Past
  <2>2. QED
    BY <1>2, <2>1
<1>6. QED
  BY <1>2, <1>3, <1>4, <1>5

(* Two rival blocks at one height. *)
Rivals(a, b) == a \in blocks /\ b \in blocks /\ a # b /\ Len(a) = Len(b)

(* Two rivals c and d, one height above a and b, that stand on them. *)
Climb(a, b, c, d) == /\ Rivals(a, b) /\ Rivals(c, d)
                     /\ Parent(c) = a /\ Parent(d) = b /\ Len(c) = Len(a) + 1

(* Two rivals were signed by two of x, y and z. *)
SignedBy(a, b, x, y, z) == Signer(a) \in {x, y, z} /\ Signer(b) \in {x, y, z}

(* Rivals have different signers. *)
LEMMA RivalSigners ==
  ASSUME NoDoubleSign, NEW a, NEW b, Rivals(a, b)
  PROVE  Signer(a) # Signer(b)
  BY DEF NoDoubleSign, Rivals

(* The next block of one signer stands on its last one. *)
LEMMA OwnNext ==
  ASSUME TypeOK, NEW now \in Nat, NEW T \in Moments, NEW G \in Moments,
         NEW X \in [Seq(Block) -> Seq(Block)], Past(now, T, G, X),
         NEW b \in blocks, NEW c \in blocks, Signer(b) = Signer(c), Len(b) = Len(c) + 1
  PROVE  c = Parent(b) /\ T[c] < G[b]
<1>1. Len(b) \in Nat /\ Len(c) \in Nat
  BY DEF TypeOK
<1>2. T[c] < G[b]
  BY <1>1, OwnBlocksFirst
<1>3. QED
  BY <1>1, <1>2, GateSawLower

(* Two signers cannot build two branches of two blocks: each would have     *)
(* passed the gate for its second block after its own first block and       *)
(* before the other's.                                                      *)
LEMMA TwoHeights ==
  ASSUME TypeOK, NoDoubleSign, NEW now \in Nat, NEW T \in Moments, NEW G \in Moments,
         NEW X \in [Seq(Block) -> Seq(Block)], Past(now, T, G, X),
         NEW a1, NEW b1, NEW a2, NEW b2, Climb(a1, b1, a2, b2),
         NEW x, NEW y, SignedBy(a1, b1, x, y, y), SignedBy(a2, b2, x, y, y)
  PROVE  FALSE
<1>1. /\ a1 \in blocks /\ b1 \in blocks /\ a2 \in blocks /\ b2 \in blocks
      /\ a1 # b1 /\ Len(a2) = Len(a1) + 1 /\ Len(b2) = Len(b1) + 1 /\ Len(a1) = Len(b1)
      /\ Parent(a2) = a1 /\ Parent(b2) = b1
  BY DEF Climb, Rivals
<1>2. Signer(a1) # Signer(b1) /\ Signer(a2) # Signer(b2)
  BY RivalSigners DEF Climb
<1>3. Signer(a2) # Signer(b1) /\ Signer(b2) # Signer(a1)
  BY <1>1, OwnNext
<1>4. Signer(a2) = Signer(a1) /\ Signer(b2) = Signer(b1)
  BY <1>2, <1>3 DEF SignedBy
<1>5. T[a1] < G[a2] /\ T[b1] < G[b2]
  BY <1>1, <1>4, OwnNext
<1>6. /\ T[a1] \in Nat /\ T[b1] \in Nat /\ G[a2] \in Nat /\ G[b2] \in Nat
      /\ Len(a1) \in Nat /\ Len(b1) \in Nat /\ Len(a2) \in Nat /\ Len(b2) \in Nat
  BY <1>1 DEF TypeOK, Moments
<1>7. ~(T[b1] < G[a2])
  BY <1>1, <1>6, GateSawLower
<1>8. ~(T[a1] < G[b2])
  BY <1>1, <1>6, GateSawLower
<1>9. QED
  BY <1>5, <1>6, <1>7, <1>8

(* What the gates of six blocks on two branches of three had seen. *)
LEMMA ThreeHeightsFacts ==
  ASSUME TypeOK, NoDoubleSign, NEW now \in Nat, NEW T \in Moments, NEW G \in Moments,
         NEW X \in [Seq(Block) -> Seq(Block)], Past(now, T, G, X),
         NEW a1, NEW b1, NEW a2, NEW b2, NEW a3, NEW b3,
         Climb(a1, b1, a2, b2), Climb(a2, b2, a3, b3)
  PROVE  /\ Signer(a2) # Signer(b1) /\ Signer(b2) # Signer(a1)
         /\ Signer(a3) # Signer(b2) /\ Signer(b3) # Signer(a2)
         /\ ~(T[b1] < G[a2]) /\ ~(T[a1] < G[b2])
         /\ ~(T[b2] < G[a3]) /\ ~(T[a2] < G[b3])
         /\ Signer(a2) = Signer(a1) => T[a1] < G[a2]
         /\ Signer(b2) = Signer(b1) => T[b1] < G[b2]
         /\ Signer(a3) = Signer(a2) => T[a2] < G[a3]
         /\ Signer(b3) = Signer(b2) => T[b2] < G[b3]
         /\ Signer(a3) = Signer(a1) => T[a1] < G[a3]
         /\ Signer(a3) = Signer(b1) => T[b1] < G[a3]
         /\ Signer(b3) = Signer(a1) => T[a1] < G[b3]
         /\ Signer(b3) = Signer(b1) => T[b1] < G[b3]
         /\ T[a1] < G[a3] /\ T[b1] < G[a3] => T[a2] < G[a3]
         /\ T[a1] < G[b3] /\ T[b1] < G[b3] => T[b2] < G[b3]
<1>1. /\ a1 \in blocks /\ b1 \in blocks /\ a2 \in blocks /\ b2 \in blocks
      /\ a3 \in blocks /\ b3 \in blocks /\ a1 # b1 /\ a2 # b2
      /\ Parent(a2) = a1 /\ Parent(b2) = b1 /\ Parent(a3) = a2 /\ Parent(b3) = b2
  BY DEF Climb, Rivals
<1>2. /\ Len(a1) \in Nat /\ Len(b1) = Len(a1) /\ Len(a2) = Len(a1) + 1 /\ Len(b2) = Len(a1) + 1
      /\ Len(a3) = Len(a1) + 2 /\ Len(b3) = Len(a1) + 2
  BY <1>1 DEF TypeOK, Climb, Rivals
<1>3. Signer(a2) # Signer(b1) /\ Signer(b2) # Signer(a1)
  BY <1>1, <1>2, OwnNext
<1>4. Signer(a3) # Signer(b2) /\ Signer(b3) # Signer(a2)
  BY <1>1, <1>2, OwnNext
<1>5. ~(T[b1] < G[a2]) /\ ~(T[a1] < G[b2])
  BY <1>1, <1>2, GateSawLower
<1>6. ~(T[b2] < G[a3]) /\ ~(T[a2] < G[b3])
  BY <1>1, <1>2, GateSawLower
<1>7. /\ Signer(a2) = Signer(a1) => T[a1] < G[a2]
      /\ Signer(b2) = Signer(b1) => T[b1] < G[b2]
      /\ Signer(a3) = Signer(a2) => T[a2] < G[a3]
      /\ Signer(b3) = Signer(b2) => T[b2] < G[b3]
  BY <1>1, <1>2, OwnBlocksFirst
<1>8. /\ Signer(a3) = Signer(a1) => T[a1] < G[a3]
      /\ Signer(a3) = Signer(b1) => T[b1] < G[a3]
      /\ Signer(b3) = Signer(a1) => T[a1] < G[b3]
      /\ Signer(b3) = Signer(b1) => T[b1] < G[b3]
  BY <1>1, <1>2, OwnBlocksFirst
<1>9. /\ T[a1] < G[a3] /\ T[b1] < G[a3] => T[a2] < G[a3]
      /\ T[a1] < G[b3] /\ T[b1] < G[b3] => T[b2] < G[b3]
  BY <1>1, <1>2, GateSawParent
<1>10. QED
  BY <1>3, <1>4, <1>5, <1>6, <1>7, <1>8, <1>9

(* Three signers cannot build two branches of three blocks.  Each of the    *)
(* two signers of the top either signed its own branch just below, and then *)
(* the rival there came after its gate, or signed lower down, and then its  *)
(* gate saw both rivals of the lowest height and so the block it built on:  *)
(* either way the gates of the two tops contradict each other.              *)
LEMMA ThreeHeights ==
  ASSUME TypeOK, NoDoubleSign, NEW now \in Nat, NEW T \in Moments, NEW G \in Moments,
         NEW X \in [Seq(Block) -> Seq(Block)], Past(now, T, G, X),
         NEW a1, NEW b1, NEW a2, NEW b2, NEW a3, NEW b3,
         Climb(a1, b1, a2, b2), Climb(a2, b2, a3, b3),
         NEW x, NEW y, NEW z,
         SignedBy(a1, b1, x, y, z), SignedBy(a2, b2, x, y, z), SignedBy(a3, b3, x, y, z)
  PROVE  FALSE
<1> DEFINE A1 == Signer(a1)
           A2 == Signer(a2)
           A3 == Signer(a3)
           B1 == Signer(b1)
           B2 == Signer(b2)
           B3 == Signer(b3)
<1>1. A1 # B1 /\ A2 # B2 /\ A3 # B3
  BY RivalSigners DEF Climb
<1>2. /\ A2 # B1 /\ B2 # A1 /\ A3 # B2 /\ B3 # A2
      /\ ~(T[b1] < G[a2]) /\ ~(T[a1] < G[b2]) /\ ~(T[b2] < G[a3]) /\ ~(T[a2] < G[b3])
      /\ A2 = A1 => T[a1] < G[a2]
      /\ B2 = B1 => T[b1] < G[b2]
      /\ A3 = A2 => T[a2] < G[a3]
      /\ B3 = B2 => T[b2] < G[b3]
      /\ A3 = A1 => T[a1] < G[a3]
      /\ A3 = B1 => T[b1] < G[a3]
      /\ B3 = A1 => T[a1] < G[b3]
      /\ B3 = B1 => T[b1] < G[b3]
      /\ T[a1] < G[a3] /\ T[b1] < G[a3] => T[a2] < G[a3]
      /\ T[a1] < G[b3] /\ T[b1] < G[b3] => T[b2] < G[b3]
  BY ThreeHeightsFacts
<1>3. /\ A1 \in {x, y, z} /\ A2 \in {x, y, z} /\ A3 \in {x, y, z}
      /\ B1 \in {x, y, z} /\ B2 \in {x, y, z} /\ B3 \in {x, y, z}
  BY DEF SignedBy
<1>4. /\ T[a1] \in Nat /\ T[b1] \in Nat /\ T[a2] \in Nat /\ T[b2] \in Nat
      /\ T[a3] \in Nat /\ T[b3] \in Nat
      /\ G[a2] \in Nat /\ G[b2] \in Nat /\ G[a3] \in Nat /\ G[b3] \in Nat
  BY DEF TypeOK, Moments, Climb, Rivals
<1>5. G[a2] <= T[a2] /\ G[b2] <= T[b2] /\ G[a3] <= T[a3] /\ G[b3] <= T[b3]
  BY DEF Past, Climb, Rivals
<1> HIDE DEF A1, A2, A3, B1, B2, B3
<1>6. QED
  BY <1>1, <1>2, <1>3, <1>4, <1>5

(* A chain that is held, or signed, stays so when chains grow. *)
LEMMA AfterGrows ==
  ASSUME TypeOK, [Next]_vars, NEW n \in Nodes, NEW x \in Seq(Block), After(x, chain[n])
  PROVE  After(x, chain'[n])
<1>1. chain[n] \in Seq(Block) /\ chain'[n] \in Seq(Block)
  BY StepFacts DEF TypeOK
<1>2. Len(x) \in Nat /\ Len(chain[n]) \in Nat /\ Len(chain'[n]) \in Nat
  BY <1>1
<1>3. chain'[n] = chain[n] \/ Len(chain'[n]) > Len(chain[n])
  <2>1. CASE chain' = chain
    BY <2>1
  <2>2. ASSUME NEW m \in Nodes, Replaces(m)
        PROVE  chain'[n] = chain[n] \/ Len(chain'[n]) > Len(chain[n])
    <3>1. CASE m = n
      BY <2>2, <3>1 DEF Replaces, Extends
    <3>2. CASE m # n
      BY <2>2, <3>2 DEF Replaces, TypeOK
    <3>3. QED
      BY <3>1, <3>2
  <2>3. QED
    BY <2>1, <2>2, StepFacts
<1>4. QED
  BY <1>2, <1>3 DEF After

(* When every peer answers, the chain the tip gate lets through is higher   *)
(* than every other block ever signed: who signed a block still holds it or *)
(* something longer, and was asked.                                         *)
LEMMA TipIsHighest ==
  ASSUME IsFiniteSet(Nodes), MinReach >= Cardinality(Nodes) - 1, SignedInv, Held,
         NEW n \in Nodes, CheckPeers(n)
  PROVE  /\ chain[n] = <<>> \/ chain[n] \in blocks
         /\ \A c \in blocks : After(c, chain[n])
<1>0. /\ chain \in [Nodes -> Seq(Block)] /\ \A v \in Nodes : Len(chain[v]) \in Nat
      /\ \A c \in blocks : c \in Seq(Block) /\ Len(c) \in Nat /\ Signer(c) \in Nodes
  BY HeadFacts DEF SignedInv, TypeOK
<1>1. chain[n] = <<>> \/ chain[n] \in blocks
  <2> DEFINE c == chain[n]
  <2>1. c \in Seq(Block) /\ Signed(c, blocks)
    BY <1>0 DEF SignedInv
  <2> HIDE DEF c
  <2>2. ASSUME c # <<>>
        PROVE  c \in blocks
    <3>1. Len(c) \in Nat /\ Len(c) \in 1..Len(c) /\ Len(c) \in 0..Len(c)
      BY <2>1, <2>2
    <3>2. SubSeq(c, 1, Len(c)) = c
      BY <2>1, <3>1, PrefixFacts, SameChain
    <3>3. QED
      BY <2>1, <3>1, <3>2 DEF Signed
  <2>3. QED
    BY <2>2 DEF c
<1>2. PICK R \in SUBSET (Nodes \ {n}) : Cardinality(R) >= MinReach /\ TipAllows(n, R)
  BY DEF CheckPeers
<1>3. R = Nodes \ {n}
  <2>1. IsFiniteSet(Nodes \ {n}) /\ Cardinality(Nodes \ {n}) = Cardinality(Nodes) - 1
    BY FS_RemoveElement
  <2>2. IsFiniteSet(R) /\ Cardinality(R) <= Cardinality(Nodes \ {n})
        /\ (Cardinality(Nodes \ {n}) = Cardinality(R) => Nodes \ {n} = R)
    BY <2>1, FS_Subset
  <2>3. Cardinality(R) \in Nat /\ Cardinality(Nodes \ {n}) \in Nat /\ Cardinality(Nodes) \in Nat
    BY <2>1, <2>2, FS_CardinalityType
  <2>4. MinReach \in Nat
    BY BoundsAssumption
  <2>5. Cardinality(R) = Cardinality(Nodes \ {n})
    BY <1>2, <2>1, <2>2, <2>3, <2>4
  <2>6. QED
    BY <2>2, <2>5
<1>4. ASSUME NEW c \in blocks
      PROVE  After(c, chain[n])
  <2> DEFINE v == Signer(c)
  <2>1. v \in Nodes /\ After(c, chain[v])
    BY <1>0 DEF Held
  <2>2. CASE v = n
    BY <2>1, <2>2
  <2>3. CASE v # n
    <3> DEFINE f == [p \in R |-> Len(chain[p])]
    <3>1. v \in R /\ IsFiniteSet(R) /\ \A p \in R : f[p] \in Nat /\ f[p] = Len(chain[p])
      BY <1>0, <1>3, <2>1, <2>3, FS_Subset
    <3> HIDE DEF f, v
    <3>2. PICK p \in R : \A q \in R : f[q] <= f[p]
      BY <3>1, Greatest
    <3>3. \A q \in R : Len(chain[q]) <= Len(chain[p])
      BY <3>1, <3>2
    <3>4. Len(chain[p]) < Len(chain[n]) \/ chain[p] = chain[n]
      BY <1>2, <3>2, <3>3 DEF TipAllows
    <3>5. Len(chain[v]) \in Nat /\ Len(chain[p]) \in Nat /\ Len(chain[n]) \in Nat /\ Len(c) \in Nat
      BY <1>0, <1>3, <2>1, <3>2
    <3>6. CASE Len(chain[v]) < Len(chain[p])
      BY <2>1, <3>4, <3>5, <3>6 DEF After
    <3>7. CASE Len(chain[v]) = Len(chain[p])
      <4>1. \A q \in R : Len(chain[q]) <= Len(chain[v])
        BY <3>3, <3>7
      <4>2. Len(chain[v]) < Len(chain[n]) \/ chain[v] = chain[n]
        BY <1>2, <3>1, <4>1 DEF TipAllows
      <4>3. QED
        BY <2>1, <3>5, <4>2 DEF After
    <3>8. QED
      BY <3>1, <3>3, <3>5, <3>6, <3>7
  <2>4. QED
    BY <2>2, <2>3
<1>5. QED
  BY <1>1, <1>4

(* Nothing was signed at first: the empty history explains it. *)
LEMMA PastInit == Init => PastInv
<1> SUFFICES ASSUME Init
             PROVE  PastInv
  OBVIOUS
<1> DEFINE T == [c \in Seq(Block) |-> 0]
           X == [c \in Seq(Block) |-> <<>>]
           W == [n \in Nodes |-> 0]
           Y == [n \in Nodes |-> <<>>]
<1>1. SignedInv /\ Inv
  BY InitType, InitInv DEF Init, SignedInv, Signed, Idle
<1>2. Held /\ Past(0, T, T, X)
  BY DEF Init, Held, Past
<1>3. Waits(0, T, W, Y)
  BY DEF Init, Waits
<1>4. T \in Moments /\ X \in [Seq(Block) -> Seq(Block)] /\ W \in [Nodes -> Nat]
      /\ Y \in [Nodes -> Seq(Block)]
  BY DEF Moments
<1> HIDE DEF T, X, W, Y
<1>5. QED
  BY <1>1, <1>2, <1>3, <1>4 DEF PastInv

(* A step keeps what the earlier invariants say. *)
LEMMA BothInvStep ==
  ASSUME SignedInv, Inv, [Next]_vars
  PROVE  SignedInv' /\ Inv'
<1>1. [CrashNext]_vars
  BY DEF CrashNext
<1>2. QED
  BY <1>1, SignedStep, NextInv

(* A step that signs nothing and passes no gate keeps the history. *)
LEMMA PastQuiet ==
  ASSUME PastInv, [Next]_vars, blocks' = blocks,
         \A v \in Nodes : gate'[v] = "go" => gate[v] = "go"
  PROVE  PastInv'
<1>1. TypeOK /\ SignedInv' /\ Inv'
  BY BothInvStep DEF PastInv, Inv
<1>2. PICK now \in Nat, T \in Moments, G \in Moments, X \in [Seq(Block) -> Seq(Block)],
           W \in [Nodes -> Nat], Y \in [Nodes -> Seq(Block)] :
         Past(now, T, G, X) /\ Waits(now, T, W, Y)
  BY DEF PastInv
<1>3. Held'
  <2>1. \A c \in blocks : c \in Seq(Block) /\ Signer(c) \in Nodes /\ After(c, chain[Signer(c)])
    BY <1>1, HeadFacts DEF PastInv, Held, TypeOK
  <2>2. \A c \in blocks : After(c, chain'[Signer(c)])
    BY <1>1, <2>1, AfterGrows
  <2>3. QED
    BY <2>2 DEF Held
<1>4. Past(now, T, G, X)'
  BY <1>2 DEF Past, TopAt
<1>5. Waits(now, T, W, Y)'
  <2>1. SUFFICES ASSUME NEW v \in Nodes, gate'[v] = "go"
                 PROVE  /\ W[v] <= now
                        /\ TopAt(T, Y[v], W[v])'
                        /\ After(Y[v], chain'[v])
                        /\ \A c \in blocks' : Signer(c) = v => T[c] < W[v]
    BY DEF Waits
  <2>2. /\ W[v] <= now /\ TopAt(T, Y[v], W[v]) /\ After(Y[v], chain[v])
        /\ \A c \in blocks : Signer(c) = v => T[c] < W[v]
    BY <1>2, <2>1 DEF Waits
  <2>3. After(Y[v], chain'[v])
    BY <1>1, <2>2, AfterGrows
  <2>4. QED
    BY <2>2, <2>3 DEF TopAt
<1>6. QED
  BY <1>1, <1>2, <1>3, <1>4, <1>5 DEF PastInv

(* Passing the gate adds to the history: the moment, and the chain held. *)
LEMMA PastGate ==
  ASSUME IsFiniteSet(Nodes), MinReach >= Cardinality(Nodes) - 1,
         PastInv, NEW n \in Nodes, CheckPeers(n), [Next]_vars
  PROVE  PastInv'
<1>1. TypeOK /\ SignedInv' /\ Inv' /\ SignedInv /\ Held
  BY BothInvStep DEF PastInv, Inv
<1>2. PICK now \in Nat, T \in Moments, G \in Moments, X \in [Seq(Block) -> Seq(Block)],
           W \in [Nodes -> Nat], Y \in [Nodes -> Seq(Block)] :
         Past(now, T, G, X) /\ Waits(now, T, W, Y)
  BY DEF PastInv
<1>3. blocks' = blocks /\ chain' = chain /\ gate' = [gate EXCEPT ![n] = "go"]
  BY DEF CheckPeers
<1>4. Held'
  BY <1>1, <1>3 DEF Held
<1>5. Past(now, T, G, X)'
  BY <1>2, <1>3 DEF Past, TopAt
<1> DEFINE W2 == [W EXCEPT ![n] = now]
           Y2 == [Y EXCEPT ![n] = chain[n]]
<1>6. /\ W2 \in [Nodes -> Nat] /\ Y2 \in [Nodes -> Seq(Block)]
      /\ W2[n] = now /\ Y2[n] = chain[n]
      /\ \A v \in Nodes \ {n} : W2[v] = W[v] /\ Y2[v] = Y[v]
  BY <1>1 DEF TypeOK
<1>7. TopAt(T, chain[n], now)
  <2>1. (chain[n] = <<>> \/ chain[n] \in blocks) /\ \A c \in blocks : After(c, chain[n])
    BY <1>1, TipIsHighest
  <2>2. \A c \in blocks : T[c] < now
    BY <1>2 DEF Past
  <2>3. QED
    BY <2>1, <2>2 DEF TopAt
<1> HIDE DEF W2, Y2
<1>8. PICK w \in [Nodes -> Nat], y \in [Nodes -> Seq(Block)] : w = W2 /\ y = Y2
  BY <1>6
<1>9. Waits(now, T, w, y)'
  <2>1. SUFFICES ASSUME NEW v \in Nodes, gate'[v] = "go"
                 PROVE  /\ w[v] <= now
                        /\ TopAt(T, y[v], w[v])'
                        /\ After(y[v], chain'[v])
                        /\ \A c \in blocks' : Signer(c) = v => T[c] < w[v]
    BY DEF Waits
  <2>2. CASE v = n
    <3>1. w[v] = now /\ y[v] = chain[v]
      BY <1>6, <1>8, <2>2
    <3>2. \A c \in blocks : T[c] < now
      BY <1>2 DEF Past
    <3>3. QED
      BY <1>3, <1>7, <2>2, <3>1, <3>2 DEF TopAt, After
  <2>3. CASE v # n
    <3>1. w[v] = W[v] /\ y[v] = Y[v] /\ gate[v] = "go"
      BY <1>1, <1>3, <1>6, <1>8, <2>1, <2>3 DEF TypeOK
    <3>2. /\ W[v] <= now /\ TopAt(T, Y[v], W[v]) /\ After(Y[v], chain[v])
          /\ \A c \in blocks : Signer(c) = v => T[c] < W[v]
      BY <1>2, <3>1 DEF Waits
    <3>3. QED
      BY <1>3, <3>1, <3>2 DEF TopAt
  <2>4. QED
    BY <2>2, <2>3
<1>10. QED
  BY <1>1, <1>2, <1>4, <1>5, <1>8, <1>9 DEF PastInv

(* Signing adds a block to the history, with the permission it used up. *)
LEMMA PastProduce ==
  ASSUME PastInv, NEW n \in Nodes, Produce(n), [Next]_vars
  PROVE  PastInv'
<1> DEFINE b == [slot |-> slot, full |-> n \notin keys[n]]
           new == Append(chain[n], b)
<1>1. TypeOK /\ TypeOK' /\ SignedInv' /\ Inv' /\ SignedInv /\ Held
  BY BothInvStep DEF PastInv, Inv
<1>2. PICK now \in Nat, T \in Moments, G \in Moments, X \in [Seq(Block) -> Seq(Block)],
           W \in [Nodes -> Nat], Y \in [Nodes -> Seq(Block)] :
         Past(now, T, G, X) /\ Waits(now, T, W, Y)
  BY DEF PastInv
<1>3. chain[n] \in Seq(Block) /\ Len(chain[n]) \in Nat /\ b \in Block
  BY <1>1 DEF TypeOK, Block
<1>4. /\ new \in Seq(Block) /\ Len(new) = Len(chain[n]) + 1 /\ HeadSlot(new) = slot
      /\ \A i \in 1..Len(chain[n]) : new[i] = chain[n][i]
  BY <1>3, AppendFacts
<1>5. /\ blocks' = blocks \cup {new} /\ chain' = [chain EXCEPT ![n] = new]
      /\ gate' = [gate EXCEPT ![n] = "idle"] /\ gate[n] = "go" /\ ExpectedProducer(slot) = n
  BY DEF Produce, CanProduce
<1> HIDE DEF new, b
<1>6. Signer(new) = n
  BY <1>4, <1>5 DEF Signer
<1>7. Parent(new) = chain[n]
  <2>1. Len(new) - 1 \in 0..Len(new) /\ Len(new) - 1 = Len(chain[n])
    BY <1>3, <1>4
  <2>2. Parent(new) \in Seq(Block) /\ Len(Parent(new)) = Len(chain[n])
        /\ \A i \in 1..Len(chain[n]) : Parent(new)[i] = new[i]
    BY <1>4, <2>1, PrefixFacts DEF Parent
  <2>3. QED
    BY <1>3, <1>4, <2>2, SameChain
<1>8. \A c \in blocks : c \in Seq(Block) /\ Len(c) \in Nat /\ Signer(c) \in Nodes
  BY <1>1, HeadFacts DEF TypeOK
<1>9. new \notin blocks
  <2>1. SUFFICES ASSUME new \in blocks
                 PROVE  FALSE
    OBVIOUS
  <2>2. After(new, chain[n])
    BY <1>1, <1>6, <2>1 DEF Held
  <2>3. QED
    BY <1>3, <1>4, <2>2 DEF After
<1>10. Held'
  <2>1. SUFFICES ASSUME NEW c \in blocks'
                 PROVE  After(c, chain'[Signer(c)])
    BY DEF Held
  <2>2. CASE c = new
    <3>1. chain'[n] = new
      BY <1>1, <1>5 DEF TypeOK
    <3>2. QED
      BY <1>6, <2>2, <3>1 DEF After
  <2>3. CASE c \in blocks
    BY <1>1, <1>8, <2>3, AfterGrows DEF Held
  <2>4. QED
    BY <1>5, <2>1, <2>2, <2>3
<1>11. PICK t \in Moments : t = [T EXCEPT ![new] = now]
  BY <1>4 DEF Moments
<1>12. PICK g \in Moments : g = [G EXCEPT ![new] = W[n]]
  BY <1>4 DEF Moments
<1>13. PICK x \in [Seq(Block) -> Seq(Block)] : x = [X EXCEPT ![new] = Y[n]]
  BY <1>4
<1>14. t[new] = now /\ g[new] = W[n] /\ x[new] = Y[n]
  BY <1>4, <1>11, <1>12, <1>13 DEF Moments
<1>15. \A c \in blocks : t[c] = T[c] /\ g[c] = G[c] /\ x[c] = X[c]
  BY <1>8, <1>9, <1>11, <1>12, <1>13 DEF Moments
<1>16. \A c \in blocks : T[c] \in Nat /\ G[c] \in Nat /\ T[c] < now /\ G[c] <= T[c]
  BY <1>2, <1>8 DEF Past, Moments
<1>17. /\ W[n] \in Nat /\ W[n] <= now /\ TopAt(T, Y[n], W[n]) /\ After(Y[n], chain[n])
       /\ \A c \in blocks : Signer(c) = n => T[c] < W[n]
  BY <1>2, <1>5 DEF Waits
<1>18. ASSUME NEW y, NEW m \in Nat, m <= now, TopAt(T, y, m)
       PROVE  TopAt(t, y, m)'
  <2>1. y = <<>> \/ (y \in blocks' /\ t[y] < m)
    BY <1>5, <1>15, <1>18 DEF TopAt
  <2>2. ASSUME NEW c \in blocks', t[c] < m
        PROVE  After(c, y)
    <3>1. c # new
      BY <1>14, <1>18, <2>2
    <3>2. c \in blocks /\ T[c] < m
      BY <1>5, <1>15, <2>2, <3>1
    <3>3. QED
      BY <1>18, <3>2 DEF TopAt
  <2>3. QED
    BY <2>1, <2>2 DEF TopAt
<1>19. Past(now + 1, t, g, x)'
  <2>1. ASSUME NEW c \in blocks'
        PROVE  /\ Len(c) >= 1 /\ t[c] < now + 1 /\ g[c] <= t[c]
               /\ TopAt(t, x[c], g[c])' /\ After(x[c], Parent(c))
    <3>1. CASE c = new
      <4>1. Len(c) >= 1 /\ t[c] < now + 1 /\ g[c] <= t[c]
        BY <1>3, <1>4, <1>14, <1>17, <3>1
      <4>2. TopAt(t, Y[n], W[n])'
        BY <1>17, <1>18
      <4>3. QED
        BY <1>7, <1>14, <1>17, <3>1, <4>1, <4>2
    <3>2. CASE c \in blocks
      <4>1. Len(c) >= 1 /\ T[c] < now /\ G[c] <= T[c] /\ TopAt(T, X[c], G[c]) /\ After(X[c], Parent(c))
        BY <1>2, <3>2 DEF Past
      <4>2. G[c] \in Nat /\ T[c] \in Nat /\ G[c] <= now
        BY <1>16, <3>2
      <4>3. TopAt(t, X[c], G[c])'
        BY <1>18, <4>1, <4>2
      <4>4. QED
        BY <1>15, <3>2, <4>1, <4>2, <4>3
    <3>3. QED
      BY <1>5, <2>1, <3>1, <3>2
  <2>2. ASSUME NEW c \in blocks', NEW d \in blocks'
        PROVE  /\ t[c] = t[d] => c = d
               /\ Signer(c) = Signer(d) /\ t[d] < t[c] => t[d] < g[c] /\ After(d, Parent(c))
    <3>1. CASE c \in blocks /\ d \in blocks
      BY <1>2, <1>15, <3>1 DEF Past
    <3>2. CASE c = new /\ d = new
      BY <1>14, <3>2
    <3>3. CASE c = new /\ d \in blocks
      <4>1. t[d] = T[d] /\ T[d] < now /\ T[d] \in Nat /\ t[c] = now /\ g[c] = W[n]
        BY <1>14, <1>15, <1>16, <3>3
      <4>2. Signer(d) = n => T[d] < W[n] /\ After(d, chain[n])
        BY <1>1, <1>17, <3>3 DEF Held
      <4>3. QED
        BY <1>6, <1>7, <3>3, <4>1, <4>2
    <3>4. CASE c \in blocks /\ d = new
      <4>1. t[c] = T[c] /\ T[c] < now /\ T[c] \in Nat /\ t[d] = now
        BY <1>14, <1>15, <1>16, <3>4
      <4>2. QED
        BY <4>1
    <3>5. QED
      BY <1>5, <2>2, <3>1, <3>2, <3>3, <3>4
  <2>3. QED
    BY <2>1, <2>2 DEF Past
<1>20. Waits(now + 1, t, W, Y)'
  <2>1. SUFFICES ASSUME NEW v \in Nodes, gate'[v] = "go"
                 PROVE  /\ W[v] <= now + 1
                        /\ TopAt(t, Y[v], W[v])'
                        /\ After(Y[v], chain'[v])
                        /\ \A c \in blocks' : Signer(c) = v => t[c] < W[v]
    BY DEF Waits
  <2>2. v # n /\ gate[v] = "go"
    BY <1>1, <1>5, <2>1 DEF TypeOK
  <2>3. /\ W[v] \in Nat /\ W[v] <= now /\ TopAt(T, Y[v], W[v]) /\ After(Y[v], chain[v])
        /\ \A c \in blocks : Signer(c) = v => T[c] < W[v]
    BY <1>2, <2>2 DEF Waits
  <2>4. TopAt(t, Y[v], W[v])'
    BY <1>18, <2>3
  <2>5. After(Y[v], chain'[v])
    BY <1>1, <1>5, <2>2, <2>3 DEF TypeOK
  <2>6. \A c \in blocks' : Signer(c) = v => t[c] < W[v]
    BY <1>5, <1>6, <1>15, <2>2, <2>3
  <2>7. QED
    BY <2>3, <2>4, <2>5, <2>6
<1>21. now + 1 \in Nat
  OBVIOUS
<1>22. QED
  BY <1>1, <1>2, <1>10, <1>11, <1>12, <1>13, <1>19, <1>20, <1>21 DEF PastInv

(* Every block is signed by a validator. *)
LEMMA SignerValidates ==
  ASSUME NEW c \in Seq(Block)
  PROVE  Signer(c) \in Validators
<1>1. HeadSlot(c) \in Nat
  BY HeadFacts
<1>2. Len(Schedule) \in Nat /\ Len(Schedule) > 0
  BY ScheduleAssumption
<1>3. (HeadSlot(c) % Len(Schedule)) + 1 \in 1..Len(Schedule)
  BY <1>1, <1>2
<1>4. QED
  BY <1>3 DEF Signer, ExpectedProducer, Validators

(* The blocks of two signed chains above the height at which they part. *)
LEMMA Branches ==
  ASSUME NEW c \in Seq(Block), NEW d \in Seq(Block), Signed(c, blocks), Signed(d, blocks),
         NEW h \in Nat, IsCommon(c, d, 0, h),
         NEW k \in Nat, h < k, k <= Len(c), k <= Len(d)
  PROVE  /\ Rivals(SubSeq(c, 1, k), SubSeq(d, 1, k))
         /\ SubSeq(c, 1, k) \in Seq(Block) /\ SubSeq(d, 1, k) \in Seq(Block)
         /\ Len(SubSeq(c, 1, k)) = k
         /\ Parent(SubSeq(c, 1, k)) = SubSeq(c, 1, k - 1)
         /\ Parent(SubSeq(d, 1, k)) = SubSeq(d, 1, k - 1)
<1>1. ASSUME NEW e \in Seq(Block), k <= Len(e), Signed(e, blocks)
      PROVE  /\ SubSeq(e, 1, k) \in blocks
             /\ SubSeq(e, 1, k) \in Seq(Block) /\ Len(SubSeq(e, 1, k)) = k
             /\ \A i \in 1..k : SubSeq(e, 1, k)[i] = e[i]
             /\ Parent(SubSeq(e, 1, k)) = SubSeq(e, 1, k - 1)
  <2> DEFINE p == SubSeq(e, 1, k)
  <2>1. k \in 1..Len(e) /\ k \in 0..Len(e)
    BY <1>1
  <2>2. p \in Seq(Block) /\ Len(p) = k /\ \A i \in 1..k : p[i] = e[i]
    BY <2>1, PrefixFacts
  <2>3. p \in blocks
    BY <1>1, <2>1 DEF Signed
  <2> HIDE DEF p
  <2>4. k - 1 \in Nat /\ k - 1 <= Len(p) /\ k - 1 <= Len(e) /\ \A i \in 1..(k - 1) : p[i] = e[i]
    BY <1>1, <2>2
  <2>5. SubSeq(p, 1, k - 1) = SubSeq(e, 1, k - 1)
    BY <2>2, <2>4, SamePrefix
  <2>6. Parent(p) = SubSeq(e, 1, k - 1)
    BY <2>2, <2>5 DEF Parent
  <2>7. QED
    BY <2>2, <2>3, <2>6 DEF p
<1> DEFINE p == SubSeq(c, 1, k)
           q == SubSeq(d, 1, k)
<1>2. /\ p \in blocks /\ p \in Seq(Block) /\ Len(p) = k /\ \A i \in 1..k : p[i] = c[i]
      /\ Parent(p) = SubSeq(c, 1, k - 1)
  BY <1>1
<1>3. /\ q \in blocks /\ q \in Seq(Block) /\ Len(q) = k /\ \A i \in 1..k : q[i] = d[i]
      /\ Parent(q) = SubSeq(d, 1, k - 1)
  BY <1>1
<1> HIDE DEF p, q
<1>4. p # q
  <2>1. k \in (h + 1)..Len(c)
    OBVIOUS
  <2>2. ~AgreeUpTo(c, d, k)
    BY <2>1 DEF IsCommon
  <2>3. QED
    BY <1>2, <1>3, <2>2 DEF AgreeUpTo
<1>5. Rivals(p, q)
  BY <1>2, <1>3, <1>4 DEF Rivals
<1>6. QED
  BY <1>2, <1>3, <1>5 DEF p, q

(* A history that explains the blocks leaves room for shallow forks only. *)
LEMMA PastIsShallow ==
  ASSUME IsFiniteSet(Nodes), PastInv
  PROVE  ForkShallow
<1> DEFINE V == Cardinality(Validators)
<1>1. TypeOK /\ NoDoubleSign /\ \A n \in Nodes : Signed(chain[n], blocks)
  BY DEF PastInv, Inv, SignedInv
<1>2. PICK now \in Nat, T \in Moments, G \in Moments, X \in [Seq(Block) -> Seq(Block)] :
         Past(now, T, G, X)
  BY DEF PastInv
<1>3. IsFiniteSet(Validators) /\ V \in Nat /\ V # 0
  <2>1. Validators \in SUBSET Nodes /\ Validators # {}
    BY ScheduleAssumption DEF Validators
  <2>2. IsFiniteSet(Validators)
    BY <2>1, FS_Subset
  <2>3. QED
    BY <2>1, <2>2, FS_CardinalityType, FS_EmptySet
<1> HIDE DEF V
<1>4. SUFFICES ASSUME V <= 3, NEW n \in Nodes, NEW m \in Nodes, NEW h \in 0..Len(chain[n]),
                      IsCommon(chain[n], chain[m], 0, h), Len(chain[n]) <= Len(chain[m]),
                      ~(Len(chain[n]) - h <= V - 1)
               PROVE  FALSE
  BY DEF ForkShallow, V
<1> DEFINE c == chain[n]
           d == chain[m]
<1>5. c \in Seq(Block) /\ d \in Seq(Block) /\ Len(c) \in Nat /\ Len(d) \in Nat /\ h \in Nat
      /\ Signed(c, blocks) /\ Signed(d, blocks) /\ IsCommon(c, d, 0, h)
      /\ Len(c) <= Len(d) /\ h + V <= Len(c)
  BY <1>1, <1>3, <1>4 DEF TypeOK
<1> HIDE DEF c, d
<1> DEFINE A(k) == SubSeq(c, 1, h + k)
           B(k) == SubSeq(d, 1, h + k)
<1>6. ASSUME NEW k \in 1..V
      PROVE  /\ Rivals(A(k), B(k)) /\ Len(A(k)) = h + k
             /\ Parent(A(k)) = A(k - 1) /\ Parent(B(k)) = B(k - 1)
             /\ Signer(A(k)) \in Validators /\ Signer(B(k)) \in Validators
  <2>1. h + k \in Nat /\ h < h + k /\ h + k <= Len(c) /\ h + k <= Len(d)
        /\ (h + k) - 1 = h + (k - 1)
    BY <1>3, <1>5
  <2>2. /\ Rivals(A(k), B(k)) /\ A(k) \in Seq(Block) /\ B(k) \in Seq(Block) /\ Len(A(k)) = h + k
        /\ Parent(A(k)) = SubSeq(c, 1, (h + k) - 1) /\ Parent(B(k)) = SubSeq(d, 1, (h + k) - 1)
    BY <1>5, <2>1, Branches
  <2>3. QED
    BY <2>1, <2>2, SignerValidates
<1> HIDE DEF A, B
<1>7. /\ V >= 1 => Rivals(A(1), B(1))
      /\ V >= 2 => Climb(A(1), B(1), A(2), B(2))
      /\ V >= 3 => Climb(A(2), B(2), A(3), B(3))
  <2>1. ASSUME NEW k \in {1, 2}, V >= k + 1
        PROVE  Climb(A(k), B(k), A(k + 1), B(k + 1))
    <3>1. k \in 1..V /\ k + 1 \in 1..V /\ (k + 1) - 1 = k
      BY <1>3, <2>1
    <3>2. Rivals(A(k), B(k)) /\ Len(A(k)) = h + k
      BY <1>6, <3>1
    <3>3. /\ Rivals(A(k + 1), B(k + 1)) /\ Len(A(k + 1)) = h + (k + 1)
          /\ Parent(A(k + 1)) = A(k) /\ Parent(B(k + 1)) = B(k)
      BY <1>6, <3>1
    <3>4. Len(A(k + 1)) = Len(A(k)) + 1
      BY <1>5, <3>2, <3>3
    <3>5. QED
      BY <3>2, <3>3, <3>4 DEF Climb
  <2>2. V >= 1 => Rivals(A(1), B(1))
    BY <1>3, <1>6
  <2>3. V >= 2 => Climb(A(1), B(1), A(1 + 1), B(1 + 1))
    BY <2>1
  <2>4. V >= 3 => Climb(A(2), B(2), A(2 + 1), B(2 + 1))
    BY <2>1
  <2>5. 1 + 1 = 2 /\ 2 + 1 = 3
    OBVIOUS
  <2>6. QED
    BY <2>2, <2>3, <2>4, <2>5
<1>8. ASSUME NEW x, NEW y, NEW z, Validators \subseteq {x, y, z}, NEW k \in 1..V
      PROVE  SignedBy(A(k), B(k), x, y, z)
  BY <1>6, <1>8 DEF SignedBy
<1>9. CASE V = 1
  <2>1. Cardinality(Validators) <= 1
    BY <1>9 DEF V
  <2>2. PICK x : Validators \subseteq {x}
    BY <1>3, <2>1, FewElements
  <2>3. SignedBy(A(1), B(1), x, x, x)
    BY <1>8, <1>9, <2>2
  <2>4. Signer(A(1)) = Signer(B(1))
    BY <2>3 DEF SignedBy
  <2>5. QED
    BY <1>1, <1>7, <1>9, <2>4, RivalSigners
<1>10. CASE V = 2
  <2>1. Cardinality(Validators) <= 2
    BY <1>10 DEF V
  <2>2. PICK x, y : Validators \subseteq {x, y}
    BY <1>3, <2>1, FewElements
  <2>3. Validators \subseteq {x, y, y}
    BY <2>2
  <2>4. SignedBy(A(1), B(1), x, y, y) /\ SignedBy(A(2), B(2), x, y, y)
    BY <1>8, <1>10, <2>3
  <2>5. Climb(A(1), B(1), A(2), B(2))
    BY <1>7, <1>10
  <2>6. QED
    BY <1>1, <1>2, <2>4, <2>5, TwoHeights
<1>11. CASE V = 3
  <2>1. Cardinality(Validators) <= 3
    BY <1>11 DEF V
  <2>2. PICK x, y, z : Validators \subseteq {x, y, z}
    BY <1>3, <2>1, FewElements
  <2>3. /\ SignedBy(A(1), B(1), x, y, z) /\ SignedBy(A(2), B(2), x, y, z)
        /\ SignedBy(A(3), B(3), x, y, z)
    BY <1>8, <1>11, <2>2
  <2>4. Climb(A(1), B(1), A(2), B(2)) /\ Climb(A(2), B(2), A(3), B(3))
    BY <1>7, <1>11
  <2>5. QED
    BY <1>1, <1>2, <2>3, <2>4, ThreeHeights
<1>12. QED
  BY <1>3, <1>4, <1>9, <1>10, <1>11

(* Every step keeps a history of the blocks. *)
LEMMA PastStep ==
  ASSUME IsFiniteSet(Nodes), MinReach >= Cardinality(Nodes) - 1, PastInv, [Next]_vars
  PROVE  PastInv'
<1>1. ASSUME NEW n \in Nodes, CheckPeers(n)
      PROVE  PastInv'
  BY <1>1, PastGate
<1>2. ASSUME NEW n \in Nodes, Produce(n)
      PROVE  PastInv'
  BY <1>2, PastProduce
<1>3. CASE \A n \in Nodes : ~CheckPeers(n) /\ ~Produce(n)
  <2>1. gate \in [Nodes -> {"idle", "go"}]
    BY DEF PastInv, SignedInv, TypeOK
  <2>2. blocks' = blocks
    BY <1>3 DEF Next, vars, NextSlot, Producing, Syncing, MissSlot, Receive,
                SyncBegin, SyncExtend, SyncDiverged, SyncReorg, SyncKeep
  <2>3. gate' = gate \/ \E n \in Nodes : gate' = [gate EXCEPT ![n] = "idle"]
    BY <1>3 DEF Next, vars, NextSlot, Producing, Syncing, MissSlot, Receive,
                SyncBegin, SyncExtend, SyncDiverged, SyncReorg, SyncKeep
  <2>4. \A v \in Nodes : gate'[v] = "go" => gate[v] = "go"
    BY <2>1, <2>3
  <2>5. QED
    BY <2>2, <2>4, PastQuiet
<1>4. QED
  BY <1>1, <1>2, <1>3

(* When every peer answers the tip gate, forks stay shallow for any number  *)
(* of nodes, any rotation of at most three validators and any clock: the    *)
(* stale permissions of the gate add up to one block per validator but one, *)
(* however gossip, sync and production interleave.                          *)
THEOREM ForksStayShallow ==
  ASSUME IsFiniteSet(Nodes), MinReach >= Cardinality(Nodes) - 1
  PROVE  Spec => []ForkShallow
<1>1. PastInv /\ [Next]_vars => PastInv'
  BY PastStep
<1>2. PastInv => ForkShallow
  BY PastIsShallow
<1>3. QED
  BY <1>1, <1>2, PastInit, PTL DEF Spec
=============================================================================
