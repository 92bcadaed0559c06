------------------------------ MODULE Consensus ------------------------------
(***************************************************************************)
(* The network of EAV7 nodes: block production by slots, gossip of single  *)
(* blocks, and synchronisation by pulling a peer's chain.                  *)
(*                                                                         *)
(* Each node runs three tasks over one lock-protected chain: the producer  *)
(* loop (rust/node/src/producer.rs with the tip gate of follow.rs), the    *)
(* POST /blocks handler (api/chain.rs) and the sync loop (p2p.rs).  The    *)
(* lock is never held across network I/O, so what the producer and the     *)
(* sync loop read before an await may be stale when they use it; gate and  *)
(* pull hold exactly that.                                                 *)
(***************************************************************************)
EXTENDS ChainRules

CONSTANTS MaxSlot,      \* bound: the last slot the clock reaches
          MinReach,     \* how many peers at least answer a /status probe
          ReorgWindow   \* REORG_WINDOW, how far back the sync window starts

ASSUME BoundsAssumption == /\ MaxSlot \in Nat
                           /\ MinReach \in Nat
                           /\ ReorgWindow \in Nat

VARIABLES slot,     \* the slot of the wall clock
          chain,    \* chain[n]: the chain node n holds
          keys,     \* keys[n]: producer_keys, whose public keys n knows
          lastSlot, \* lastSlot[n]: last_slot of n's producer task (0: none)
          gate,     \* gate[n]: "go" once the tip gate allowed this round
          pull,     \* pull[n]: what n's sync task fetched and has not applied
          blocks    \* every block ever signed, each as the chain it ends

vars == <<slot, chain, keys, lastSlot, gate, pull, blocks>>

Idle(n) == [stage |-> "idle", peer |-> n, alt |-> 0, data |-> <<>>]

Pull == [stage : {"idle", "extend", "tip", "window", "all"}, peer : Nodes,
         alt : Nat, data : Seq(Block)]

Init == /\ slot = 1
        /\ chain = [n \in Nodes |-> <<>>]
        /\ keys = [n \in Nodes |-> {}]
        /\ lastSlot = [n \in Nodes |-> 0]
        /\ gate = [n \in Nodes |-> "idle"]
        /\ pull = [n \in Nodes |-> Idle(n)]
        /\ blocks = {}

-----------------------------------------------------------------------------
(* The wall clock.  Clocks agree to within the tolerances add_block allows. *)
NextSlot == /\ slot < MaxSlot
            /\ slot' = slot + 1
            /\ UNCHANGED <<chain, keys, lastSlot, gate, pull, blocks>>

(* Mutant of TipAllows: a different tip at our own height is let through. *)
TipAllowsFork(n, R) == \A p \in R : Len(chain[p]) <= Len(chain[n])

(* check_peers: of the peers that answered, those with the highest chain    *)
(* agree on it, and it is not above ours nor beside ours at our height.     *)
(* With no answer at all the gate allows.  The code visits peers in the     *)
(* order of its list and holds as soon as two tips of the highest height    *)
(* so far differ; the list is arbitrary, so this is the order that lets the *)
(* most rounds through.                                                     *)
TipAllows(n, R) ==
  LET top == {p \in R : \A q \in R : Len(chain[q]) <= Len(chain[p])} IN
  /\ \A p, q \in top : chain[p] = chain[q]
  /\ \A p \in top : Len(chain[p]) < Len(chain[n]) \/ chain[p] = chain[n]

(* One round of the producer loop up to the end of the await: a round the   *)
(* gate holds leaves no trace.                                              *)
CheckPeers(n) ==
  /\ n \in Validators
  /\ gate[n] = "idle"
  /\ \E R \in SUBSET (Nodes \ {n}) : Cardinality(R) >= MinReach /\ TipAllows(n, R)
  /\ gate' = [gate EXCEPT ![n] = "go"]
  /\ UNCHANGED <<slot, chain, keys, lastSlot, pull, blocks>>

(* Mutant of CanProduce: last_slot is not consulted. *)
CanProduceAgain(n) == /\ HeadSlot(chain[n]) < slot
                      /\ ExpectedProducer(slot) = n

CanProduce(n) == /\ slot # lastSlot[n]
                 /\ HeadSlot(chain[n]) < slot
                 /\ ExpectedProducer(slot) = n

(* producer.rs tick under the write lock, then produce_block: the block     *)
(* omits the producer's keys when the node believes they are known.  The    *)
(* block is handed to gossip outside the lock; it may never arrive.         *)
Produce(n) ==
  LET b == [slot |-> slot, full |-> n \notin keys[n]]
      c == Append(chain[n], b) IN
  /\ gate[n] = "go"
  /\ CanProduce(n)
  /\ chain' = [chain EXCEPT ![n] = c]
  /\ keys' = [keys EXCEPT ![n] = @ \cup {n}]
  /\ lastSlot' = [lastSlot EXCEPT ![n] = slot]
  /\ gate' = [gate EXCEPT ![n] = "idle"]
  /\ blocks' = blocks \cup {c}
  /\ UNCHANGED <<slot, pull>>

MissSlot(n) == /\ gate[n] = "go"
               /\ ~CanProduce(n)
               /\ gate' = [gate EXCEPT ![n] = "idle"]
               /\ UNCHANGED <<slot, chain, keys, lastSlot, pull, blocks>>

-----------------------------------------------------------------------------
(* receive_block: a block that was ever signed arrives, late, twice or out  *)
(* of order; add_block takes it only on top of the current head.            *)
Receive(n) == \E c \in blocks :
  /\ Len(c) = Len(chain[n]) + 1
  /\ AgreeUpTo(chain[n], c, Len(chain[n]))
  /\ AddBlockOk(keys[n], c, Len(c), Len(c), slot)
  /\ chain' = [chain EXCEPT ![n] = Append(@, c[Len(c)])]
  /\ keys' = [keys EXCEPT ![n] = @ \cup KeysIn(c, Len(c), Len(c))]
  /\ UNCHANGED <<slot, lastSlot, gate, pull, blocks>>

(* Mutant of SyncBegin: a peer one block ahead is not pulled from. *)
SyncBeginFar(n, p) ==
  /\ p # n /\ pull[n].stage = "idle"
  /\ Len(chain[p]) > Len(chain[n]) + 1
  /\ pull' = [pull EXCEPT ![n] = [stage |-> "extend", peer |-> p,
                                  alt |-> Len(chain[n]), data |-> chain[p]]]
  /\ UNCHANGED <<slot, chain, keys, lastSlot, gate, blocks>>

(* sync_once and sync_with_peer up to the first download: the peer's status *)
(* and the local photograph decide between extending and a tip reorg.       *)
SyncBegin(n, p) ==
  /\ p # n
  /\ pull[n].stage = "idle"
  /\ Len(chain[p]) >= Len(chain[n])
  /\ chain[p] # chain[n]
  /\ pull' = [pull EXCEPT ![n] =
                [stage |-> IF Len(chain[p]) > Len(chain[n]) THEN "extend" ELSE "tip",
                 peer |-> p, alt |-> Len(chain[n]), data |-> chain[p]]]
  /\ UNCHANGED <<slot, chain, keys, lastSlot, gate, blocks>>

(* The next download: the peer is asked again and may have moved on. *)
Refetch(n, stage) ==
  pull' = [pull EXCEPT ![n].stage = stage, ![n].data = chain[pull[n].peer]]

(* Mutant of Continues: previousHash is not compared with the current head. *)
ContinuesByHeight(n) == /\ Len(chain[n]) = pull[n].alt
                        /\ Len(pull[n].data) > pull[n].alt

(* The downloaded blocks continue the chain n holds now. *)
Continues(n) == /\ Len(chain[n]) = pull[n].alt
                /\ Len(pull[n].data) > pull[n].alt
                /\ AgreeUpTo(chain[n], pull[n].data, pull[n].alt)

(* Blocks alt+1..k of d are taken: add_block refuses block k+1, or k is all. *)
TakesUpTo(ks, d, alt, k) ==
  /\ \A i \in (alt + 1)..k : AddBlockOk(ks, d, alt + 1, i, slot)
  /\ k < Len(d) => ~AddBlockOk(ks, d, alt + 1, k + 1, slot)

(* Step 2a, incremental extension: the valid prefix of the download is kept. *)
SyncExtend(n) ==
  LET d == pull[n].data
      alt == pull[n].alt IN
  /\ pull[n].stage = "extend"
  /\ Continues(n)
  /\ \E k \in (alt + 1)..Len(d) :
       /\ TakesUpTo(keys[n], d, alt, k)
       /\ chain' = [chain EXCEPT ![n] = Splice(@, d, alt, k)]
       /\ keys' = [keys EXCEPT ![n] = @ \cup KeysIn(d, alt + 1, k)]
  /\ pull' = [pull EXCEPT ![n] = Idle(n)]
  /\ UNCHANGED <<slot, lastSlot, gate, blocks>>

(* Nothing of the download could be added: the window is downloaded next. *)
SyncDiverged(n) ==
  /\ pull[n].stage = "extend"
  /\ Continues(n) => TakesUpTo(keys[n], pull[n].data, pull[n].alt, pull[n].alt)
  /\ Refetch(n, "window")
  /\ UNCHANGED <<slot, chain, keys, lastSlot, gate, blocks>>

(* The lowest height the download of this stage holds. *)
WindowStart(n) == IF pull[n].stage = "all" \/ pull[n].alt < ReorgWindow
                  THEN 0 ELSE pull[n].alt - ReorgWindow

(* The pull reaches Blockchain::reorg at height h: reorg_from_peer_window   *)
(* calls it only below the local head, replace_chain only for a longer one. *)
ReorgPoint(n, h) ==
  /\ IsCommon(chain[n], pull[n].data, WindowStart(n), h)
  /\ pull[n].stage = "all" \/ h < Len(chain[n])

(* Steps 2b and 2c: the peer's chain is adopted.  The candidate's table of  *)
(* producer keys is dropped with the candidate.                             *)
SyncReorg(n) ==
  LET d == pull[n].data IN
  /\ pull[n].stage \in {"tip", "window", "all"}
  /\ \E h \in 0..Len(chain[n]) :
       /\ ReorgPoint(n, h)
       /\ ReorgAdopts(chain[n], d, h, slot)
       /\ chain' = [chain EXCEPT ![n] = Splice(@, d, h, Len(d))]
  /\ pull' = [pull EXCEPT ![n] = Idle(n)]
  /\ UNCHANGED <<slot, keys, lastSlot, gate, blocks>>

(* Reorg::Manteve or no common block: the window falls back to the whole    *)
(* chain; an error, or the last stage, ends this round.                     *)
SyncKeep(n) ==
  LET d == pull[n].data
      tried == {h \in 0..Len(chain[n]) : ReorgPoint(n, h)} IN
  /\ pull[n].stage \in {"tip", "window", "all"}
  /\ \A h \in tried : ~ReorgAdopts(chain[n], d, h, slot)
  /\ IF pull[n].stage = "window" /\ (tried = {} \/ Len(d) <= Len(chain[n]))
     THEN Refetch(n, "all")
     ELSE pull' = [pull EXCEPT ![n] = Idle(n)]
  /\ UNCHANGED <<slot, chain, keys, lastSlot, gate, blocks>>

-----------------------------------------------------------------------------
Producing(n) == CheckPeers(n) \/ Produce(n) \/ MissSlot(n)

Syncing(n) == SyncExtend(n) \/ SyncDiverged(n) \/ SyncReorg(n) \/ SyncKeep(n)

Next == \/ NextSlot
        \/ \E n \in Nodes : Producing(n) \/ Receive(n) \/ Syncing(n)
        \/ \E n, p \in Nodes : SyncBegin(n, p)

Spec == Init /\ [][Next]_vars

(* Mutant of Restart: the last block is not on disk. *)
RestartShort(n) ==
  /\ chain[n] # <<>>
  /\ chain' = [chain EXCEPT ![n] = SubSeq(@, 1, Len(@) - 1)]
  /\ keys' = [keys EXCEPT ![n] = KeysIn(chain[n], 1, Len(chain[n]) - 1)]
  /\ lastSlot' = [lastSlot EXCEPT ![n] = 0]
  /\ gate' = [gate EXCEPT ![n] = "idle"]
  /\ pull' = [pull EXCEPT ![n] = Idle(n)]
  /\ UNCHANGED <<slot, blocks>>

(* A process restart.  The chain is on disk and the tables are rebuilt from *)
(* it; last_slot, the gate and the pull are lost.  A fast boot from a       *)
(* snapshot verifies no signature; a full replay (load_from_disk) stops at  *)
(* the first block it cannot verify, discards at most one, and otherwise    *)
(* refuses to start, which is a node that takes no further step.            *)
Restart(n) ==
  /\ \E k \in 0..Len(chain[n]) :
       /\ \/ k = Len(chain[n])
          \/ /\ k = Len(chain[n]) - 1
             /\ ReplaysUpTo(chain[n], k)
             /\ ~ReplaysUpTo(chain[n], k + 1)
       /\ chain' = [chain EXCEPT ![n] = SubSeq(@, 1, k)]
       /\ keys' = [keys EXCEPT ![n] = KeysIn(chain[n], 1, k)]
  /\ lastSlot' = [lastSlot EXCEPT ![n] = 0]
  /\ gate' = [gate EXCEPT ![n] = "idle"]
  /\ pull' = [pull EXCEPT ![n] = Idle(n)]
  /\ UNCHANGED <<slot, blocks>>

CrashNext == Next \/ \E n \in Nodes : Restart(n)

(* The loops run forever and links eventually answer: every sync round      *)
(* visits every peer and every fetched range is applied.                    *)
Fairness == /\ WF_vars(NextSlot)
            /\ \A n \in Nodes : WF_vars(Producing(n)) /\ WF_vars(Syncing(n))
            /\ \A n, p \in Nodes : SF_vars(SyncBegin(n, p))

FairSpec == Spec /\ Fairness

(* With restarts, a node that starts rounds again and again gets through    *)
(* one of them now and then.                                                *)
CrashSpec == /\ Init /\ [][CrashNext]_vars
             /\ Fairness
             /\ \A n \in Nodes : SF_vars(Syncing(n))

-----------------------------------------------------------------------------
TypeOK == /\ slot \in Nat
          /\ chain \in [Nodes -> Seq(Block)]
          /\ keys \in [Nodes -> SUBSET Nodes]
          /\ lastSlot \in [Nodes -> Nat]
          /\ gate \in [Nodes -> {"idle", "go"}]
          /\ pull \in [Nodes -> Pull]
          /\ blocks \in SUBSET Seq(Block)

Signer(c) == ExpectedProducer(HeadSlot(c))

(* An honest validator never signs two blocks of the same height, whatever  *)
(* forks it leaves and joins: SLASH_DOUBLE_SIGN (state/value.rs) punishes   *)
(* exactly that pair.                                                       *)
NoDoubleSign == \A b, c \in blocks :
  (Signer(b) = Signer(c) /\ Len(b) = Len(c)) => b = c

(* At most one block is signed per slot network-wide: last_slot survives    *)
(* what the head-slot guard does not, a reorg to a chain whose head is      *)
(* older than the block just produced.                                      *)
OneBlockPerSlot == \A b, c \in blocks : HeadSlot(b) = HeadSlot(c) => b = c

Promise == INSTANCE LongestChain WITH Holders <- Nodes, log <- chain

(* Every node keeps the promise of LongestChain, whatever its three tasks   *)
(* read before an await and apply after it: its chain only grows, and no    *)
(* step undoes a block that finalized_height called final.                  *)
ImplementsLongestChain == Promise!Spec

(* Every chain a node holds consists of blocks that were really signed, in  *)
(* that order: sync and gossip mix no two branches.                         *)
ChainsSigned == \A n \in Nodes : \A h \in 1..Len(chain[n]) :
  SubSeq(chain[n], 1, h) \in blocks

(* The tip gate keeps forks shallow: when every peer answers and there are  *)
(* at most three validators, the shorter of two diverging branches is no    *)
(* longer than one stale permission for each validator but one.  With four  *)
(* it need not be: two pairs that extend a branch each can overtake one     *)
(* another for ever, since the branch that leads has its permissions        *)
(* renewed while the other still holds those of its own last lead.          *)
ForkShallow == Cardinality(Validators) <= 3 =>
  \A n, m \in Nodes : \A h \in 0..Len(chain[n]) :
    (IsCommon(chain[n], chain[m], 0, h) /\ Len(chain[n]) <= Len(chain[m]))
       => Len(chain[n]) - h <= Cardinality(Validators) - 1

(* A node that is behind another on the same branch catches up: gossip may  *)
(* lose every block, sync_with_peer extends the chain.                      *)
BehindCatchesUp == \A n, p \in Nodes :
  Len(chain[n]) < Len(chain[p]) ~> Len(chain[n]) >= Len(chain[p])

(* Equal-height forks are resolved by sync, as p2p.rs promises for a peer   *)
(* at the same height with another tip.                                     *)
TipForkHeals == \A n, p \in Nodes :
  (Len(chain[n]) = Len(chain[p]) /\ chain[n] # chain[p])
     ~> (chain[n] = chain[p] \/ Len(chain[n]) # Len(chain[p]))
=============================================================================
