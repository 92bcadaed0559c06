------------------------------- MODULE Mempool -------------------------------
(***************************************************************************)
(* The pending transactions of one node (rust/src/mempool.rs), with every  *)
(* caller that feeds or prunes them: submit_transaction, the producer's    *)
(* tick, the blocks of peers and the reorganizations that give abandoned   *)
(* transactions back.                                                      *)
(*                                                                         *)
(* A transaction moves one unit between two accounts: what matters here is *)
(* that it executes only with its sender's next nonce, that its handler    *)
(* may fail now and succeed later, and that a failure changes nothing.     *)
(* Its id is its content, so two transactions are the same exactly when    *)
(* they are equal.  A block keeps the state after it, and time counts      *)
(* production slots.                                                       *)
(***************************************************************************)
EXTENDS Integers, Sequences, SequencesExt

CONSTANTS Account, Tx, Funds,
          MaxTxs,      \* MAX_TXS_PER_BLOCK
          MaxPool,     \* MAX_MEMPOOL
          MaxGap,      \* MAX_FUTURE_NONCE_GAP
          TTL,         \* MEMPOOL_TTL_MS, in slots
          MaxNow,      \* bound: the last slot
          MaxReorg     \* bound: how many blocks a reorganization brings

ASSUME MempoolAssumption ==
  /\ Tx \subseteq [from : Account, to : Account, nonce : Nat, time : Nat]
  /\ Funds \in [Account -> Nat]
  /\ {MaxTxs, MaxPool, MaxGap, TTL, MaxNow, MaxReorg} \subseteq Nat

VARIABLES pool,    \* entradas: the pending transactions in order of arrival
          chain,   \* the blocks above genesis
          filled,  \* the slot of the head
          now      \* the clock

vars == <<pool, chain, filled, now>>

Genesis == [nonce |-> [a \in Account |-> 0], balance |-> Funds]

State(c) == IF c = <<>> THEN Genesis ELSE Last(c).after

(* tx_index: the transactions of the chain. *)
TxIndex(c) == UNION {ToSet(c[h].txs) : h \in DOMAIN c}

Init == pool = <<>> /\ chain = <<>> /\ filled = 0 /\ now = 0

-----------------------------------------------------------------------------
(* apply_transaction. *)
Applies(st, tx) == /\ tx.nonce = st.nonce[tx.from] + 1
                   /\ st.balance[tx.from] > 0

Applied(st, tx) ==
  [nonce   |-> [st.nonce EXCEPT ![tx.from] = tx.nonce],
   balance |-> [[st.balance EXCEPT ![tx.from] = @ - 1] EXCEPT ![tx.to] = @ + 1]]

(* simulate, one transaction at a time: the block is refused as a whole by  *)
(* a transaction that repeats one of the chain or does not execute.         *)
Run(sim, tx) == [ok |-> sim.ok /\ tx \notin sim.seen /\ Applies(sim.st, tx),
                 st |-> Applied(sim.st, tx),
                 seen |-> sim.seen \union {tx}]

Simulated(c, txs) ==
  FoldLeft(Run, [ok |-> TRUE, st |-> State(c), seen |-> TxIndex(c)], txs)

ValidBlock(c, txs) == Len(txs) <= MaxTxs /\ Simulated(c, txs).ok

AddBlock(c, txs) == Append(c, [txs |-> txs, after |-> Simulated(c, txs).st])

(* The blocks add_block accepts on c, and the chains it lets grow on c by   *)
(* k blocks: what peers may send.                                           *)
ValidBlocks(c) ==
  LET valid[n \in 0..MaxTxs] ==
        IF n = 0 THEN {<<>>}
        ELSE LET shorter == valid[n - 1]
                 longer == {Append(txs, tx) : txs \in shorter, tx \in Tx}
             IN shorter \union {txs \in longer : ValidBlock(c, txs)}
  IN valid[MaxTxs]

Branches(c, k) ==
  LET grown[n \in 0..k] ==
        IF n = 0 THEN {c}
        ELSE UNION {{AddBlock(b, txs) : txs \in ValidBlocks(b)} : b \in grown[n - 1]}
  IN grown[k]

-----------------------------------------------------------------------------
Consumed(st, tx) == tx.nonce <= st.nonce[tx.from]

Expired(tx) == tx.time < now - TTL

(* retain: the transactions of p that are in K, in their order. *)
Retain(p, K) ==
  FoldLeft(LAMBDA kept, tx : IF tx \in K THEN Append(kept, tx) ELSE kept, <<>>, p)

(* prune. Mutant PruneConsumed: without the age limit. *)
PruneConsumed(p, st) == Retain(p, {tx \in ToSet(p) : ~ Consumed(st, tx)})

Prune(p, st) == Retain(p, {tx \in ToSet(p) : ~ Consumed(st, tx) /\ ~ Expired(tx)})

(* submit_transaction and add on the pool p of a node whose chain is c.     *)
Submitted(p, c, tx) ==
  IF /\ ~ Consumed(State(c), tx)
     /\ tx.nonce <= State(c).nonce[tx.from] + MaxGap
     /\ tx \notin TxIndex(c) \union ToSet(p)
     /\ Len(p) < MaxPool
  THEN Append(p, tx)
  ELSE p

-----------------------------------------------------------------------------
(* The stable sort of select_executable, by nonce and then timestamp: the   *)
(* k-th has k - 1 before it.                                                *)
Before(i, j) ==
  \/ pool[i].nonce < pool[j].nonce
  \/ /\ pool[i].nonce = pool[j].nonce
     /\ \/ pool[i].time < pool[j].time
        \/ pool[i].time = pool[j].time /\ i < j

Rank(j) == Cardinality({i \in DOMAIN pool : Before(i, j)}) + 1

Pendentes == [k \in DOMAIN pool |-> pool[CHOOSE j \in DOMAIN pool : Rank(j) = k]]

(* One attempt of a sweep: a transaction that executes is chosen. Mutant    *)
(* TryStale: on the state of the chain, not on the simulated one.           *)
TryStale(sel, tx) ==
  IF /\ Len(sel.txs) < MaxTxs
     /\ tx \notin ToSet(sel.txs)
     /\ Applies(State(chain), tx)
  THEN [txs |-> Append(sel.txs, tx), st |-> Applied(sel.st, tx)]
  ELSE sel

Try(sel, tx) ==
  IF /\ Len(sel.txs) < MaxTxs
     /\ tx \notin ToSet(sel.txs)
     /\ Applies(sel.st, tx)
  THEN [txs |-> Append(sel.txs, tx), st |-> Applied(sel.st, tx)]
  ELSE sel

(* The sweeps are repeated while they make progress, so at most MaxTxs of   *)
(* them choose anything. Mutant SelectedOnce: a single sweep.               *)
SelectedOnce == FoldLeft(Try, [txs |-> <<>>, st |-> State(chain)], Pendentes)

Selected ==
  LET sweeps[k \in 0..MaxTxs] ==
        IF k = 0 THEN [txs |-> <<>>, st |-> State(chain)]
                 ELSE FoldLeft(Try, sweeps[k - 1], Pendentes)
  IN sweeps[MaxTxs]

(* What select_executable leaves in the pool: the transactions it did not   *)
(* choose go when their nonce is at most the next one expected.             *)
Kept(sel) ==
  Retain(pool, {tx \in ToSet(pool) : \/ tx \in ToSet(sel.txs)
                                     \/ tx.nonce > sel.st.nonce[tx.from] + 1})

-----------------------------------------------------------------------------
Tick == /\ now < MaxNow
        /\ now' = now + 1
        /\ UNCHANGED <<pool, chain, filled>>

(* A transaction reaches the node. Bound: nothing new in the last slot. *)
Submit(tx) == /\ now < MaxNow
              /\ tx.time <= now
              /\ pool' = Submitted(pool, chain, tx)
              /\ UNCHANGED <<chain, filled, now>>

(* tick of the producer, once its slot is free: select, produce, prune. *)
Produce == /\ filled < now
           /\ filled' = now
           /\ UNCHANGED now
           /\ \E sel \in {Selected} :
                /\ chain' = AddBlock(chain, sel.txs)
                /\ pool' = Prune(Kept(sel), State(chain'))

(* produce_block fails, a full disk for one: the selection has pruned. *)
ProduceFails == /\ filled < now
                /\ pool' = Kept(Selected)
                /\ UNCHANGED <<chain, filled, now>>

(* receive_block and the extension of a sync. Mutant ReceiveUnpruned: the   *)
(* pool is not pruned.                                                      *)
ReceiveUnpruned(txs, slot) == /\ chain' = AddBlock(chain, txs)
                              /\ filled' = slot
                              /\ UNCHANGED <<pool, now>>

Receive(txs, slot) == /\ chain' = AddBlock(chain, txs)
                      /\ pool' = Prune(pool, State(chain'))
                      /\ filled' = slot
                      /\ UNCHANGED now

(* The orphans of a reorganization that keeps common blocks: what the       *)
(* abandoned blocks hold and the new chain does not, in chain order.        *)
(* Mutant OrphansNone: they are not handed back.                            *)
OrphansNone(common, new) == <<>>

Orphans(common, new) ==
  LET abandoned == FoldLeft(LAMBDA txs, b : txs \o b.txs, <<>>,
                            SubSeq(chain, common + 1, Len(chain)))
  IN Retain(abandoned, ToSet(abandoned) \ TxIndex(new))

(* Submitting the transactions one after the other. *)
Resubmitted(p, c, txs) == FoldLeft(LAMBDA q, tx : Submitted(q, c, tx), p, txs)

(* A longer branch replaces the blocks above common; the pool is pruned     *)
(* and the orphans are submitted again. Every block has its own slot.       *)
Reorg(common, new, slot) ==
  /\ now < MaxNow
  /\ chain' = new
  /\ pool' = Resubmitted(Prune(pool, State(new)), new, Orphans(common, new))
  /\ filled' = slot
  /\ UNCHANGED now

Reorgs ==
  \E common \in 0..(Len(chain) - 1), k \in 1..MaxReorg :
    /\ common + k > Len(chain)
    /\ \E slot \in (common + k)..now, new \in Branches(SubSeq(chain, 1, common), k) :
         Reorg(common, new, slot)

Next == \/ Tick
        \/ \E tx \in Tx : Submit(tx)
        \/ Produce \/ ProduceFails
        \/ \E txs \in ValidBlocks(chain), slot \in (filled + 1)..now : Receive(txs, slot)
        \/ Reorgs

Spec == Init /\ [][Next]_vars

(* The clock runs and slots are filled: the production loop wakes five      *)
(* times a second, and with one validator every slot is its own. This asks  *)
(* less than WF_vars(Produce), whose steps are enabled in the same states:  *)
(* the block of a peer fills the slot as well.                              *)
FillsSlot == filled < now /\ filled' = now

FairSpec == Spec /\ WF_vars(Tick) /\ WF_filled(FillsSlot)

-----------------------------------------------------------------------------
(* What the pool still holds could run: whichever way the chain last moved  *)
(* (a block of ours, a block of a peer, a reorganization that rewound the   *)
(* nonces), no pending transaction has a nonce its sender already used      *)
(* (prune after every change, mempool.rs rule 1). None is held twice, and   *)
(* there are at most MAX_MEMPOOL of them.                                   *)
PoolUnspent == /\ \A i \in DOMAIN pool : ~ Consumed(State(chain), pool[i])
               /\ IsInjective(pool) /\ Len(pool) <= MaxPool

(* The block select_executable would fill at any moment is one add_block    *)
(* accepts: it repeats nothing of the chain and every transaction executes  *)
(* after the ones before it.                                                *)
SelectionValid == ValidBlock(chain, Selected.txs)

(* The sweeps of select_executable stop only when the block is full or      *)
(* nothing that is left executes, even a transaction that another one, far  *)
(* behind it in the sort, pays for.                                         *)
SelectionExhausts ==
  LET sel == Selected
  IN \/ Len(sel.txs) = MaxTxs
     \/ \A tx \in ToSet(pool) \ ToSet(sel.txs) : ~ Applies(sel.st, tx)

(* The reasons for which a transaction the node knew may be gone: its nonce *)
(* is used, it is too old, the pool is full, its nonce is too far ahead, or *)
(* it was pending and does not execute after the ones that were selected,   *)
(* because one of them has its nonce or because its handler refuses it.     *)
Excused(tx) ==
  LET st == State(chain)'
      sel == Selected.st
  IN \/ Consumed(st, tx) \/ Expired(tx)
     \/ Len(pool') = MaxPool
     \/ tx.nonce > st.nonce[tx.from] + MaxGap
     \/ /\ tx \in ToSet(pool)
        /\ tx.nonce <= sel.nonce[tx.from] + 1 /\ ~ Applies(sel, tx)

(* No legitimate transaction is thrown away: what was pending, or was on a  *)
(* block that a reorganization abandons, is pending or on the chain after   *)
(* any step, unless there is a reason against it (mempool.rs:10-12: a wrong *)
(* prune discards a legitimate transaction).                                *)
NothingLost ==
  [][\A tx \in ToSet(pool) \union TxIndex(chain) :
       tx \in ToSet(pool') \union TxIndex(chain') \/ Excused(tx)]_vars

(* No transaction stays for ever: once nothing new arrives, the pool ends   *)
(* up empty and stays so, because the age limit of prune removes even the   *)
(* ones whose nonce leaves a hole and that never execute.                   *)
PoolDrains == <>[](pool = <<>>)
=============================================================================
