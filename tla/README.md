# EAV7 in TLA+

EAV7 is a Layer-1 chain with delegated proof of stake: a rotation of
validators fills slots with signed blocks, nodes exchange single blocks by
gossip and whole ranges by synchronisation, and every node keeps its chain as a
file of lines with a state that it recomputes or loads from a snapshot. The
core is written in Rust (`src/rust/`). Beside it stands the token sale: vault
contracts, a relayer that turns payments on other chains into grants, and the
website that quotes them. The modules here model that core and the sale, TLC
checks them on small instances, and TLAPS proves almost every safety property
of the passing runs for every instance.

## 1. Inventory of the system

For each part: the state it keeps, its operations, whom it talks to, what is
hard about it, and what makes it correct. `PROJECT.json` lists the same parts
with the status of each.

| Part (source) | State | Operations | Interacts with | Hard behaviour | Correct when |
|---|---|---|---|---|---|
| Consensus rules and fork choice (`blockchain.rs`, `block.rs`) | the blocks, the table `producer_keys`, the validators | `expected_producer`, `add_block`, `finalized_height`, `reorg`, `replace_chain` | everything below | compact blocks that need keys seen before; finality read off the chain; two key tables during a reorg | a chain is only replaced by a longer one, and final blocks stay |
| Production, tip gate, gossip, sync (`producer.rs`, `follow.rs`, `api/chain.rs`, `p2p.rs`) | `last_slot`, the answer of the gate, the downloaded range | producer `tick`, `check_peers`, `receive_block`, `sync_with_peer`, `reorg_from_peer_window` | the shared chain, under a lock that is released across every await; peers over HTTP | stale reads after an await, lost and repeated blocks, restarts | no double signature, no slot filled twice, nodes catch up |
| Chain in memory and on disk (`blockchain.rs`, `snapshot.rs`, boot in `main.rs`) | window of recent blocks, state, anchor `base_state`, block file, snapshot, writer thread | commit, `slide_tail`, `reorg` with its disk writes, `talvez_snapshot`, `forcar_snapshot`, `load_from_snapshot`, `load_from_disk` | block store, snapshot file, a background thread | crashes inside a reorg, a thread that writes an old snapshot, two boots that must agree | memory, state, anchor and disk describe one chain |
| Block store (`blockstore.rs`) | `blocks.jsonl`, the index of offsets, two sidecars | `append` with its repair, `truncate_from`, `reset`, `scan` | the chain | torn writes, a full disk | what was stored is found again, and a boot can always read the file |
| Mempool (`mempool.rs`, `node.rs`) | pending transactions in order of arrival | `add`, `prune`, `select_executable` | submission API, producer, received blocks, reorgs | dependencies between transactions, pruning against nonces that a reorg moves back | blocks are valid, nothing legitimate is lost, the pool drains |
| Transaction execution (`state/mod.rs`) | accounts, nonces | `apply_transaction` and its dispatch | producer, `add_block`, `reorg` | atomic failure | a failed transaction changes nothing |
| Value, staking, slashing (`state/value.rs`) | balances, stakes, unbonding queue, rewards | transfers, stake, unstake, vote, slash, block reward | `block_tick`, the validator set | sums kept in two places, slashing during unbonding, two ways to withdraw | no subtraction goes below zero, votes and delegations are counted and keep their stake, a penalty is taken in full |
| Governance, permissions, multisig (`state/gov.rs`) | proposals with votes, the permission of an account in two forms, one pending change of it, pending operations with their approvals | propose and vote; `permission_update`, `_propose`, `_approve`, `_veto`; `multisig_propose`, `_approve`; maturity and expiry in `block_tick` | validators, all transactions, `block_tick` | what was approved under one permission is applied under another; heights compared in several places; two proposals of one block | a change is authorised for its whole timelock, a veto stops it, no approval outlives its permission, nobody is locked out, a validator remains |
| Bridge (`state/bridge.rs`) | deposits, attestations, withdrawals, limits | attest, mint, withdraw, confirm | committee, relayer | repeated and conflicting attestations | one mint per deposit, backed supply |
| AI network (`state/ai.rs`) | tasks, commitments, attestations, slots | create, commit, reveal, attest, settle | workers, `block_tick` | deadlines racing answers | one settlement per task, escrow conserved |
| Tokens, NFTs, native contracts (`state/token.rs`, `nft.rs`, `contracts.rs`) | per-asset balances and owners | mint, transfer, burn | transactions | little: sequential bookkeeping | conservation per asset |
| Resources (`state/recursos.rs`) | regenerating counters | consume, regenerate, delegate | every transaction | rounding at the limits | usage never exceeds the allowance |
| EAVM (`eavm/*`, `state/eavm_tx.rs`) | contract storage, gas | execute, revert | transactions | nested reverts | a revert restores the host state |
| State root, encoding, signatures (`stateroot.rs`, `canonical.rs`, `signature.rs`, ...) | none | pure functions | everything | canonical form | assumed here |
| HTTP API, rate limits, guards (`node/src/api`, `ratelimit.rs`, `guard.rs`, `gateway.rs`) | token buckets, strikes | admit, refuse | every request | counters at their limit | bounded work per client |
| Vaults and sale relayer (`contracts/SaleVault.sol`, `PublicVault.sol`, `sale/relayer/index.mjs`, `scripts/`, `web-next/src/lib/sale-server.ts`) | the vault's buckets, grants and used payments; one JSON file of intents | quote, `createIntent`, `tick`, `confirm`, `grant`, `release`, `finalizeToLp`, `sweepExcess` | payment chains, the vault, buyers, operators, the website in another process | a whole file rewritten after awaits, lost answers of a mined call, crashes, payments told apart only by their amount | a payment is granted once and to an intent it pays, and the vault can pay what it owes |
| Services around the node (AI worker, score, advisor, contract verification, faucet, CLI, SDK, web) | their own | | the API | a queue of sends in the faucet | outside consensus |

## 2. The modules

```
ChainRules  ->  LongestChain          what a chain's reader is promised
     |              ^
     |              | implements
     +-> Consensus -+                 a network of nodes
Chain        one node's memory, disk, snapshot and boots
BlockStore   the bytes of the block file
Mempool      the pending transactions
Ledger       balances, stakes, votes, rewards and penalties
Permissions  ->  Governance           proposals, permissions, multisig
SaleVaults   ->  Sale                 the vault contracts, and the relayer over them
MC*          the instances TLC runs
*_proofs     the theorems about Consensus, Chain, BlockStore, Mempool, Ledger,
             Governance and Sale, each in a module of its own
Lemmas       what those proofs share: induction in the form of sets, finite sums,
             loops and folds, ranks
```

**ChainRules** holds operators only: rotation, `finalized_height`, the checks
of `add_block` on slot, parent and keys, `common_ancestor`, and `ReorgAdopts`,
the decision of `reorg`. A block is its slot and whether it carries its
producer's keys. The producer needs no field because above
`STRICT_PRODUCER_HEIGHT = 0` only the slot's validator is accepted. The chain up
to a block stands for its hash.

**LongestChain** is the abstract specification: one variable, one action. A
holder's chain is replaced by a longer one that keeps the blocks that
`finalized_height` calls final on the old one.

**Consensus** is the network. Each node has three tasks on one lock-protected
chain. `CheckPeers`, `Produce`, `MissSlot` are the producer loop with its tip
gate: `gate` is the permission obtained before the await. `Receive` is
`POST /blocks`: any block ever signed may arrive at any time, any number of
times, or never. `SyncBegin`, `SyncExtend`, `SyncDiverged`, `SyncReorg`,
`SyncKeep` are the stages of `sync_with_peer`: `pull` holds the photograph of
the height and the downloaded chain, both possibly stale by the time they are
used. `Restart` loses what memory holds and rebuilds the tables from the chain.
`blocks` is a history of everything that was signed.

**Chain** follows a node's memory (`mem`, `start`, `state`, `base`) against its
disk (`disk`, `snap`), with the snapshot thread as a task of its own
(`job`, three steps between which the chain may reorganise), crashes, a crash
inside a reorg, clean stops and the two boots. `ReorgRefused` is the reorg whose
truncation or appends the disk refuses after `split_off` cut the window: memory
ends at the fork, the file anywhere between the two branches, and state, anchor
and snapshot stay those of the old head. From then on the node may sign or store
blocks that follow from no chain; each of them is `Stray`, which a boot finds.
`refused` says that the last refusal is not made good. A state is the sequence of
blocks executed, so an equality of states is an equality of roots.

**BlockStore** goes one level lower: a file is a sequence of cells (a text, a
newline, an unfinished text, zero bytes), so that offsets keep the arithmetic of
the code and a write can stop in the middle: before, inside or after the text, or
before the newline, which is a second write. A failed write is repaired or, since
the code ignores the result of the repair, not. `frayed` is the first height at
which the file may end where the index does not know it: a boot that kept a last
line without its newline, or a repair that failed, frays it, and a cut below mends
it. Up to there the properties hold; section 5 says what happens behind it. That
Chain takes a line to be written whole or not at all rests on a file that has not
frayed.

**Mempool** has the pool with all its callers. Transactions move one unit
between accounts: enough for nonces, for failures that may turn into successes
later, and for one transaction that pays for another.

**Ledger** is the money: one action per transaction of `state/value.rs`, and
`EndBlock` with the reward (`distribute_block_reward`) and the steps of `block_tick`
that move value. A handler that refuses a transaction changes nothing, so the guards
of an action are the conditions under which its handler accepts. The queue of
withdrawals is a set whose entries carry the number of the transaction that made
them; a slash goes through them in that order, which is the order of the code's
list. Of permissions Ledger keeps which accounts have one (`shared`): they cannot
act by their own signature, and `MultisigUnstake` is the withdrawal their signers
make, with the checks of `validar_op` instead of those of `unstake`. Which signers
that takes is Governance's. `eligible` is the validator set of the parent's state;
when it is empty there is no further block.

**Permissions** holds operators only: what a permission is in its first form (a
set of weighted keys with a threshold) and its second (owner, actives with a
scope, witness, recovery key, delay), who reaches a threshold, who authorises a
change, and the rail of `simular_mudanca` against a locked account. A key of
weight w is counted as w votes, so that a sum of weights is a cardinality.

**Governance** follows one account that may be under a permission, its keys, and
the validators, of which that account may be one. Every transaction type of
`gov.rs` about proposals, permissions and multisig is an action, with the
operations that a permission authorises (`validar_op`, `aplicar_op`); operations
whose effect lies in another component are one, `TRANSFER`. `BlockTick` is the
three steps of `block_tick` that belong here. Ids are hashes: any fresh one may
be drawn, because proposals mature in the order of their ids.

**SaleVaults** is the two contracts, told apart by `mode`, with the scripts that
fund, open and finalise them. A call that reverts is not a step. **Sale** puts the
relayer on top: the file of intents `disk`, what the website (`web`), a run of
`tick` (`watcher`) and a run of `confirm` (`manual`) loaded of it, the payments of
the buyers, and as a history which payment was granted to which intent (`credits`).
A run is cut into steps where the code awaits: load, scan, grant, save. The id of a
payment holds the log index that the run names: that of the event for the watcher on
an EVM rail, 0 on TRON, either for a confirmation, which takes what the request says
or 0. A grant may fail before it leaves, be reverted, or be mined with its answer
lost. `createIntent` runs in the relayer's process and is one step;
`createLocalIntent` runs in the website's and is two.

The definitions keep the source's names where they can; the table `map` of
`PROJECT.json` gives the lines of each.

## 3. What the runs check

Passing runs. Of the type invariants, those a proof needs are proved with it (section
4); only Ledger's is checked by a run too, because there it says that no subtraction
goes below zero and that no withdrawal outlives its block.

| Run | Instance | Shows |
|---|---|---|
| `consensus_safety` | 2 nodes, both validators, 7 slots, sync window 1, finality of two validators | `NoDoubleSign`, `OneBlockPerSlot`, `ChainsSigned`, `ForkShallow` (with up to three validators the tip gate keeps the losing branch at one block per validator but one), `ImplementsLongestChain` |
| `consensus_restart` | 2 nodes, 1 validator, 5 slots, restarts, lost probes | `NoDoubleSign` without `last_slot`; `BehindCatchesUp` under fairness |
| `blockstore_recovery` | 2 lines, files of 5, writes that stop anywhere, repairs that fail | `IndexDescribesFile`, `FileReadable`, `BootFindsLog` |
| `chain_recovery` | 2 branches, height 5, window 3, snapshot every 2, 2 crashes, stops or refused reorgs | `MemoryIsDisk`, `StateIsChain`, `AnchorIsPrefix`, `SnapshotFollowsChain` |
| `mempool_pool` | 5 transactions of 2 accounts, pool 3, 4 slots, reorgs of up to 3 blocks | `PoolUnspent`, `SelectionValid`, `SelectionExhausts`, `NothingLost`, `PoolDrains` under fairness |
| `ledger_blocks` | 3 accounts, one of an EVM wallet, any 3 transactions over 4 blocks, permissions, one double signature | `TypeOK`, `VotesCounted`, `DelegationsCounted`, `VotesBacked`, `DelegationsBacked`, `PenaltyInFull` |
| `governance_account` | an account with three keys and either form of permission, another validator, any 4 transactions over 4 blocks | `StartedAuthorised`, `VetoesShort`, `WeightsCurrent`, `NeverLocked`, `NothingOverdue`, `ValidatorsRemain`, `OnlyTimelocked` |
| `sale_relayer` | either vault, an EVM and a TRON rail, 2 intents of 2 possible amounts, created by the relayer or the website, one fault or crash | `CreditedPerIndex`, `GrantsPaid`, `FileTruthful`, `AmountsDistinct`, `Solvent` |

Runs that show a disagreement between the code and what it says of itself; the
`findings` of `PROJECT.json` quote the lines:

| Run | Property | What happens |
|---|---|---|
| `consensus_tipfork` | `TipForkHeals` | two nodes at one height with different tips wait for each other for ever: sync adopts only longer chains, the tip gate lets neither produce |
| `mempool_full` | `NothingLost` | a block that fills up ends the sweeps before they converge, and the next valid transaction of a sender is pruned as invalid |
| `ledger_backing` | `StakeBacks` | an account delegates, comes under a permission and has a signer withdraw all its stake: a multisig `UNSTAKE` asks neither for votes nor for delegations |
| `sale_credit` | `CreditedOnce` | a payment is confirmed by hand under log index 0 and granted again by the watcher under the index of its event, here to a later intent of the same amount |

### Bounds

Two nodes suffice for every pair of tasks to interleave, and seven slots of a
two-validator rotation let each sign three blocks, so that a fork, its
resolution and a second fork fit; a sync window of one block forces the fall back
from the window to the whole chain. `FinalityMin` is 2, so that `finalized_height`
is in force with two validators, whose quorum is both; honest validators that only
move to longer chains never meet a branch that undoes a final block, so that what
decides in this instance is the length of a chain, and the part of
`ImplementsLongestChain` about final blocks is carried by the theorem. In
`chain_recovery` the window slides twice before the height bound and both a snapshot
older and one younger than the window occur; two faults give a boot from the
leftovers of a boot, a crash after a refused reorg, and a reorg that makes a refused
one good. In `blockstore_recovery` five lines are enough for a boot that keeps an
unterminated line, an append behind it, a second crash and a truncation that mends
the file. In
`mempool_pool` blocks hold as many transactions as the pool, so the known
limitation that `mempool_full` shows is kept apart; a third slot lets
transactions expire. In `ledger_blocks` three transactions are what the longest
hazards need (vote, vote again, claim; delegate, withdraw, be slashed; delegate, come
under a permission, withdraw by multisig) and four
blocks let a withdrawal mature. `REWARD_SCALE` is 10 instead of 10^18, so that
every division leaves a remainder with votes of 1 to 4, and a penalty is 60%
so that stakes of 3 and 4 lose whole units; the arithmetic is that of the code. A
slash after a multisig withdrawal of delegated stake would need a fourth transaction;
`DelegationsStayBacked` covers it.

In `governance_account` all delays and windows are one block, so that four blocks
hold a proposal, its queue and its maturity, or a change, its timelock and a
second change under the first one's result; four transactions are what the longest
hazards need (propose and approve a change, propose and approve an operation
around it). The four changes cover a new owner (by active and recovery), the
removal and the addition of an active, and another delay; the four proposals
cover both parameters that choose the validators, the committee and a spend of
the treasury.

In `sale_relayer` two intents are a watcher's work and what is created under it; two
amounts make a reuse possible and a collision avoidable. The allocation is 3 and the
tiers give 2 and 1, so that a second grant fits exactly or is refused.
`sale_relayer` has one rail of each scanned kind: EVM logs list the oldest match
first, the TRON service the newest. `LogIndex` is 1, the index of an event that is
not the first of its block; when it is 0 the two ids of a payment are one.
`sale_credit` has the EVM rail only. Amounts are symmetric. One operator works at a
time.

`CHECK_DEADLOCK FALSE` is set where a bound ends the behaviours: at the last
slot, at the greatest height with no crash left, when the clock of the pool
stops, at the last block of the ledger and of governance, and in the sale when
everything is granted and finalised and the fault bound is used up. The chain and the
block store also stop for good where the code does: a boot that finds more stray blocks
than it may discard, or a line it cannot read, aborts.

### Fairness

* The clock runs and the three loops of a node are never abandoned: `WF` of
  `NextSlot`, `Producing(n)`, `Syncing(n)`. They are tokio tasks that loop with
  a sleep and catch their errors.
* `SF` of `SyncBegin(n, p)`: `sync_once` visits every peer in every round, so a
  peer that is ahead again and again is pulled from eventually. With restarts,
  `SF` of `Syncing(n)`: a node that begins rounds again and again finishes one.
  Nothing is assumed of gossip: blocks may be lost for ever.
* The pool: the clock runs and slots are filled (`WF` of `Tick` and `FillsSlot`).
  This is weaker than asking that the node itself produces.
* Chain, block store, ledger, governance and sale have none. Of the relayer in
  particular nothing is fair: an error of `loadState` or `saveState` in a tick is not
  caught (`index.mjs:355`, `383`, `520`) and ends the process, and `tx.wait()` (340)
  has no timeout.

## 4. What is proved

Thirty-seven theorems in seven modules. Each holds for every value of the constants
that the assumption of its module admits: sets of nodes, accounts, keys, transactions
and intents of any size, and every bound, window, delay, rate and scale. The
properties are the ones the runs of section 3 check; the inductive invariants were
checked by TLC on the same instances before they were proved.

The provers cannot instantiate the library's induction theorems. `Lemmas` therefore
states induction over sets: a set of naturals that has 0 and successors has all of
them (`SetInduction`, from well-foundedness of the naturals), a loop of n steps has
a run and what holds along it holds at its end (`LoopDefined`, `LoopInduction`), a
fold over positions likewise (`FoldDefined`), sums over finite sets add and change
by elements (`SumAdd` and others), ranks in a strict order are a permutation
(`RanksAreNumbers`), and a finite set has a greatest element (`Greatest`). With
these, what the recursive functions and folds of Mempool, Ledger and Governance
compute is proved for all inputs, not for bounded ones.

### Consensus_proofs

Assumptions `ScheduleAssumption` and `BoundsAssumption`: the rotation is a non-empty
sequence of nodes, the numbers are naturals.

* `TypeCorrect`: `Spec => []TypeOK`.
* `NeverDoubleSigns`: `Spec => []NoDoubleSign`.
* `SlotsFilledOnce`: `Spec => []OneBlockPerSlot`.
* `Refinement`: `Spec => ImplementsLongestChain`.
* `BlocksWereSigned`: `Spec \/ CrashSpec => []ChainsSigned`.
* `ForksStayShallow`: `Spec => []ForkShallow`, assuming finitely many nodes and that a
  probe round is answered by every peer (`MinReach >= Cardinality(Nodes) - 1`).

`NoDoubleSign` is not inductive: nothing in it says that a new block differs in
height from the old ones. Two facts are added. `SignedBelow`: a validator's own chain
is at least as long as every block it ever signed, which holds because no step of a
node, reorgs included, shortens its chain; the next block is therefore higher than all
earlier ones. `SlotMarked`: every block has a slot that is not in the future, and a
block of the current slot is recorded in its signer's `lastSlot`; the guard
`slot # lastSlot[n]` then makes the slot of a new block fresh, since only the slot's
validator signs in it. The inductive invariant is
`TypeOK /\ SignedBelow /\ SlotMarked /\ NoDoubleSign /\ OneBlockPerSlot`. One lemma per
action shows that it keeps the types and either leaves the chains alone or replaces one
by a longer chain that agrees with it up to the final height (`Replaces`); the
invariant and the refinement both rest on these. The initial states map to initial
states and every step maps to `Grow` or a stutter under the mapping `log <- chain`.
`TypeCorrect`, `NeverDoubleSigns`, `SlotsFilledOnce` and `Refinement` are about `Spec`,
the network without restarts. A restart forgets
`lastSlot`, and may shorten a chain, so that they do not carry over to `CrashSpec`;
see the observations below.

`ChainsSigned` does carry over. Its strengthening `SignedInv` asks of the history of
blocks, of every chain, and of every range a sync has downloaded, that each prefix was
signed: a stale download that is applied to a chain that moved meanwhile mixes nothing,
because it is compared with the chain by its blocks and adopted as a whole.

`ForkShallow` is not a matter of the present state: a permission of the gate may be
used long after the round of probes that gave it, when the chains it looked at are gone.
The invariant `PastInv` therefore speaks of a history that need only exist (a history
variable that is quantified, so that the model stays as it is). It puts the signings in
an order and dates, for every block, the moment its signer passed the gate. What the
gate guarantees is a fact about that moment (`TopAt`): the signer then held the single
highest block signed so far. What the lock around the signing guarantees is that a
signer passes the gate for a block after it signed all its lower ones. From there the
argument is about blocks only: whatever was signed before a block's gate is lower than
the block, and if it is only one lower it is its parent (`GateSawLower`). Two rival
blocks of one height have two signers (`RivalSigners`, from `NoDoubleSign`), and two
branches cannot climb together through two heights with two validators, nor through
three with three (`TwoHeights`, `ThreeHeights`): on one of them somebody would have had
to pass the gate with a rival of its own block in sight. The hypothesis on probes is
needed: with lost probes the gate lets a node produce on whatever answers it, and no
bound on forks holds. The code lets a peer that does not answer pass, so the theorem is
about a network whose peers reach one another. `PastInv` was checked by TLC with the
history as variables before it was proved.

### Chain_proofs

Assumption `ChainAssumption`: window and interval are positive.

* `MemoryAgreesWithDisk`, `StateAgreesWithChain`, `AnchorAgreesWithChain`:
  `Spec => []MemoryIsDisk`, `[]StateIsChain`, `[]AnchorIsPrefix`.
* `WriterFollowsChain`: `Spec => []SnapshotFollowsChain`.
* `DiskKeepsSettledBlocks`: `Spec => [][BelowWindowKept]_vars`.

The first three hold together (`NodeInv`). What has to be added is about the files a
boot will find: a snapshot taken before the window moved has an empty anchor. Nothing
more is needed of a snapshot, because `load_from_snapshot` compares it with the block
file before it uses it; the proof shows that the comparison is enough whatever the
crash left behind. A refused reorg suspends `MemoryIsDisk` and `StateIsChain` until a
later reorg forks where the file still has the chain of the window, or the node boots.
The anchor stays right all the while (`AnchorIsPrefix` has no exception), which is what
lets that later reorg make the node sound: it rebuilds the state from the anchor, and
the roots of the new blocks are checked against it. `SnapshotFollowsChain` needs
`SnapInv`: a writer whose epoch is current holds a snapshot of the chain, and so does the
disk, unless the writer stands before its second look at the epoch and will find it
passed.

`BelowWindowKept` is an action property that no run lists; it is defined with its proof.
No step of a running node takes a block below the window from the disk, not even a crash
or a refusal after any number of the writes of a reorg; a boot keeps all blocks up to
the first that does not follow from the one below; and the file of a running process
gets shorter only in a refused reorg or in the one that makes it good. It is tight: a
reorg may replace the block just above the window's start.

### BlockStore_proofs

* `IndexFollowsFile`, `BootReads`: `Spec => []IndexDescribesFile`, `[]FileReadable`.
* `BootKeepsLines`: `Spec => BootFindsLog`.

None has a hypothesis: writes stop anywhere, and repairs may fail. The inductive
invariant `StoreInv` says what the file holds. It begins with the firm lines, those
below a frayed end, each with its newline, and the index has their offsets. Without a
frayed end a running process has nothing else in the file, and a process that died one
more line, whole or not. Behind a frayed end there may be anything in which a newline
follows a text; that is enough for a scan that does not fail to find the firm lines
first and then at most one that is torn.

### Mempool_proofs

Assumption `MempoolAssumption`: transactions have senders, receivers, nonces and times;
the bounds are naturals. No relation between the sizes of blocks and pool is assumed.

* `PoolStaysUnspent`: `Spec => []PoolUnspent`.
* `SelectionIsAccepted`: `Spec => []SelectionValid`.
* `SelectionIsExhaustive`: `Spec => []SelectionExhausts`.
* `OnlyFullBlocksLose`: every step but the production of a block that is full while more
  is pending spares what it may not lose (`SparesTx`).
* `NothingLostUntilFull`: `Spec /\ []~FullBlock => NothingLost`.

The invariant `PoolInv` adds to `PoolUnspent` a fact about the chain: every transaction of
a block is consumed in the state after it and in all later ones. Hence a transaction that
is not consumed is in no block, and what executes on the state of the chain repeats
nothing in its index, which is what `add_block` refuses. A reorg moves nonces back; the
pool is pruned against the state it moves to, and the orphans are looked at there.
Exhaustion is a counting argument: each sweep chooses a transaction or shows that none of
the pending ones can be chosen, so after as many sweeps as a block has places it is full
or converged.

`NothingLost` is false in general, as `mempool_full` shows; with `MAX_MEMPOOL` ten times
`MAX_TXS_PER_BLOCK` the code can meet the case. The theorems say that this is the only
one. `OnlyFullBlocksLose` goes through every action: `retain` keeps what it is told to,
`prune` drops only what is used or too old, the sweeps leave out only what does not
execute, a reorg keeps the common blocks, finds every transaction of the abandoned ones
in the new chain or among the orphans, and each resubmission has a reason or puts it in
the pool. A block that is full with the whole pool loses nothing: a selection never
repeats a transaction, so as many as are pending are all of them (`WholePool`).

### Ledger_proofs

Assumption `LedgerAssumption`: finitely many accounts with an order, natural amounts,
percentages up to 100, positive scale and delays.

* `AmountsStayNatural`, `VotesAreCounted`, `DelegationsAreCounted`: `Spec => []TypeOK`,
  `[]VotesCounted`, `[]DelegationsCounted`.
* `VotesStayBacked`, `DelegationsStayBacked`: `Spec => VotesBacked`, `DelegationsBacked`.
* `PenaltyTakenInFull`: `Spec => PenaltyInFull`.

The invariants are one (`LedgerInv`), because each subtraction of a handler is
safe by the sums of another part: what a vote takes back was counted, what is undelegated
is part of the total, a voter's debt is below the accumulator (`Settled`). Ids that are
not used twice keep the entries of the queue and the grants apart. The penalty is taken
from the stake and then from the withdrawals in order; `Greedy` shows of any such order
that it takes what is asked, or all there is.

Backing is stated of steps, because as a statement about states it is false
(`ledger_backing`): an account that held its votes, or its delegations, is left without
their stake only by a multisig withdrawal or, for votes, a slash. For delegations the
step says more: a slash leaves its victim with no more delegated than staked even when a
multisig withdrawal had left it with less. That rests on the sums: what is revoked in the
order of the addresses adds up to the whole excess.

### Governance_proofs

Assumption `GovAssumption`: keys and accounts are finite, the numbers are naturals, what
is installed or proposed has passed `normalizar_nivel` and `normalizar_permissao_v2`
(the keys of each level can reach its threshold), and the chain begins with an account
that may validate, as the genesis gives its validators ten times the minimum stake
(`config.rs:34`, `config.rs:63`).

* `TimelockAuthorised`: `Spec => []StartedAuthorised`.
* `VetoStops`: `Spec => []VetoesShort`.
* `WeightsAreCurrent`: `Spec => []WeightsCurrent`.
* `AccountUsable`: `Spec => []NeverLocked`.
* `ChangesTimelocked`: `Spec => OnlyTimelocked`.
* `SomeValidatorRemains`: `Spec => []ValidatorsRemain`.
* `TickLeavesNothingDue`: `Spec => []NothingOverdue`.

The first five hold only together. A pending change and the weights of pending
operations are judged by the permission in force, so every step that changes the
permission has to leave neither behind: a matured change removes itself and clears the
operations, and the multisig operation that installs a permission exists for the first
form only, where no change can be pending. That is the strengthening: `PendUnderV2` (a
change is pending only under the second form), `NoChangeUnderV2` (no pending operation
changes a permission of the second form) and the types of the three pieces of state.
`NeverLocked` then follows because a change installs levels that were normalised, and
`simular_mudanca` is looked at again when it matures. One lemma per kind of step says
what it does to permission, change and operations (`OpEffect`, `TickEffect`); lemmas on
finite sums (`SomaPeso`, `MaisAssinaturas`) say that another signature adds exactly its
weight and that authorisation is monotone in the signers.

The tick walks the proposals in the order of their ids, each judged by the parameters
that the ones before it left. `GovInv` adds the types of the proposals and that each is
within its window; along the walk, by induction on the ids passed, a validator remains
after each proposal and every one that was due is gone. `DueInv` adds that operations and
the pending change are not overdue.

### Sale_proofs

Assumptions `SaleAssumption` and `VaultAssumption`: a non-empty ladder of tiers, finitely
many buyers, natural amounts.

* `OnlyPaidIsGranted`, `FileTellsTheTruth`, `OpenAmountsDiffer`: `Spec => []GrantsPaid`,
  `[]FileTruthful`, `[]AmountsDistinct`.
* `CreditedOncePerId`: `Spec => []CreditedPerIndex`, for any log index. `CreditedOnce`
  is false (`sale_credit`).
* `VaultSolvent`: `Spec => []Solvent`.

Copies of the file live in the website, in a run of the watcher and in a manual
confirmation, and each may be written back over the others. `SaleInv` therefore asks the
same of every copy: it calls granted only what was granted, and no two of its open
intents have one amount. Quotes and credits only grow, so a copy that was right stays
right however old it is; that is why an overwritten file loses intents (section 5) and
never lies about them. `VaultInv` is the account of every unit the vault was funded
with: there, swept, released or in the escrow.

### Left to TLC

* `BehindCatchesUp`, `PoolDrains`: liveness under fairness is outside
  what the prover does.
* `TipForkHeals`, `StakeBacks`, `CreditedOnce` and, without the hypothesis of
  `NothingLostUntilFull`, `NothingLost` are false; the runs of section 3 show how.

## 5. Observations beside the runs

Met while modelling, and not given a run:

* `reorg` validates the new tail on a candidate chain whose `producer_keys` start
  empty, and its commit (`blockchain.rs:2548`) takes state and indexes of the
  candidate but not its keys: blocks that carried keys are adopted and the keys are
  lost, until a restart. `blockchain.rs:1714-1717` says of compact blocks that
  the sync "precisa das chaves já vistas", or the node stays mute in front of its
  peers.
* `append` writes the text of a line and its newline separately
  (`blockstore.rs:577-578`), and `scan` takes a last line without newline that parses
  for a whole one (515-518). A crash between the two, a boot and an append leave two
  blocks on one line, which the boot after the next crash takes for corruption in the
  middle and aborts. The module comment (`blockstore.rs:18-25`) calls a crash in the
  middle of an append recoverable. The first boot loses nothing; a `truncate_from` at
  or below that line mends the file.
* A failed append ignores the result of its repair (`blockstore.rs:591`), and the
  comment (30-32) says that index and file never diverge. When both fail, a later
  append that succeeds stands behind the torn bytes, at an offset the index does not
  have, and the torn bytes are not the end of the file, where a boot would cut them.
* `reorg` splits the old tail off memory (`blockchain.rs:2513`) before it asks the
  disk; `blockchain.rs:2524-2530` says that a reorg the disk refuses is refused
  whole and that memory stays on the old chain. After such a refusal the window is
  cut at the fork while the state is that of the old head: `MemoryIsDisk` and
  `StateIsChain` are false there, and hold again from the next boot, or from a reorg
  that forks where the file still has the chain. Meanwhile the node refuses the blocks
  of its peers, whose roots do not fit its state, and what it produces fits no chain;
  if more than one such block reaches the file, the next boot aborts
  (`blockchain.rs:1615`).
* Only the replaying boot writes `hashes.bin` anew (`blockchain.rs:1642`). After a
  crash between a line and its record, a boot from a snapshot indexes the line and
  the next append adds its record one place too early; `hash_at` is wrong for
  every later height that has left the window. A failed write of the record removes
  both sidecars, and the next append starts them again at height 0.
* The double credit of `sale_credit` needs no second intent: when the grant of a
  confirmation is mined and the file it should be saved in is not (a crash, or an
  older copy written over it), the watcher finds the intent pending and grants it
  under the other id.
* A run of the relayer holds the file it loaded across its awaits and writes it back
  whole (`index.mjs:383`, `501-504`), so that an intent created meanwhile disappears
  and its payment is never granted. `createLocalIntent` does the same from the
  website's process.
* A grant that fails leaves its intent `paid` in memory (`index.mjs:345`); if another
  grant of the same tick succeeds, that is saved, and no tick looks at it again.
* The ladder of prices counts settled intents of the file, so a lost update also
  takes a tier back (`index.mjs:74`).
* `PERMISSION_PROPOSE` by any one key replaces a pending change whose timelock runs
  (`gov.rs:1848`); `docs/permissoes-v2.md:140` says of a thief with one owner key:
  "Não age, não veta, não bloqueia recuperação".
* Removing the active at position 0 makes the next one primary, although it may
  have a narrow scope; `gov.rs:911-914` says that such a one should not authorise a
  change of owner.
* The comment of `block_tick` (`blockchain.rs:280-287`) says the order of its steps is
  consensus and observable. Of the three steps Governance has, each reads and writes
  parts of its own, so that nothing in the model depends on it; a parameter that
  matures may matter to a step that is not in it.
* A proposal is tallied when a vote arrives. When the validator set shrinks
  afterwards its votes may suffice, and it still expires (`gov.rs:2720`).
* The keys that a reorg loses or keeps also reach the disk: a producer omits its
  keys because a branch it left had published them (`blockchain.rs:1501`), and
  the chain it builds then cannot be replayed. With two validators a restart
  that discards such a block lets its producer sign that height again:
  `NoDoubleSign` holds with restarts only where every chain replays, which is
  why `consensus_restart` has one validator.
* `finalized_height` is recomputed from the chain a node holds now
  (`blockchain.rs:2395`) and remembers nothing. A reorg above the final height can
  adopt a chain on which that height is not final any more, because other
  validators produced the tail, and a second reorg can then undo it, although
  `docs/whitepaper.en.md:157` says that such reorganizations are rejected. What
  holds, and is checked and proved, is that each single reorg keeps what is final
  on the chain it replaces.
* The dust of a block's reward is `share - floor(inc * votes / SCALE)`
  (`blockchain.rs:261`): it is rounded up in the producer's favour, while the
  accumulator keeps the fraction for the voters. With a share of 1 and 3 votes two
  blocks pay 2 in dust and later 1 in claims, 3 for 2 minted. The comment above the
  function (`blockchain.rs:227-229`) says that the dust keeps the total. No property
  about the supply is stated.
* `slash_double_sign` takes no fee from the reporter, and the epilogue of
  `apply_transaction` (`state/mod.rs:674-678`) counts it as burned all the same.
* After a multisig withdrawal an account may have more delegated than staked, and
  what computes its resources subtracts one from the other (`state/mod.rs:196`,
  `state/recursos.rs:45`): one refuses, the other goes negative.
* With four validators the tip gate does not bound a fork: two pairs that extend a
  branch each can overtake one another again and again, because the branch that leads
  has its permissions renewed (`follow.rs:80`) while the other still holds those of its
  own last lead. TLC finds it within eight slots; `ForkShallow` is therefore stated
  for at most three validators.
* A slash lowers a stake below the votes it backs, and may leave no validator at
  all: the guard of `unstake` that keeps a validator is about withdrawals only.
* `slash_double_sign` verifies its two blocks without known keys
  (`block.rs:409`), so compact blocks are refused as evidence.
* The window guard of `reorg` admits a fork at `tail_start - 1`, for which the
  anchor exists, but `get_block` does not serve the fork block
  (`blockchain.rs:2497`).

## 6. Not modelled, and the plan

Abstracted: bytes, hashes and signatures (a hash is what it commits to, a
signature cannot be forged); transactions in Consensus and Chain; the order of
the peer list in `check_peers` (the model takes the order that lets most rounds
through); query indexes (addresses, receipts, logs); peer discovery, response
caps and address guards of `p2p.rs`; the validator set, which is fixed. In the
sale: every intent is of one unit of money, amounts are drawn from a small set
instead of being computed from decimals and a random suffix, and the dry run, the
Merkle claims and the administrator's changes are left out. In the ledger: what an
account under a permission may do by multisig besides withdrawing its stake, and the
signers it takes. In Chain: a snapshot whose own head is a block signed on the state
of a refused reorg.

Not modelled: the parts that section 1 lists and the diagram of section 2 does
not. Most of the repository's TypeScript is of that kind: more than half of its
lines are generated message catalogues (`web-next/src/i18n`), and the rest is
pages, charts and typed calls to the node, which keep no state that another part
relies on. The protocol is in the Rust crates, and that is where the modules are;
of the TypeScript and JavaScript, the relayer, the sale scripts and the sale server
of the website hold state and are modelled.

Next, in this order:

1. **Bridge** and **AI network**: attestation quorums, one mint per deposit,
   one settlement per task, escrow; deadlines racing answers.
2. **Validator changes** in Consensus: the rotation read from the
   ledger of the parent block.
3. The faucet, whose queue serialises sends and whose table of last requests is
   written before or after them; rate limits; sidecars in BlockStore.
4. Proofs: a refinement of Chain by an abstract log of blocks, and of Chain's disk by
   BlockStore; a bound on forks when some probes are lost but a majority answers.
