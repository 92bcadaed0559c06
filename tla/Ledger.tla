------------------------------- MODULE Ledger -------------------------------
(***************************************************************************)
(* The money of the chain (rust/src/state/value.rs with the block hooks of *)
(* blockchain.rs): balances, stakes, the unbonding queue, votes and their  *)
(* rewards, delegated resources, vesting and slashing.                     *)
(*                                                                         *)
(* The transactions of a block are applied one by one; EndBlock pays the   *)
(* producer and runs block_tick.  A transaction whose handler refuses it   *)
(* changes nothing, so only accepted ones are steps.  Every transaction    *)
(* pays the same Fee (apurar_taxa).  Absent entries of the code's maps are *)
(* zeros.  Accounts are numbered in the order of their addresses, and are  *)
(* fewer than MAX_VALIDATORS and MAX_VOTE_TARGETS.  The heights are those  *)
(* after the forks.  Of what an account under a permission may have its    *)
(* signers do (gov.rs), the withdrawal is here, whose checks are not those *)
(* of UNSTAKE; which signers it takes, and the rest, is not.  Governance,  *)
(* which may change the parameters, is not part of this.                   *)
(***************************************************************************)
EXTENDS Integers, FiniteSets, Functions

CONSTANTS Account,
          Evm,            \* eavm_managed: staked from an EVM wallet, cannot sign blocks
          Funds, Stakes,  \* what the accounts hold to begin with
          Amounts,        \* the amounts transactions name
          Percents,       \* the commissions they name
          Terms,          \* the vesting schedules they name
          Offences,       \* who signed twice at which height
          Fee, Reward, TreasuryPct, DefaultCommission,
          MinStake,       \* MIN_VALIDATOR_STAKE
          Scale,          \* REWARD_SCALE
          SlashPct, ReporterPct,
          Unbonding, MaxUnbonding, CommissionDelay,
          MaxTxs,         \* bound: how many transactions there are
          MaxHeight       \* bound: the last block

ASSUME LedgerAssumption ==
  /\ Account \subseteq Nat /\ IsFiniteSet(Account) /\ Evm \subseteq Account
  /\ Funds \in [Account -> Nat] /\ Stakes \in [Account -> Nat]
  /\ Amounts \subseteq Nat \ {0} /\ Percents \subseteq 0..100
  /\ Terms \subseteq [cliff : Nat, duration : Nat \ {0}]
  /\ Offences \subseteq Account \X Nat
  /\ {TreasuryPct, DefaultCommission, SlashPct, ReporterPct} \subseteq 0..100
  /\ {Fee, Reward, MaxTxs, MaxHeight} \subseteq Nat
  /\ {MinStake, Scale, Unbonding, MaxUnbonding, CommissionDelay} \subseteq Nat \ {0}

VARIABLES balance, staked,
          unbonding,      \* the queue of withdrawals, in the order of their ids
          votes,          \* votes[a][c]: what a allots to the candidate c
          candidateVotes, \* candidate_votes: the sum of what c was allotted
          acc,            \* reward_acc_per_vote
          debt,           \* voter_reward_debt
          commission, pending,
          delegations, delegatedOut, delegatedIn,
          vesting,
          slashed,        \* the offences that were punished
          shared,         \* the accounts with an entry in permissions
          minted, burned, treasury,
          height,         \* the block that is being executed
          eligible,       \* who may produce it, by the state of its parent
          txs             \* how many transactions there were

accounts == <<balance, staked>>
voting == <<votes, candidateVotes, debt>>
rewards == <<acc, commission, minted, treasury>>
delegating == <<delegations, delegatedOut, delegatedIn>>
block == <<height, eligible>>

vars == <<accounts, voting, rewards, delegating, block, unbonding, pending,
          vesting, slashed, shared, burned, txs>>

Least(x, y) == IF x <= y THEN x ELSE y
Excess(x, y) == IF x > y THEN x - y ELSE 0
Zero == [a \in Account |-> 0]
None == [pct |-> 0, at |-> 0]

(* What the withdrawals of a queue are worth. *)
Value(q) == SumFunction([e \in q |-> e.value])

(* validators: who may produce. An EVM account has no key to sign with. *)
Validators(st) == {a \in Account \ Evm : st[a] >= MinStake}

Init == /\ balance = Funds /\ staked = Stakes
        /\ unbonding = {}
        /\ votes = [a \in Account |-> Zero] /\ candidateVotes = Zero
        /\ acc = Zero /\ debt = [a \in Account |-> Zero]
        /\ commission = [a \in Account |-> DefaultCommission]
        /\ pending = [a \in Account |-> None]
        /\ delegations = [a \in Account |-> Zero]
        /\ delegatedOut = Zero /\ delegatedIn = Zero
        /\ vesting = {} /\ slashed = {} /\ shared = {}
        /\ minted = 0 /\ burned = 0 /\ treasury = 0
        /\ height = 1 /\ eligible = Validators(Stakes) /\ txs = 0

-----------------------------------------------------------------------------
(* There is a block for one more transaction. *)
Open == eligible # {} /\ txs < MaxTxs

(* The frame of apply_transaction: an account under a permission is refused, *)
(* and the epilogue burns the fee the handler took from the sender.         *)
Paid(a, cost) == /\ Open
                 /\ a \notin shared
                 /\ balance[a] >= cost + Fee
                 /\ txs' = txs + 1
                 /\ burned' = burned + Fee
                 /\ UNCHANGED <<rewards, block, slashed>>

Apply(a, cost) == Paid(a, cost) /\ UNCHANGED shared

Pay(a, cost) == [balance EXCEPT ![a] = @ - cost - Fee]

Transfer(a, b, v) ==
  /\ Apply(a, v)
  /\ balance' = [Pay(a, v) EXCEPT ![b] = @ + v]
  /\ UNCHANGED <<staked, unbonding, voting, pending, delegating, vesting>>

Stake(a, v) ==
  /\ Apply(a, v)
  /\ balance' = Pay(a, v)
  /\ staked' = [staked EXCEPT ![a] = @ + v]
  /\ UNCHANGED <<unbonding, voting, pending, delegating, vesting>>

VotadoTotal(a) == SumFunction(votes[a])

(* Mutants of Lastro: votes, or delegations, need no stake. *)
LastroDelegado(a, rest) == rest >= delegatedOut[a]

LastroVotado(a, rest) == rest >= VotadoTotal(a)

(* What is left must back the votes and the delegated resources. *)
Lastro(a, rest) == rest >= VotadoTotal(a) /\ rest >= delegatedOut[a]

HaValidador(a, rest) == Validators([staked EXCEPT ![a] = rest]) # {}

(* What both ways to withdraw v from a do. The id of a withdrawal is that of *)
(* the transaction that asked for it.                                       *)
Withdraw(a, v) ==
  LET rest == staked[a] - v IN
  /\ rest >= 0 /\ HaValidador(a, rest)
  /\ Cardinality({e \in unbonding : e.owner = a}) < MaxUnbonding
  /\ staked' = [staked EXCEPT ![a] = rest]
  /\ unbonding' = unbonding \union
       {[id |-> txs, owner |-> a, value |-> v, at |-> height + Unbonding]}
  /\ UNCHANGED <<voting, pending, delegating, vesting>>

Unstake(a, v) == /\ Apply(a, 0)
                 /\ balance' = Pay(a, 0)
                 /\ Lastro(a, staked[a] - v)
                 /\ Withdraw(a, v)

-----------------------------------------------------------------------------
(* permission_update: from here on a acts through its signers alone. It may *)
(* have stake, votes and delegations.                                       *)
PermissionUpdate(a) ==
  /\ Paid(a, 0)
  /\ balance' = Pay(a, 0)
  /\ shared' = shared \union {a}
  /\ UNCHANGED <<staked, unbonding, voting, pending, delegating, vesting>>

(* multisig_propose or multisig_approve of the signer k that completes the  *)
(* threshold of a: validar_op and aplicar_op. The signer pays the fee. An   *)
(* UNSTAKE is not asked what it leaves to back.                             *)
MultisigUnstake(k, a, v) == /\ Apply(k, 0)
                            /\ a \in shared
                            /\ balance' = Pay(k, 0)
                            /\ Withdraw(a, v)

(* PERMISSION_CHANGE to null: a acts by its own signature again. *)
MultisigRelease(k, a) ==
  /\ Paid(k, 0)
  /\ a \in shared
  /\ balance' = Pay(k, 0)
  /\ shared' = shared \ {a}
  /\ UNCHANGED <<staked, unbonding, voting, pending, delegating, vesting>>

-----------------------------------------------------------------------------
(* liquidar_recompensa: what c's accumulator owes a since its last visit. *)
Pendente(a, c) == (votes[a][c] * (acc[c] - debt[a][c])) \div Scale

(* The debts after a vote: everything it touches is settled. *)
Debito(a, alloc) ==
  [c \in Account |-> IF votes[a][c] > 0 \/ alloc[c] > 0 THEN acc[c] ELSE debt[a][c]]

(* Mutant of Contados: the earlier allotment is not taken back. *)
ContadosDeNovo(a, alloc) == [c \in Account |-> candidateVotes[c] + alloc[c]]

Contados(a, alloc) == [c \in Account |-> candidateVotes[c] - votes[a][c] + alloc[c]]

(* vote and aplicar_voto: the whole allotment is replaced. *)
Vote(a, alloc) ==
  /\ Apply(a, 0)
  /\ alloc # Zero /\ alloc[a] = 0
  /\ \A c \in Account : alloc[c] > 0 => staked[c] >= MinStake
  /\ SumFunction(alloc) <= staked[a]
  /\ balance' = [Pay(a, 0) EXCEPT ![a] =
                   @ + SumFunction([c \in Account |-> Pendente(a, c)])]
  /\ debt' = [debt EXCEPT ![a] = Debito(a, alloc)]
  /\ candidateVotes' = Contados(a, alloc)
  /\ votes' = [votes EXCEPT ![a] = alloc]
  /\ UNCHANGED <<staked, unbonding, pending, delegating, vesting>>

ClaimVoterReward(a, c) ==
  /\ Apply(a, 0)
  /\ votes[a][c] > 0
  /\ balance' = [Pay(a, 0) EXCEPT ![a] = @ + Pendente(a, c)]
  /\ debt' = [debt EXCEPT ![a][c] = acc[c]]
  /\ UNCHANGED <<staked, unbonding, votes, candidateVotes, pending, delegating, vesting>>

(* set_commission is announced, and replaces an earlier announcement. *)
SetCommission(a, pct) ==
  /\ Apply(a, 0)
  /\ balance' = Pay(a, 0)
  /\ pending' = [pending EXCEPT ![a] = [pct |-> pct, at |-> height + CommissionDelay]]
  /\ UNCHANGED <<staked, unbonding, voting, delegating, vesting>>

-----------------------------------------------------------------------------
(* The id of a vesting is that of the transaction that created it. *)
VestingCreate(a, b, v, term) ==
  /\ Apply(a, v)
  /\ term.cliff <= term.duration
  /\ balance' = Pay(a, v)
  /\ vesting' = vesting \union
       {[id |-> txs, beneficiary |-> b, total |-> v, claimed |-> 0, start |-> height,
         cliff |-> term.cliff, duration |-> term.duration]}
  /\ UNCHANGED <<staked, unbonding, voting, pending, delegating>>

(* vested: nothing before the cliff, then linear. *)
Vested(x) == IF height < x.start + x.cliff THEN 0
             ELSE IF height >= x.start + x.duration THEN x.total
             ELSE (x.total * (height - x.start)) \div x.duration

VestingClaim(x) ==
  LET a == x.beneficiary
      due == Excess(Vested(x), x.claimed) IN
  /\ Apply(a, 0)
  /\ due > 0
  /\ balance' = [Pay(a, 0) EXCEPT ![a] = @ + due]
  /\ vesting' = (vesting \ {x}) \union
       (IF x.claimed + due < x.total THEN {[x EXCEPT !.claimed = @ + due]} ELSE {})
  /\ UNCHANGED <<staked, unbonding, voting, pending, delegating>>

DelegateResource(a, b, v) ==
  /\ Apply(a, 0)
  /\ a # b
  /\ delegatedOut[a] + v <= staked[a]
  /\ balance' = Pay(a, 0)
  /\ delegatedOut' = [delegatedOut EXCEPT ![a] = @ + v]
  /\ delegatedIn' = [delegatedIn EXCEPT ![b] = @ + v]
  /\ delegations' = [delegations EXCEPT ![a][b] = @ + v]
  /\ UNCHANGED <<staked, unbonding, voting, pending, vesting>>

UndelegateResource(a, b, v) ==
  /\ Apply(a, 0)
  /\ delegations[a][b] >= v
  /\ balance' = Pay(a, 0)
  /\ delegatedOut' = [delegatedOut EXCEPT ![a] = @ - v]
  /\ delegatedIn' = [delegatedIn EXCEPT ![b] = @ - v]
  /\ delegations' = [delegations EXCEPT ![a][b] = @ - v]
  /\ UNCHANGED <<staked, unbonding, voting, pending, vesting>>

-----------------------------------------------------------------------------
(* What a penalty can reach: withdrawals in the queue too. *)
EmRisco(a) == staked[a] + Value({e \in unbonding : e.owner = a})

Penalidade(a) == (EmRisco(a) * SlashPct) \div 100

(* Mutant of DoStake: more than the stake is taken from it. *)
DoStakeTudo(a, p) == p

DoStake(a, p) == Least(staked[a], p)

(* Mutant of FilaApos: the queue is spared. *)
FilaIntacta(a, rest) == unbonding

(* The queue once rest is taken from a's withdrawals, the oldest first. *)
FilaApos(a, rest) ==
  LET before(e) == Value({d \in unbonding : d.owner = a /\ d.id < e.id})
      left(e) == IF e.owner # a THEN e.value
                 ELSE Excess(e.value, Excess(rest, before(e)))
  IN {[e EXCEPT !.value = left(e)] : e \in {d \in unbonding : left(d) > 0}}

(* Mutant of Revogado: nothing is revoked. *)
RevogadoNada(a, left) == Zero

(* What a loses of each delegation when its stake is left: the excess over  *)
(* it, in the order of the addresses.                                       *)
Revogado(a, left) ==
  [b \in Account |->
     Least(delegations[a][b],
           Excess(Excess(delegatedOut[a], left),
                  SumFunctionOnSet(delegations[a], {c \in Account : c < b})))]

(* slash_double_sign, reported by r with two blocks of a at height h that   *)
(* verify. The handler takes no fee from r; the epilogue burns it anyway.   *)
SlashDoubleSign(r, a, h) ==
  LET penalty == Penalidade(a)
      reward == (penalty * ReporterPct) \div 100
      left == staked[a] - DoStake(a, penalty)
      lost == Revogado(a, left) IN
  /\ Open
  /\ r \notin shared
  /\ <<a, h>> \in Offences \ slashed
  /\ EmRisco(a) > 0
  /\ staked' = [staked EXCEPT ![a] = left]
  /\ unbonding' = FilaApos(a, penalty - DoStake(a, penalty))
  /\ delegations' = [delegations EXCEPT ![a] = [b \in Account |-> @[b] - lost[b]]]
  /\ delegatedIn' = [b \in Account |-> Excess(delegatedIn[b], lost[b])]
  /\ delegatedOut' = [delegatedOut EXCEPT ![a] = Least(@, left)]
  /\ burned' = burned + (penalty - reward) + Fee
  /\ balance' = [balance EXCEPT ![r] = @ + reward]
  /\ slashed' = slashed \union {<<a, h>>}
  /\ txs' = txs + 1
  /\ UNCHANGED <<voting, rewards, block, pending, vesting, shared>>

-----------------------------------------------------------------------------
(* distribute_block_reward: the treasury's part, then the producer's        *)
(* commission, then its voters' share by way of the accumulator. What the   *)
(* division leaves over, the dust, is the producer's.                       *)
Distribution(p) ==
  LET cut == (Reward * TreasuryPct) \div 100
      net == Reward - cut
      share == net - (net * commission[p]) \div 100
      inc == (share * Scale) \div candidateVotes[p]
  IN IF candidateVotes[p] = 0 \/ net = 0
     THEN [treasury |-> cut, producer |-> net, inc |-> 0]
     ELSE [treasury |-> cut, inc |-> inc,
           producer |-> net - (inc * candidateVotes[p]) \div Scale]

Madura(at) == height >= at

(* The end of p's block: the reward, then block_tick (commissions that were   *)
(* announced come into force, withdrawals that matured are paid).           *)
EndBlock(p) ==
  LET dist == Distribution(p)
      paid(a) == Value({e \in unbonding : e.owner = a /\ Madura(e.at)})
      due(a) == pending[a] # None /\ height >= pending[a].at
      earned(a) == IF a = p THEN dist.producer ELSE 0 IN
  /\ height < MaxHeight /\ p \in eligible
  /\ treasury' = treasury + dist.treasury
  /\ balance' = [a \in Account |-> balance[a] + earned(a) + paid(a)]
  /\ acc' = [acc EXCEPT ![p] = @ + dist.inc]
  /\ minted' = minted + Reward
  /\ commission' = [a \in Account |-> IF due(a) THEN pending[a].pct ELSE commission[a]]
  /\ pending' = [a \in Account |-> IF due(a) THEN None ELSE pending[a]]
  /\ unbonding' = {e \in unbonding : ~Madura(e.at)}
  /\ height' = height + 1
  /\ eligible' = Validators(staked)
  /\ UNCHANGED <<staked, voting, delegating, vesting, slashed, shared, burned, txs>>

Allotments(a) == {f \in [Account -> Amounts \union {0}] : f[a] = 0}

Next ==
  \/ \E a \in Account, v \in Amounts : Stake(a, v) \/ Unstake(a, v)
  \/ \E a, b \in Account, v \in Amounts :
       Transfer(a, b, v) \/ DelegateResource(a, b, v) \/ UndelegateResource(a, b, v)
  \/ \E a \in Account : \E alloc \in Allotments(a) : Vote(a, alloc)
  \/ \E a, c \in Account : ClaimVoterReward(a, c)
  \/ \E a \in Account : PermissionUpdate(a)
  \/ \E k, a \in Account, v \in Amounts : MultisigUnstake(k, a, v)
  \/ \E k, a \in Account : MultisigRelease(k, a)
  \/ \E a \in Account, pct \in Percents : SetCommission(a, pct)
  \/ \E a, b \in Account, v \in Amounts, term \in Terms : VestingCreate(a, b, v, term)
  \/ \E x \in vesting : VestingClaim(x)
  \/ \E r \in Account, o \in Offences : SlashDoubleSign(r, o[1], o[2])
  \/ \E p \in eligible : EndBlock(p)

Spec == Init /\ [][Next]_vars

-----------------------------------------------------------------------------
(* No amount goes below zero: every subtraction the handlers write as       *)
(* infallible, after their checks, is. No withdrawal outlives its block.    *)
TypeOK ==
  /\ {balance, staked, candidateVotes, acc, delegatedOut, delegatedIn}
       \subseteq [Account -> Nat]
  /\ {votes, debt, delegations} \subseteq [Account -> [Account -> Nat]]
  /\ unbonding \subseteq [id : Nat, owner : Account, value : Nat \ {0}, at : Nat]
  /\ \A e \in unbonding : e.at >= height
  /\ commission \in [Account -> 0..100]
  /\ pending \in [Account -> [pct : 0..100, at : Nat]]
  /\ {minted, burned, treasury, txs} \subseteq Nat
  /\ slashed \subseteq Offences /\ shared \subseteq Account /\ height \in Nat /\ eligible \subseteq Account

(* candidate_votes, which ranks the validators and divides their rewards,   *)
(* is the sum of the allotments behind it, however often they are replaced. *)
VotesCounted == \A c \in Account :
  candidateVotes[c] = SumFunction([a \in Account |-> votes[a][c]])

(* Delegated resources add up on both sides, however they are withdrawn or  *)
(* revoked (revocation of slash_double_sign: partial, in address order).    *)
DelegationsCounted == \A a \in Account :
  /\ delegatedOut[a] = SumFunction(delegations[a])
  /\ delegatedIn[a] = SumFunction([b \in Account |-> delegations[b][a]])

Slashes(a) == \E o \in slashed' \ slashed : o[1] = a

MultisigWithdraws(a) == \E k \in Account, v \in Amounts : MultisigUnstake(k, a, v)

VotesHeld(a) == VotadoTotal(a) <= staked[a]

DelegationsHeld(a) == delegatedOut[a] <= staked[a]

(* Votes lose the stake behind them only in a slash, or in a withdrawal an  *)
(* account under a permission has its signers make, which unstake's check   *)
(* (value.rs) does not see.                                                 *)
VotesBacked ==
  [][\A a \in Account :
       VotesHeld(a) /\ ~VotesHeld(a)' => Slashes(a) \/ MultisigWithdraws(a)]_vars

(* Delegated resources lose theirs only in such a withdrawal: a slash       *)
(* revokes what its victim can no longer back, even after one of those.     *)
DelegationsBacked ==
  [][\A a \in Account :
       DelegationsHeld(a) \/ Slashes(a)
         => DelegationsHeld(a)' \/ MultisigWithdraws(a)]_vars

(* What unstake's comment says its checks are for (value.rs:443-446): nobody *)
(* who was not slashed is left with votes or delegations their stake does   *)
(* not back.                                                                *)
StakeBacks == \A a \in Account :
  (VotesHeld(a) /\ DelegationsHeld(a)) \/ \E o \in slashed : o[1] = a

(* An offender does not escape by withdrawing first: the penalty comes off  *)
(* the stake and the queue in full (slash_double_sign).                     *)
PenaltyInFull ==
  [][\A o \in slashed' \ slashed :
       EmRisco(o[1])' = EmRisco(o[1]) - Penalidade(o[1])]_vars
=============================================================================
