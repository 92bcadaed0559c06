---------------------------- MODULE Ledger_proofs ----------------------------
(***************************************************************************)
(* What Ledger's runs check on three accounts, for any number of them and  *)
(* any amounts, fees, rates and delays.                                    *)
(***************************************************************************)
EXTENDS Ledger, Lemmas

SumAccounts(f) == SumFunctionOnSet(f, Account)

Withdrawal == [id : Nat, owner : Account, value : Nat \ {0}, at : Nat]

Grant == [id : Nat, beneficiary : Account, total : Nat, claimed : Nat, start : Nat,
          cliff : Nat, duration : Nat \ {0}]

Queue(q, n, h) == /\ IsFiniteSet(q) /\ q \subseteq Withdrawal
                  /\ \A e \in q : e.id < n /\ e.at >= h
                  /\ \A d, e \in q : d.id = e.id => d = e

Grants(v, n) == /\ IsFiniteSet(v) /\ v \subseteq Grant
                /\ \A x \in v : x.id < n /\ x.claimed <= x.total
                /\ \A x, y \in v : x.id = y.id => x = y

Counted(vo, cv) == \A c \in Account : cv[c] = SumAccounts([a \in Account |-> vo[a][c]])

Delegated(d, out, in) == \A a \in Account :
  /\ out[a] = SumAccounts(d[a])
  /\ in[a] = SumAccounts([b \in Account |-> d[b][a]])

Settled(de, ac) == \A a, c \in Account : de[a][c] <= ac[c]

Types ==
  /\ balance \in [Account -> Nat] /\ staked \in [Account -> Nat]
  /\ candidateVotes \in [Account -> Nat] /\ acc \in [Account -> Nat]
  /\ delegatedOut \in [Account -> Nat] /\ delegatedIn \in [Account -> Nat]
  /\ votes \in [Account -> [Account -> Nat]] /\ debt \in [Account -> [Account -> Nat]]
  /\ delegations \in [Account -> [Account -> Nat]]
  /\ commission \in [Account -> 0..100]
  /\ pending \in [Account -> [pct : 0..100, at : Nat]]
  /\ minted \in Nat /\ burned \in Nat /\ treasury \in Nat /\ txs \in Nat
  /\ slashed \subseteq Offences /\ IsFiniteSet(slashed)
  /\ height \in Nat \ {0} /\ eligible \subseteq Account /\ shared \subseteq Account

(* The inductive invariant. The subtractions of one part lean on the sums of  *)
(* another: what a vote takes back was counted, what is undelegated is part   *)
(* of the total. Ids that are not reused keep the entries of the queue and    *)
(* the grants apart when one of them changes.                                 *)
LedgerInv == /\ Types
             /\ Queue(unbonding, txs, height) /\ Grants(vesting, txs)
             /\ Counted(votes, candidateVotes)
             /\ Delegated(delegations, delegatedOut, delegatedIn)
             /\ Settled(debt, acc)

-----------------------------------------------------------------------------
(* Division, as the handlers use it. *)
LEMMA Division ==
  ASSUME NEW m \in Nat, NEW k \in Nat \ {0}
  PROVE  /\ m \div k \in Nat
         /\ k * (m \div k) <= m
         /\ m <= k * (m \div k) + (k - 1)
  OBVIOUS

(* A percentage of an amount is within it. *)
LEMMA Percentage ==
  ASSUME NEW m \in Nat, NEW p \in 0..100
  PROVE  (m * p) \div 100 \in 0..m
  OBVIOUS

(* What is taken in the order of key, up to x in all, adds up to x, or to all *)
(* there is.                                                                  *)
Greedily(S, f, key, x, lost) ==
  /\ f \in [S -> Nat] /\ key \in [S -> Nat] /\ lost \in [S -> Nat]
  /\ \A b, c \in S : key[b] = key[c] => b = c
  /\ \A b \in S : lost[b] =
       Least(f[b], Excess(x, SumFunctionOnSet(f, {c \in S : key[c] < key[b]})))

(* Taking from one after the other takes all that is asked, or all there    *)
(* is.                                                                      *)
LEMMA Greedy ==
  ASSUME NEW S, IsFiniteSet(S), NEW f, NEW key, NEW x \in Nat, NEW lost,
         Greedily(S, f, key, x, lost)
  PROVE  SumFunctionOnSet(lost, S) = Least(x, SumFunctionOnSet(f, S))
<1> USE DEF Greedily
<1> DEFINE Below(n) == {c \in S : key[c] < n}
           F(s) == SumFunctionOnSet(f, s)
           L(s) == SumFunctionOnSet(lost, s)
           T == {n \in Nat : L(Below(n)) = Least(x, F(Below(n)))}
<1>1. 0 \in T
  <2>1. Below(0) = {}
    OBVIOUS
  <2>2. F({}) = 0 /\ L({}) = 0
    BY SumEmpty
  <2>3. L(Below(0)) = 0 /\ F(Below(0)) = 0
    BY <2>1, <2>2
  <2>4. 0 = Least(x, 0)
    BY DEF Least
  <2> HIDE DEF F, L, Below
  <2>5. QED
    BY <2>3, <2>4
<1>2. ASSUME NEW n \in Nat, n \in T
      PROVE  n + 1 \in T
  <2>1. CASE \E b \in S : key[b] = n
    <3>1. PICK b \in S : key[b] = n
      BY <2>1
    <3> DEFINE s == Below(n)
    <3>2. s \in SUBSET S /\ IsFiniteSet(s) /\ b \notin s
      BY <3>1, FS_Subset
    <3>3. Below(n + 1) = s \cup {b}
      <4>1. ASSUME NEW c \in S PROVE key[c] < n + 1 <=> key[c] < n \/ c = b
        <5>1. key[c] \in Nat
          OBVIOUS
        <5>2. key[c] = n => c = b
          BY <3>1
        <5>3. QED
          BY <5>1, <5>2, <3>1
      <4>2. QED
        BY <4>1
    <3>4. lost[b] = Least(f[b], Excess(x, F(s)))
      BY <3>1
    <3>5. F(s) \in Nat /\ L(s) \in Nat
      BY <3>2, SumNat
    <3>6. F(s \cup {b}) = f[b] + F(s) /\ L(s \cup {b}) = lost[b] + L(s)
      BY <3>2, SumAdd
    <3>7. L(s) = Least(x, F(s)) /\ f[b] \in Nat
      BY <1>2
    <3> DEFINE u == s \cup {b}
    <3> HIDE DEF s, F, L, u
    <3>8. \A i, j, k \in Nat : Least(i, Excess(k, j)) + Least(k, j) = Least(k, i + j)
      BY DEF Least, Excess
    <3>9. L(u) = Least(x, F(u))
      BY <3>4, <3>5, <3>6, <3>7, <3>8 DEF u
    <3>10. L(Below(n + 1)) = Least(x, F(Below(n + 1)))
      BY <3>3, <3>9 DEF u
    <3>11. QED
      BY <3>10
  <2>2. CASE ~ \E b \in S : key[b] = n
    <3>1. \A c \in S : key[c] < n + 1 <=> key[c] < n
      BY <2>2
    <3>2. Below(n + 1) = Below(n)
      BY <3>1
    <3>3. QED
      BY <1>2, <3>2
  <2>3. QED
    BY <2>1, <2>2
<1>3. Nat \subseteq T
  <2> HIDE DEF T
  <2>1. QED
    BY <1>1, <1>2, SetInduction
<1> DEFINE top == SumFunctionOnSet(key, S)
<1>4. top \in Nat
  BY SumNat
<1>5. \A c \in S : key[c] <= top
  BY SumBound
<1>6. Below(top + 1) = S
  <2> HIDE DEF top
  <2>1. \A c \in S : key[c] \in Nat /\ key[c] < top + 1
    BY <1>4, <1>5
  <2>2. QED
    BY <2>1
<1>7. top + 1 \in T
  BY <1>3, <1>4
<1>8. QED
  BY <1>6, <1>7

-----------------------------------------------------------------------------
(* The assumption, one constant at a time. *)
LEMMA Constants ==
  /\ Account \in SUBSET Nat /\ IsFiniteSet(Account)
  /\ Funds \in [Account -> Nat] /\ Stakes \in [Account -> Nat]
  /\ Amounts \subseteq Nat \ {0} /\ Percents \subseteq 0..100
  /\ Terms \subseteq [cliff : Nat, duration : Nat \ {0}]
  /\ Offences \subseteq Account \X Nat
  /\ TreasuryPct \in 0..100 /\ DefaultCommission \in 0..100
  /\ SlashPct \in 0..100 /\ ReporterPct \in 0..100
  /\ Fee \in Nat /\ Reward \in Nat /\ MaxTxs \in Nat /\ MaxHeight \in Nat
  /\ MinStake \in Nat \ {0} /\ Scale \in Nat \ {0} /\ Unbonding \in Nat \ {0}
  /\ CommissionDelay \in Nat \ {0}
  BY LedgerAssumption

(* Sums over the accounts: typing, zeros, and one entry changed. *)
LEMMA SumAccountsFacts ==
  /\ \A f \in [Account -> Nat] : SumAccounts(f) \in Nat /\ SumFunction(f) = SumAccounts(f)
  /\ \A f \in [Account -> Nat] : \A a \in Account : f[a] <= SumAccounts(f)
  /\ SumAccounts(Zero) = 0
<1>1. IsFiniteSet(Account)
  BY Constants
<1>2. ASSUME NEW f \in [Account -> Nat]
      PROVE  SumAccounts(f) \in Nat /\ SumFunction(f) = SumAccounts(f)
  BY <1>1, SumNat, SumFunctionIs DEF SumAccounts
<1>3. ASSUME NEW f \in [Account -> Nat], NEW a \in Account
      PROVE  f[a] <= SumAccounts(f)
  BY <1>1, SumBound DEF SumAccounts
<1>4. SumAccounts(Zero) = 0
  BY <1>1, SumZero DEF SumAccounts, Zero
<1>5. QED
  BY <1>2, <1>3, <1>4

(* A sum over the accounts of which one changed. *)
LEMMA SumOneChanged ==
  ASSUME NEW f \in [Account -> Int], NEW g \in [Account -> Int], NEW a \in Account,
         \A b \in Account \ {a} : g[b] = f[b]
  PROVE  SumAccounts(f) \in Int /\ SumAccounts(g) = SumAccounts(f) - f[a] + g[a]
<1>1. IsFiniteSet(Account)
  BY Constants
<1>2. QED
  BY <1>1, SumUpdate DEF SumAccounts

(* What the queue is worth. *)
LEMMA ValueFacts ==
  ASSUME NEW q, IsFiniteSet(q), q \subseteq Withdrawal
  PROVE  /\ Value(q) \in Nat
         /\ \A r \in SUBSET q : Value(q) = Value(r) + Value(q \ r)
<1> DEFINE w == [e \in q |-> e.value]
<1>1. \A e \in q : e.value \in Nat
  BY DEF Withdrawal
<1>2. w \in [q -> Nat] /\ \A e \in q : w[e] \in Nat /\ w[e] \in Int
  BY <1>1
<1>3. ASSUME NEW r \in SUBSET q
      PROVE  Value(r) = SumFunctionOnSet(w, r)
  <2> DEFINE v == [e \in r |-> e.value]
  <2>1. v \in [r -> Nat] /\ IsFiniteSet(r) /\ \A e \in r : v[e] = w[e]
    BY <1>1, FS_Subset
  <2>2. SumFunction(v) = SumFunctionOnSet(v, r)
    BY <2>1, SumFunctionIs
  <2> HIDE DEF w, v
  <2>3. SumFunctionOnSet(v, r) = SumFunctionOnSet(w, r)
    BY <2>1, SumSame
  <2>4. QED
    BY <2>2, <2>3 DEF Value, v
<1> HIDE DEF w
<1>4. q \in SUBSET q
  OBVIOUS
<1>5. Value(q) \in Nat
  BY <1>2, <1>3, <1>4, SumNat
<1>6. ASSUME NEW r \in SUBSET q
      PROVE  Value(q) = Value(r) + Value(q \ r)
  <2>1. SumFunctionOnSet(w, q) = SumFunctionOnSet(w, r) + SumFunctionOnSet(w, q \ r)
    BY <1>2, SumSplit
  <2>2. q \ r \in SUBSET q
    OBVIOUS
  <2>3. QED
    BY <1>3, <1>4, <2>1, <2>2
<1>7. QED
  BY <1>5, <1>6

-----------------------------------------------------------------------------
(* The genesis satisfies the invariant. *)
LEMMA InvInit == Init => LedgerInv
<1> SUFFICES ASSUME Init PROVE LedgerInv
  OBVIOUS
<1>1. Types
  <2>1. votes \in [Account -> [Account -> Nat]] /\ debt \in [Account -> [Account -> Nat]]
        /\ delegations \in [Account -> [Account -> Nat]]
    BY DEF Init, Zero
  <2>2. pending \in [Account -> [pct : 0..100, at : Nat]]
    BY DEF Init, None
  <2>3. IsFiniteSet({})
    BY FS_EmptySet
  <2>4. QED
    BY <2>1, <2>2, <2>3, Constants DEF Init, Types, Zero, Validators
<1>2. Queue(unbonding, txs, height) /\ Grants(vesting, txs)
  BY FS_EmptySet DEF Init, Queue, Grants
<1>3. Counted(votes, candidateVotes)
  <2>1. ASSUME NEW c \in Account PROVE [a \in Account |-> votes[a][c]] = Zero
    BY DEF Init, Zero
  <2>2. QED
    BY <2>1, SumAccountsFacts DEF Init, Counted, Zero
<1>5. Delegated(delegations, delegatedOut, delegatedIn)
  <2>1. ASSUME NEW a \in Account
        PROVE  /\ delegations[a] = Zero /\ [b \in Account |-> delegations[b][a]] = Zero
               /\ delegatedOut[a] = 0 /\ delegatedIn[a] = 0
    BY Constants DEF Init, Zero
  <2>2. QED
    BY <2>1, SumAccountsFacts DEF Delegated
<1>6. Settled(debt, acc)
  BY DEF Init, Zero, Settled
<1>7. QED
  BY <1>1, <1>2, <1>3, <1>5, <1>6 DEF LedgerInv

(* What an amount added to one account does. *)
LEMMA Credit ==
  ASSUME NEW f \in [Account -> Nat], NEW a \in Account, NEW v \in Nat
  PROVE  /\ [f EXCEPT ![a] = @ + v] \in [Account -> Nat]
         /\ SumAccounts([f EXCEPT ![a] = @ + v]) = SumAccounts(f) + v
<1> DEFINE g == [f EXCEPT ![a] = @ + v]
<1>1. g \in [Account -> Nat] /\ g[a] = f[a] + v /\ f[a] \in Nat
      /\ \A b \in Account \ {a} : g[b] = f[b]
  OBVIOUS
<1>2. f \in [Account -> Int] /\ g \in [Account -> Int]
  BY <1>1
<1> HIDE DEF g
<1>3. SumAccounts(f) \in Int /\ SumAccounts(g) = SumAccounts(f) - f[a] + g[a]
  BY <1>1, <1>2, SumOneChanged
<1>4. SumAccounts(g) = SumAccounts(f) + v
  BY <1>1, <1>3
<1>5. QED
  BY <1>1, <1>4 DEF g

(* A payment that was checked leaves natural balances. *)
LEMMA PayFacts ==
  ASSUME Types, NEW a \in Account, NEW cost \in Nat, balance[a] >= cost + Fee
  PROVE  /\ Pay(a, cost) \in [Account -> Nat]
         /\ SumAccounts(Pay(a, cost)) = SumAccounts(balance) - cost - Fee
<1> DEFINE g == Pay(a, cost)
<1>0. balance \in [Account -> Nat] /\ Fee \in Nat
  BY Constants DEF Types
<1>1. g \in [Account -> Nat] /\ g[a] = balance[a] - cost - Fee /\ balance[a] \in Nat
      /\ \A b \in Account \ {a} : g[b] = balance[b]
  BY <1>0 DEF Pay
<1>2. balance \in [Account -> Int] /\ g \in [Account -> Int]
  BY <1>0, <1>1
<1> HIDE DEF g
<1>3. SumAccounts(balance) \in Int /\ SumAccounts(g) = SumAccounts(balance) - balance[a] + g[a]
  BY <1>1, <1>2, SumOneChanged
<1>4. SumAccounts(g) = SumAccounts(balance) - cost - Fee
  BY <1>0, <1>1, <1>3
<1>5. QED
  BY <1>1, <1>4 DEF g

(* What apply_transaction itself keeps. *)
LEMMA PaidFacts ==
  ASSUME LedgerInv, NEW a \in Account, NEW cost \in Nat, Paid(a, cost)
  PROVE  /\ balance[a] >= cost + Fee
         /\ txs' = txs + 1 /\ burned' = burned + Fee /\ txs' \in Nat /\ burned' \in Nat
         /\ commission' \in [Account -> 0..100] /\ acc' \in [Account -> Nat]
         /\ minted' \in Nat /\ treasury' \in Nat /\ height' \in Nat \ {0}
         /\ slashed' \subseteq Offences /\ IsFiniteSet(slashed') /\ eligible' \subseteq Account
         /\ acc' = acc /\ slashed' = slashed /\ height' = height
         /\ Queue(unbonding, txs', height') /\ Grants(vesting, txs')
<1>1. Types /\ Queue(unbonding, txs, height) /\ Grants(vesting, txs) /\ Fee \in Nat
  BY Constants DEF LedgerInv
<1>2. /\ balance[a] >= cost + Fee /\ txs' = txs + 1 /\ burned' = burned + Fee
      /\ UNCHANGED <<acc, commission, minted, treasury, height, eligible, slashed>>
  BY DEF Paid, rewards, block
<1>3. txs \in Nat /\ txs' \in Nat
  BY <1>1, <1>2 DEF Types
<1>4. Queue(unbonding, txs', height')
  <2>1. \A e \in unbonding : e.id \in Nat /\ e.id < txs'
    BY <1>1, <1>2, <1>3 DEF Queue, Withdrawal
  <2>2. QED
    BY <1>1, <1>2, <2>1 DEF Queue
<1>5. Grants(vesting, txs')
  <2>1. \A x \in vesting : x.id \in Nat /\ x.id < txs'
    BY <1>1, <1>2, <1>3 DEF Grants, Grant
  <2>2. QED
    BY <1>1, <1>2, <2>1 DEF Grants
<1>6. QED
  BY <1>1, <1>2, <1>3, <1>4, <1>5 DEF Types

LEMMA ApplyFacts ==
  ASSUME LedgerInv, NEW a \in Account, NEW cost \in Nat, Apply(a, cost)
  PROVE  /\ balance[a] >= cost + Fee
         /\ txs' = txs + 1 /\ burned' = burned + Fee /\ txs' \in Nat /\ burned' \in Nat
         /\ commission' \in [Account -> 0..100] /\ acc' \in [Account -> Nat]
         /\ minted' \in Nat /\ treasury' \in Nat /\ height' \in Nat \ {0}
         /\ slashed' \subseteq Offences /\ IsFiniteSet(slashed') /\ eligible' \subseteq Account
         /\ acc' = acc /\ slashed' = slashed /\ height' = height
         /\ Queue(unbonding, txs', height') /\ Grants(vesting, txs')
         /\ shared' \subseteq Account
<1>1. Paid(a, cost) /\ shared' = shared /\ shared \subseteq Account
  BY DEF Apply, LedgerInv, Types
<1>2. QED
  BY <1>1, PaidFacts

(* One lemma for each transaction: it keeps the invariant. *)
LEMMA InvTransfer ==
  ASSUME LedgerInv, NEW a \in Account, NEW b \in Account, NEW v \in Amounts, Transfer(a, b, v)
  PROVE  LedgerInv'
<1>1. v \in Nat /\ Apply(a, v) /\ balance' = [Pay(a, v) EXCEPT ![b] = @ + v]
      /\ UNCHANGED <<staked, unbonding, voting, pending, delegating, vesting>>
  BY Constants DEF Transfer
<1>2. balance' \in [Account -> Nat]
  BY <1>1, PayFacts, ApplyFacts, Credit DEF LedgerInv
<1>3. Types'
  BY <1>1, <1>2, ApplyFacts DEF LedgerInv, Types, voting, delegating
<1>4. QED
  BY <1>1, <1>3, ApplyFacts DEF LedgerInv, voting, delegating

(* stake moves a balance into the stake. *)
LEMMA InvStake ==
  ASSUME LedgerInv, NEW a \in Account, NEW v \in Amounts, Stake(a, v)
  PROVE  LedgerInv'
<1>1. v \in Nat /\ Apply(a, v) /\ balance' = Pay(a, v) /\ staked' = [staked EXCEPT ![a] = @ + v]
      /\ UNCHANGED <<unbonding, voting, pending, delegating, vesting>>
  BY Constants DEF Stake
<1>2. balance' \in [Account -> Nat] /\ staked \in [Account -> Nat]
  BY <1>1, PayFacts, ApplyFacts DEF LedgerInv, Types
<1>3. staked' \in [Account -> Nat] /\ \A b \in Account : staked'[b] >= staked[b]
  BY <1>1, <1>2
<1>4. Types'
  BY <1>1, <1>2, <1>3, ApplyFacts DEF LedgerInv, Types, voting, delegating
<1>5. QED
  BY <1>1, <1>4, ApplyFacts DEF LedgerInv, voting, delegating

(* A withdrawal that k pays for moves stake of a into the queue. *)
LEMMA InvWithdraw ==
  ASSUME LedgerInv, NEW k \in Account, NEW a \in Account, NEW v \in Amounts,
         Apply(k, 0), balance' = Pay(k, 0), Withdraw(a, v)
  PROVE  LedgerInv'
<1> DEFINE rest == staked[a] - v
           e == [id |-> txs, owner |-> a, value |-> v, at |-> height + Unbonding]
<1>1. /\ v \in Nat \ {0} /\ Apply(k, 0) /\ balance' = Pay(k, 0)
      /\ rest >= 0
      /\ staked' = [staked EXCEPT ![a] = rest] /\ unbonding' = unbonding \union {e}
      /\ UNCHANGED <<voting, pending, delegating, vesting>>
  BY Constants DEF Withdraw
<1>2. balance' \in [Account -> Nat] /\ staked \in [Account -> Nat]
  BY <1>1, PayFacts, ApplyFacts DEF LedgerInv, Types
<1>3. rest \in Nat
  BY <1>1, <1>2
<1> HIDE DEF rest
<1>4. staked' \in [Account -> Nat] /\ staked'[a] = rest
      /\ \A b \in Account \ {a} : staked'[b] = staked[b]
  BY <1>1, <1>2, <1>3
<1>5. Types'
  BY <1>1, <1>2, <1>4, ApplyFacts DEF LedgerInv, Types, voting, delegating
<1>6. Queue(unbonding', txs', height')
  <2>1. txs \in Nat /\ height \in Nat /\ txs' = txs + 1 /\ height' = height /\ Unbonding \in Nat
    BY <1>1, ApplyFacts, Constants DEF LedgerInv, Types
  <2>2. Queue(unbonding, txs, height) /\ Queue(unbonding, txs', height')
    BY <1>1, ApplyFacts DEF LedgerInv
  <2>3. e \in Withdrawal /\ e.id = txs /\ e.at >= height /\ e.id < txs'
    BY <1>1, <2>1 DEF Withdrawal
  <2>4. \A d \in unbonding : d.id \in Nat /\ d.id < e.id
    BY <2>2, <2>3 DEF Queue, Withdrawal
  <2> HIDE DEF e
  <2>5. \A d \in unbonding : d.id # e.id
    BY <2>1, <2>3, <2>4
  <2>6. IsFiniteSet(unbonding')
    BY <1>1, <2>2, FS_AddElement DEF Queue
  <2>7. QED
    BY <1>1, <2>1, <2>2, <2>3, <2>5, <2>6 DEF Queue
<1>7. QED
  BY <1>1, <1>5, <1>6, ApplyFacts DEF LedgerInv, voting, delegating

(* unstake, and the same asked for by the signers of an account. *)
LEMMA InvUnstake ==
  ASSUME LedgerInv, NEW a \in Account, NEW v \in Amounts, Unstake(a, v)
  PROVE  LedgerInv'
  BY InvWithdraw DEF Unstake

LEMMA InvMultisigUnstake ==
  ASSUME LedgerInv, NEW k \in Account, NEW a \in Account, NEW v \in Amounts,
         MultisigUnstake(k, a, v)
  PROVE  LedgerInv'
  BY InvWithdraw DEF MultisigUnstake

(* A permission that is set or removed costs a fee, and moves nothing. *)
LEMMA InvShared ==
  ASSUME LedgerInv, NEW k \in Account, Paid(k, 0), balance' = Pay(k, 0),
         shared' \subseteq Account,
         UNCHANGED <<staked, unbonding, voting, pending, delegating, vesting>>
  PROVE  LedgerInv'
<1>1. balance' \in [Account -> Nat]
  BY PayFacts, PaidFacts DEF LedgerInv
<1>2. Types'
  BY <1>1, PaidFacts DEF LedgerInv, Types, voting, delegating
<1>3. QED
  BY <1>2, PaidFacts DEF LedgerInv, voting, delegating

LEMMA InvPermissionUpdate ==
  ASSUME LedgerInv, NEW a \in Account, PermissionUpdate(a)
  PROVE  LedgerInv'
<1>1. shared' \subseteq Account
  BY DEF PermissionUpdate, LedgerInv, Types
<1>2. QED
  BY <1>1, InvShared DEF PermissionUpdate

LEMMA InvMultisigRelease ==
  ASSUME LedgerInv, NEW k \in Account, NEW a \in Account, MultisigRelease(k, a)
  PROVE  LedgerInv'
<1>1. shared' \subseteq Account
  BY DEF MultisigRelease, LedgerInv, Types
<1>2. QED
  BY <1>1, InvShared DEF MultisigRelease

(* set_commission only announces a rate. *)
LEMMA InvSetCommission ==
  ASSUME LedgerInv, NEW a \in Account, NEW pct \in Percents, SetCommission(a, pct)
  PROVE  LedgerInv'
<1>1. /\ pct \in 0..100 /\ Apply(a, 0) /\ balance' = Pay(a, 0)
      /\ pending' = [pending EXCEPT ![a] = [pct |-> pct, at |-> height + CommissionDelay]]
      /\ UNCHANGED <<staked, unbonding, voting, delegating, vesting>>
  BY Constants DEF SetCommission
<1>2. balance' \in [Account -> Nat]
  BY <1>1, PayFacts, ApplyFacts DEF LedgerInv
<1>3. [pct |-> pct, at |-> height + CommissionDelay] \in [pct : 0..100, at : Nat]
  BY <1>1, Constants DEF LedgerInv, Types
<1>4. pending' \in [Account -> [pct : 0..100, at : Nat]]
  BY <1>1, <1>3 DEF LedgerInv, Types
<1>5. Types'
  BY <1>1, <1>2, <1>4, ApplyFacts DEF LedgerInv, Types, voting, delegating
<1>6. QED
  BY <1>1, <1>5, ApplyFacts DEF LedgerInv, voting, delegating

(* vesting_create puts a new grant under a new id. *)
LEMMA InvVestingCreate ==
  ASSUME LedgerInv, NEW a \in Account, NEW b \in Account, NEW v \in Amounts, NEW term \in Terms,
         VestingCreate(a, b, v, term)
  PROVE  LedgerInv'
<1> DEFINE x == [id |-> txs, beneficiary |-> b, total |-> v, claimed |-> 0, start |-> height,
                 cliff |-> term.cliff, duration |-> term.duration]
<1>1. /\ v \in Nat /\ Apply(a, v) /\ balance' = Pay(a, v)
      /\ vesting' = vesting \union {x}
      /\ UNCHANGED <<staked, unbonding, voting, pending, delegating>>
  BY Constants DEF VestingCreate
<1>2. balance' \in [Account -> Nat]
  BY <1>1, PayFacts, ApplyFacts DEF LedgerInv
<1>3. Types'
  BY <1>1, <1>2, ApplyFacts DEF LedgerInv, Types, voting, delegating
<1>4. Grants(vesting', txs')
  <2>1. txs \in Nat /\ height \in Nat /\ txs' = txs + 1
    BY <1>1, ApplyFacts DEF LedgerInv, Types
  <2>2. Grants(vesting, txs) /\ Grants(vesting, txs')
    BY <1>1, ApplyFacts DEF LedgerInv
  <2>3. term.cliff \in Nat /\ term.duration \in Nat \ {0}
    BY Constants
  <2>4. x \in Grant /\ x.id = txs /\ x.id < txs' /\ x.claimed <= x.total
    BY <1>1, <2>1, <2>3 DEF Grant
  <2> HIDE DEF x
  <2>5. \A y \in vesting : y.id # x.id
    BY <2>1, <2>2, <2>4 DEF Grants, Grant
  <2>6. IsFiniteSet(vesting')
    BY <1>1, <2>2, FS_AddElement DEF Grants
  <2>7. QED
    BY <1>1, <2>2, <2>4, <2>5, <2>6 DEF Grants
<1>5. QED
  BY <1>1, <1>3, <1>4, ApplyFacts DEF LedgerInv, voting, delegating

(* The part of a total at k of d blocks is within the total. *)
LEMMA Proportion ==
  ASSUME NEW t \in Nat, NEW k \in Nat, NEW d \in Nat \ {0}, k <= d
  PROVE  (t * k) \div d \in 0..t
<1> DEFINE m == t * k
           q == m \div d
<1>1. m \in Nat /\ m <= t * d
  OBVIOUS
<1>2. q \in Nat /\ d * q <= m
  <2> HIDE DEF m
  <2>1. QED
    BY <1>1, Division
<1> HIDE DEF m, q
<1>3. d * q <= t * d
  BY <1>1, <1>2
<1>4. q <= t
  <2>1. SUFFICES ASSUME q >= t + 1 PROVE FALSE
    BY <1>2
  <2>2. d * q >= d * (t + 1)
    BY <1>2, <2>1
  <2>3. d * (t + 1) = t * d + d
    OBVIOUS
  <2>4. QED
    BY <1>2, <1>3, <2>2, <2>3
<1>5. q \in 0..t
  BY <1>2, <1>4
<1>6. QED
  BY <1>5 DEF m, q

(* A grant never vests more than its total. *)
LEMMA VestedFacts ==
  ASSUME NEW x \in Grant, height \in Nat
  PROVE  Vested(x) \in 0..x.total
<1>1. x.total \in Nat /\ x.start \in Nat /\ x.cliff \in Nat /\ x.duration \in Nat \ {0}
  BY DEF Grant
<1>2. CASE height < x.start + x.cliff
  BY <1>1, <1>2 DEF Vested
<1>3. CASE ~(height < x.start + x.cliff) /\ height >= x.start + x.duration
  BY <1>1, <1>3 DEF Vested
<1>4. CASE ~(height < x.start + x.cliff) /\ ~(height >= x.start + x.duration)
  <2>1. height - x.start \in Nat /\ height - x.start <= x.duration
    BY <1>1, <1>4
  <2>2. (x.total * (height - x.start)) \div x.duration \in 0..x.total
    BY <1>1, <2>1, Proportion
  <2>3. QED
    BY <1>4, <2>2 DEF Vested
<1>5. QED
  BY <1>2, <1>3, <1>4

(* What a claim leaves of the grant. *)
Claimed(x, due) == [x EXCEPT !.claimed = @ + due]

(* What a claim pays, and what it leaves of the grant. *)
LEMMA ClaimFacts ==
  ASSUME LedgerInv, NEW x \in vesting, VestingClaim(x)
  PROVE  \E due \in Nat \ {0} :
           /\ x \in Grant /\ Apply(x.beneficiary, 0) /\ x.claimed + due <= x.total
           /\ balance' = [Pay(x.beneficiary, 0) EXCEPT ![x.beneficiary] = @ + due]
           /\ vesting' = (vesting \ {x}) \union
                (IF x.claimed + due < x.total THEN {Claimed(x, due)} ELSE {})
           /\ UNCHANGED <<staked, unbonding, voting, pending, delegating>>
<1> DEFINE due == Excess(Vested(x), x.claimed)
<1>1. x \in Grant /\ height \in Nat /\ x.claimed <= x.total
  BY DEF LedgerInv, Types, Grants
<1>2. x.total \in Nat /\ x.claimed \in Nat /\ Vested(x) \in 0..x.total
  BY <1>1, VestedFacts DEF Grant
<1>3. /\ Apply(x.beneficiary, 0) /\ due > 0
      /\ balance' = [Pay(x.beneficiary, 0) EXCEPT ![x.beneficiary] = @ + due]
      /\ vesting' = (vesting \ {x}) \union
           (IF x.claimed + due < x.total THEN {Claimed(x, due)} ELSE {})
      /\ UNCHANGED <<staked, unbonding, voting, pending, delegating>>
  BY DEF VestingClaim, Claimed
<1>4. due \in Nat \ {0} /\ x.claimed + due <= x.total
  BY <1>2, <1>3 DEF Excess
<1> HIDE DEF due
<1>5. QED
  BY <1>1, <1>3, <1>4

(* vesting_claim changes one grant or removes it. *)
LEMMA InvVestingClaim ==
  ASSUME LedgerInv, NEW x \in vesting, VestingClaim(x)
  PROVE  LedgerInv'
<1> DEFINE a == x.beneficiary
<1>1. PICK due \in Nat \ {0} :
           /\ x \in Grant /\ Apply(a, 0) /\ x.claimed + due <= x.total
           /\ balance' = [Pay(a, 0) EXCEPT ![a] = @ + due]
           /\ vesting' = (vesting \ {x}) \union
                (IF x.claimed + due < x.total THEN {Claimed(x, due)} ELSE {})
           /\ UNCHANGED <<staked, unbonding, voting, pending, delegating>>
  BY ClaimFacts
<1>2. a \in Account
  BY <1>1 DEF Grant
<1>3. balance' \in [Account -> Nat]
  BY <1>1, <1>2, PayFacts, ApplyFacts, Credit DEF LedgerInv
<1>4. Types'
  BY <1>1, <1>2, <1>3, ApplyFacts DEF LedgerInv, Types, voting, delegating
<1>5. Grants(vesting', txs')
  <2> DEFINE y == Claimed(x, due)
  <2>1. Grants(vesting, txs')
    BY <1>1, <1>2, ApplyFacts
  <2>2. y \in Grant /\ y.id = x.id /\ y.claimed <= y.total
    BY <1>1 DEF Grant, Claimed
  <2>3. vesting' \subseteq (vesting \ {x}) \union {y}
    BY <1>1
  <2> HIDE DEF y
  <2>4. IsFiniteSet(vesting')
    <3>1. IsFiniteSet(vesting \ {x})
      BY <2>1, FS_Subset DEF Grants
    <3>2. IsFiniteSet((vesting \ {x}) \union {y})
      BY <3>1, FS_AddElement
    <3>3. QED
      BY <2>3, <3>2, FS_Subset
  <2>5. \A z \in vesting \ {x} : z.id # y.id
    BY <2>1, <2>2 DEF Grants
  <2>6. QED
    BY <2>1, <2>2, <2>3, <2>4, <2>5 DEF Grants
<1>6. QED
  BY <1>1, <1>2, <1>4, <1>5, ApplyFacts DEF LedgerInv, voting, delegating

(* One delegation, a's to b, becomes w, and the totals follow it. *)
Moved(a, b, w, d, out, in, d2, out2, in2) ==
  /\ d \in [Account -> [Account -> Nat]] /\ d2 = [d EXCEPT ![a][b] = w]
  /\ out \in [Account -> Nat] /\ out2 \in [Account -> Nat]
  /\ out2[a] = out[a] - d[a][b] + w /\ \A x \in Account \ {a} : out2[x] = out[x]
  /\ in \in [Account -> Nat] /\ in2 \in [Account -> Nat]
  /\ in2[b] = in[b] - d[a][b] + w /\ \A x \in Account \ {b} : in2[x] = in[x]

(* It changes the sums of its row and of its column. *)
LEMMA DelegationChanged ==
  ASSUME NEW a \in Account, NEW b \in Account, NEW w \in Nat,
         NEW d, NEW out, NEW in, NEW d2, NEW out2, NEW in2,
         Moved(a, b, w, d, out, in, d2, out2, in2),
         Delegated(d, out, in)
  PROVE  Delegated(d2, out2, in2)
<1> USE DEF Moved
<1>1. d2 \in [Account -> [Account -> Nat]] /\ d2[a][b] = w
      /\ \A x, y \in Account : (x # a \/ y # b) => d2[x][y] = d[x][y]
  OBVIOUS
<1>2. ASSUME NEW x \in Account PROVE out2[x] = SumAccounts(d2[x])
  <2>1. CASE x = a
    <3>1. d[a] \in [Account -> Int] /\ d2[a] \in [Account -> Int]
      BY <1>1
    <3>2. \A y \in Account \ {b} : d2[a][y] = d[a][y]
      BY <1>1
    <3>3. SumAccounts(d2[a]) = SumAccounts(d[a]) - d[a][b] + d2[a][b]
      BY <3>1, <3>2, SumOneChanged
    <3>4. QED
      BY <1>1, <2>1, <3>3 DEF Delegated
  <2>2. CASE x # a
    <3>1. d2[x] = d[x]
      BY <2>2
    <3>2. QED
      BY <2>2, <3>1 DEF Delegated
  <2>3. QED
    BY <2>1, <2>2
<1>3. ASSUME NEW y \in Account PROVE in2[y] = SumAccounts([x \in Account |-> d2[x][y]])
  <2> DEFINE col == [x \in Account |-> d[x][y]]
             col2 == [x \in Account |-> d2[x][y]]
  <2>0. in[y] = SumAccounts(col)
    BY DEF Delegated
  <2>1. CASE y = b
    <3>1. col \in [Account -> Int] /\ col2 \in [Account -> Int] /\ col[a] = d[a][b] /\ col2[a] = w
          /\ \A x \in Account \ {a} : col2[x] = col[x]
      BY <1>1, <2>1
    <3> HIDE DEF col, col2
    <3>2. SumAccounts(col2) = SumAccounts(col) - col[a] + col2[a]
      BY <3>1, SumOneChanged
    <3>3. in2[y] = SumAccounts(col2)
      BY <2>0, <2>1, <3>1, <3>2
    <3>4. QED
      BY <3>3 DEF col2
  <2>2. CASE y # b
    <3>1. col2 = col
      BY <1>1, <2>2
    <3>2. QED
      BY <2>0, <2>2, <3>1
  <2>3. QED
    BY <2>1, <2>2
<1>4. QED
  BY <1>2, <1>3 DEF Delegated

(* delegate_resource stays within what the stake has free. *)
LEMMA InvDelegateResource ==
  ASSUME LedgerInv, NEW a \in Account, NEW b \in Account, NEW v \in Amounts,
         DelegateResource(a, b, v)
  PROVE  LedgerInv'
<1>1. /\ v \in Nat /\ Apply(a, 0) /\ balance' = Pay(a, 0) /\ delegatedOut[a] + v <= staked[a]
      /\ delegatedOut' = [delegatedOut EXCEPT ![a] = @ + v]
      /\ delegatedIn' = [delegatedIn EXCEPT ![b] = @ + v]
      /\ delegations' = [delegations EXCEPT ![a][b] = @ + v]
      /\ UNCHANGED <<staked, unbonding, voting, pending, vesting>>
  BY Constants DEF DelegateResource
<1>2. balance' \in [Account -> Nat]
  BY <1>1, PayFacts, ApplyFacts DEF LedgerInv
<1>3. /\ delegations \in [Account -> [Account -> Nat]] /\ delegatedOut \in [Account -> Nat]
      /\ delegatedIn \in [Account -> Nat] /\ staked \in [Account -> Nat]
  BY DEF LedgerInv, Types
<1>4. /\ delegatedOut' \in [Account -> Nat] /\ delegatedIn' \in [Account -> Nat]
      /\ delegations' \in [Account -> [Account -> Nat]]
  BY <1>1, <1>3
<1>5. Types'
  BY <1>1, <1>2, <1>4, ApplyFacts DEF LedgerInv, Types, voting
<1>6. Delegated(delegations', delegatedOut', delegatedIn')
  <2> DEFINE w == delegations[a][b] + v
  <2>1. w \in Nat /\ delegations' = [delegations EXCEPT ![a][b] = w]
    BY <1>1, <1>3
  <2>2. delegatedOut'[a] = delegatedOut[a] - delegations[a][b] + w
    BY <1>1, <1>3
  <2>3. delegatedIn'[b] = delegatedIn[b] - delegations[a][b] + w
    BY <1>1, <1>3
  <2>4. /\ \A x \in Account \ {a} : delegatedOut'[x] = delegatedOut[x]
        /\ \A x \in Account \ {b} : delegatedIn'[x] = delegatedIn[x]
    BY <1>1, <1>3
  <2>5. Delegated(delegations, delegatedOut, delegatedIn)
    BY DEF LedgerInv
  <2> HIDE DEF w
  <2>6. Moved(a, b, w, delegations, delegatedOut, delegatedIn,
              delegations', delegatedOut', delegatedIn')
    BY <1>3, <1>4, <2>1, <2>2, <2>3, <2>4 DEF Moved
  <2>7. QED
    BY <2>1, <2>2, <2>5, <2>6, DelegationChanged
<1>7. QED
  BY <1>1, <1>5, <1>6, ApplyFacts DEF LedgerInv, voting

(* undelegate_resource takes back no more than was delegated. *)
LEMMA InvUndelegateResource ==
  ASSUME LedgerInv, NEW a \in Account, NEW b \in Account, NEW v \in Amounts,
         UndelegateResource(a, b, v)
  PROVE  LedgerInv'
<1>1. /\ v \in Nat /\ Apply(a, 0) /\ balance' = Pay(a, 0) /\ delegations[a][b] >= v
      /\ delegatedOut' = [delegatedOut EXCEPT ![a] = @ - v]
      /\ delegatedIn' = [delegatedIn EXCEPT ![b] = @ - v]
      /\ delegations' = [delegations EXCEPT ![a][b] = @ - v]
      /\ UNCHANGED <<staked, unbonding, voting, pending, vesting>>
  BY Constants DEF UndelegateResource
<1>2. balance' \in [Account -> Nat]
  BY <1>1, PayFacts, ApplyFacts DEF LedgerInv
<1>3. /\ delegations \in [Account -> [Account -> Nat]] /\ delegatedOut \in [Account -> Nat]
      /\ delegatedIn \in [Account -> Nat] /\ staked \in [Account -> Nat]
  BY DEF LedgerInv, Types
<1>4. delegations[a][b] <= delegatedOut[a] /\ delegations[a][b] <= delegatedIn[b]
  <2> DEFINE col == [x \in Account |-> delegations[x][b]]
  <2>1. delegations[a] \in [Account -> Nat] /\ col \in [Account -> Nat] /\ col[a] = delegations[a][b]
    BY <1>3
  <2>2. delegations[a][b] <= SumAccounts(delegations[a])
    BY <2>1, SumAccountsFacts
  <2>3. delegatedOut[a] = SumAccounts(delegations[a]) /\ delegatedIn[b] = SumAccounts(col)
    BY DEF LedgerInv, Delegated
  <2> HIDE DEF col
  <2>4. col[a] <= SumAccounts(col)
    BY <2>1, SumAccountsFacts
  <2>5. QED
    BY <2>1, <2>2, <2>3, <2>4
<1>5. /\ delegatedOut' \in [Account -> Nat] /\ delegatedIn' \in [Account -> Nat]
      /\ delegations' \in [Account -> [Account -> Nat]]
  BY <1>1, <1>3, <1>4
<1>6. Types'
  BY <1>1, <1>2, <1>5, ApplyFacts DEF LedgerInv, Types, voting
<1>7. Delegated(delegations', delegatedOut', delegatedIn')
  <2> DEFINE w == delegations[a][b] - v
  <2>1. w \in Nat /\ delegations' = [delegations EXCEPT ![a][b] = w]
    BY <1>1, <1>3
  <2>2. delegatedOut'[a] = delegatedOut[a] - delegations[a][b] + w
    BY <1>1, <1>3
  <2>3. delegatedIn'[b] = delegatedIn[b] - delegations[a][b] + w
    BY <1>1, <1>3
  <2>4. /\ \A x \in Account \ {a} : delegatedOut'[x] = delegatedOut[x]
        /\ \A x \in Account \ {b} : delegatedIn'[x] = delegatedIn[x]
    BY <1>1, <1>3
  <2>5. Delegated(delegations, delegatedOut, delegatedIn)
    BY DEF LedgerInv
  <2> HIDE DEF w
  <2>6. Moved(a, b, w, delegations, delegatedOut, delegatedIn,
              delegations', delegatedOut', delegatedIn')
    BY <1>3, <1>5, <2>1, <2>2, <2>3, <2>4 DEF Moved
  <2>7. QED
    BY <2>1, <2>5, <2>6, DelegationChanged
<1>8. QED
  BY <1>1, <1>6, <1>7, ApplyFacts DEF LedgerInv, voting

-----------------------------------------------------------------------------
(* What the accumulator of c owes a, before the division. *)
Accrued(a, c) == votes[a][c] * (acc[c] - debt[a][c])

(* What is pending for a voter is natural: its debt is below the            *)
(* accumulator.                                                             *)
LEMMA PendingFacts ==
  ASSUME LedgerInv, NEW a \in Account
  PROVE  /\ \A c \in Account : /\ Accrued(a, c) \in Nat /\ Pendente(a, c) \in Nat
                               /\ Scale * Pendente(a, c) <= Accrued(a, c)
         /\ [c \in Account |-> Pendente(a, c)] \in [Account -> Nat]
         /\ SumFunction([c \in Account |-> Pendente(a, c)])
              = SumAccounts([c \in Account |-> Pendente(a, c)])
         /\ SumAccounts([c \in Account |-> Pendente(a, c)]) \in Nat
<1>1. ASSUME NEW c \in Account
      PROVE  /\ Accrued(a, c) \in Nat /\ Pendente(a, c) \in Nat
             /\ Scale * Pendente(a, c) <= Accrued(a, c)
  <2>1. votes[a][c] \in Nat /\ acc[c] \in Nat /\ debt[a][c] \in Nat /\ debt[a][c] <= acc[c]
    BY DEF LedgerInv, Types, Settled
  <2>2. acc[c] - debt[a][c] \in Nat
    BY <2>1
  <2>3. Accrued(a, c) \in Nat
    BY <2>1, <2>2 DEF Accrued
  <2>4. Scale \in Nat \ {0} /\ Pendente(a, c) = Accrued(a, c) \div Scale
    BY Constants DEF Pendente, Accrued
  <2>5. QED
    BY <2>3, <2>4, Division
<1> DEFINE f == [c \in Account |-> Pendente(a, c)]
<1>2. f \in [Account -> Nat]
  BY <1>1
<1> HIDE DEF f
<1>3. SumFunction(f) = SumAccounts(f) /\ SumAccounts(f) \in Nat
  BY <1>2, SumAccountsFacts
<1>4. QED
  BY <1>1, <1>2, <1>3 DEF f

(* vote replaces an allotment: the old one was counted. *)
LEMMA InvVote ==
  ASSUME LedgerInv, NEW a \in Account, NEW alloc \in Allotments(a), Vote(a, alloc)
  PROVE  LedgerInv'
<1> DEFINE got == SumFunction([c \in Account |-> Pendente(a, c)])
<1>0. alloc \in [Account -> Nat]
  <2>1. Amounts \union {0} \subseteq Nat
    BY Constants
  <2>2. alloc \in [Account -> Amounts \union {0}]
    BY DEF Allotments
  <2>3. QED
    BY <2>1, <2>2
<1>1. /\ Apply(a, 0) /\ balance' = [Pay(a, 0) EXCEPT ![a] = @ + got]
      /\ SumFunction(alloc) <= staked[a]
      /\ debt' = [debt EXCEPT ![a] = Debito(a, alloc)]
      /\ candidateVotes' = Contados(a, alloc) /\ votes' = [votes EXCEPT ![a] = alloc]
      /\ UNCHANGED <<staked, unbonding, pending, delegating, vesting>>
  BY DEF Vote
<1>2. got \in Nat
  BY PendingFacts
<1> HIDE DEF got
<1>3. balance' \in [Account -> Nat]
  BY <1>1, <1>2, PayFacts, ApplyFacts, Credit DEF LedgerInv
<1>4. /\ votes \in [Account -> [Account -> Nat]] /\ debt \in [Account -> [Account -> Nat]]
      /\ acc \in [Account -> Nat] /\ candidateVotes \in [Account -> Nat]
  BY DEF LedgerInv, Types
<1>5. Debito(a, alloc) \in [Account -> Nat]
      /\ \A c \in Account : Debito(a, alloc)[c] \in {acc[c], debt[a][c]}
  BY <1>4 DEF Debito
<1>6. debt' \in [Account -> [Account -> Nat]] /\ votes' \in [Account -> [Account -> Nat]]
  BY <1>0, <1>1, <1>4, <1>5
<1>7. ASSUME NEW c \in Account
      PROVE  /\ candidateVotes'[c] = SumAccounts([x \in Account |-> votes'[x][c]])
             /\ candidateVotes'[c] \in Nat
  <2> DEFINE col == [x \in Account |-> votes[x][c]]
             col2 == [x \in Account |-> votes'[x][c]]
  <2>1. /\ col \in [Account -> Int] /\ col2 \in [Account -> Int] /\ col2 \in [Account -> Nat]
        /\ col[a] = votes[a][c] /\ col2[a] = alloc[c]
        /\ \A x \in Account \ {a} : col2[x] = col[x]
    BY <1>0, <1>1, <1>4, <1>6
  <2>2. candidateVotes[c] = SumAccounts(col)
    BY DEF LedgerInv, Counted
  <2>3. candidateVotes'[c] = candidateVotes[c] - votes[a][c] + alloc[c]
    BY <1>1 DEF Contados
  <2> HIDE DEF col, col2
  <2>4. SumAccounts(col2) = SumAccounts(col) - col[a] + col2[a]
    BY <2>1, SumOneChanged
  <2>5. SumAccounts(col2) \in Nat
    BY <2>1, SumAccountsFacts
  <2>6. candidateVotes'[c] = SumAccounts(col2) /\ candidateVotes'[c] \in Nat
    BY <2>1, <2>2, <2>3, <2>4, <2>5
  <2>7. QED
    BY <2>6 DEF col2
<1>8. candidateVotes' \in [Account -> Nat]
  BY <1>1, <1>7 DEF Contados
<1>9. Types'
  BY <1>1, <1>3, <1>6, <1>8, ApplyFacts DEF LedgerInv, Types, delegating
<1>10. Counted(votes', candidateVotes')
  BY <1>7 DEF Counted
<1>12. Settled(debt', acc)
  <2>1. ASSUME NEW b \in Account, NEW c \in Account PROVE debt'[b][c] <= acc[c]
    <3>1. acc[c] \in Nat /\ debt[b][c] <= acc[c]
      BY <1>4 DEF LedgerInv, Settled
    <3>2. debt'[b][c] \in {acc[c], debt[b][c]}
      BY <1>1, <1>4, <1>5
    <3>3. QED
      BY <3>1, <3>2
  <2>2. QED
    BY <2>1 DEF Settled
<1>13. QED
  BY <1>1, <1>9, <1>10, <1>12, ApplyFacts DEF LedgerInv, delegating

(* claim_voter_reward settles a debt and moves no votes. *)
LEMMA InvClaimVoterReward ==
  ASSUME LedgerInv, NEW a \in Account, NEW c \in Account, ClaimVoterReward(a, c)
  PROVE  LedgerInv'
<1>1. /\ Apply(a, 0) /\ balance' = [Pay(a, 0) EXCEPT ![a] = @ + Pendente(a, c)]
      /\ debt' = [debt EXCEPT ![a][c] = acc[c]]
      /\ UNCHANGED <<staked, unbonding, votes, candidateVotes, pending, delegating, vesting>>
  BY DEF ClaimVoterReward
<1>2. Pendente(a, c) \in Nat
  BY PendingFacts
<1>3. balance' \in [Account -> Nat]
  BY <1>1, <1>2, PayFacts, ApplyFacts, Credit DEF LedgerInv
<1>4. debt \in [Account -> [Account -> Nat]] /\ acc \in [Account -> Nat]
  BY DEF LedgerInv, Types
<1>5. debt' \in [Account -> [Account -> Nat]]
  BY <1>1, <1>4
<1>6. Types'
  BY <1>1, <1>3, <1>5, ApplyFacts DEF LedgerInv, Types, delegating
<1>7. Settled(debt', acc)
  <2>1. ASSUME NEW x \in Account, NEW y \in Account PROVE debt'[x][y] <= acc[y]
    <3>1. acc[y] \in Nat /\ debt[x][y] <= acc[y]
      BY <1>4 DEF LedgerInv, Settled
    <3>2. debt'[x][y] \in {acc[y], debt[x][y]}
      BY <1>1, <1>4
    <3>3. QED
      BY <3>1, <3>2
  <2>2. QED
    BY <2>1 DEF Settled
<1>8. QED
  BY <1>1, <1>6, <1>7, ApplyFacts DEF LedgerInv, delegating

-----------------------------------------------------------------------------
(* The withdrawals of a, and what a penalty leaves of them. *)
Own(a) == {e \in unbonding : e.owner = a}

Before(a, e) == Value({d \in unbonding : d.owner = a /\ d.id < e.id})

LeftOf(a, rest, e) ==
  IF e.owner # a THEN e.value ELSE Excess(e.value, Excess(rest, Before(a, e)))

Cut(a, rest, e) == [e EXCEPT !.value = LeftOf(a, rest, e)]

(* The queue after a slash: the withdrawals that keep something. *)
LEMMA QueueAfter ==
  ASSUME NEW a, NEW rest
  PROVE  FilaApos(a, rest) = {Cut(a, rest, e) : e \in {d \in unbonding : LeftOf(a, rest, d) > 0}}
  BY DEF FilaApos, LeftOf, Before, Cut

(* What an account has at risk is its stake and its withdrawals. *)
LEMMA OwnFacts ==
  ASSUME LedgerInv, NEW a \in Account
  PROVE  /\ IsFiniteSet(Own(a)) /\ Own(a) \subseteq Withdrawal /\ Value(Own(a)) \in Nat
         /\ \A e \in unbonding : Before(a, e) \in Nat
         /\ EmRisco(a) = staked[a] + Value(Own(a)) /\ EmRisco(a) \in Nat /\ staked[a] \in Nat
<1>1. IsFiniteSet(unbonding) /\ unbonding \subseteq Withdrawal /\ staked[a] \in Nat
  BY DEF LedgerInv, Queue, Types
<1>2. \A r \in SUBSET unbonding : IsFiniteSet(r) /\ r \subseteq Withdrawal
  BY <1>1, FS_Subset
<1>3. \A r \in SUBSET unbonding : Value(r) \in Nat
  BY <1>2, ValueFacts
<1>4. Own(a) \in SUBSET unbonding
      /\ \A e \in unbonding : {d \in unbonding : d.owner = a /\ d.id < e.id} \in SUBSET unbonding
  BY DEF Own
<1>5. EmRisco(a) = staked[a] + Value(Own(a))
  BY DEF EmRisco, Own
<1>6. QED
  BY <1>1, <1>2, <1>3, <1>4, <1>5 DEF Before

(* What is left of the queue is a queue. *)
LEMMA QueueAfterOk ==
  ASSUME LedgerInv, NEW a \in Account, NEW rest \in Nat
  PROVE  Queue(FilaApos(a, rest), txs, height)
<1> DEFINE S == {d \in unbonding : LeftOf(a, rest, d) > 0}
           cut == [e \in S |-> Cut(a, rest, e)]
           q == {Cut(a, rest, e) : e \in S}
<1>1. Queue(unbonding, txs, height)
  BY DEF LedgerInv
<1>2. ASSUME NEW e \in S
      PROVE  /\ Cut(a, rest, e) \in Withdrawal
             /\ Cut(a, rest, e).id = e.id /\ Cut(a, rest, e).at = e.at
  <2>1. e \in unbonding /\ e \in Withdrawal /\ LeftOf(a, rest, e) > 0
    BY <1>1 DEF Queue
  <2>2. LeftOf(a, rest, e) \in Nat
    BY <2>1, OwnFacts DEF LeftOf, Excess, Withdrawal
  <2>3. QED
    BY <2>1, <2>2 DEF Cut, Withdrawal
<1>3. IsFiniteSet(q)
  <2>1. S \subseteq unbonding /\ IsFiniteSet(S)
    BY <1>1, FS_Subset DEF Queue
  <2>2. cut \in Surjection(S, q)
    BY DEF Surjection
  <2>3. QED
    BY <2>1, <2>2, FS_Surjection
<1>4. Queue(q, txs, height)
  <2> HIDE DEF cut
  <2>1. \A x \in q : \E e \in unbonding : x = Cut(a, rest, e) /\ x \in Withdrawal /\ x.id = e.id /\ x.at = e.at
    BY <1>2
  <2>2. q \subseteq Withdrawal
    BY <2>1
  <2> HIDE DEF q
  <2>3. ASSUME NEW x \in q, NEW y \in q, x.id = y.id
        PROVE  x = y
    <3>1. PICK d \in unbonding : x = Cut(a, rest, d) /\ x.id = d.id
      BY <2>1
    <3>2. PICK e \in unbonding : y = Cut(a, rest, e) /\ y.id = e.id
      BY <2>1
    <3>3. d = e
      BY <1>1, <2>3, <3>1, <3>2 DEF Queue
    <3>4. QED
      BY <3>1, <3>2, <3>3
  <2>4. \A x \in q : x.id < txs /\ x.at >= height
    BY <1>1, <2>1 DEF Queue
  <2>5. QED
    BY <1>3, <2>2, <2>3, <2>4 DEF Queue
<1>5. QED
  BY <1>4, QueueAfter

(* The penalty comes off a's withdrawals in full, and off nobody else's. *)
LEMMA QueueAfterWorth ==
  ASSUME LedgerInv, NEW a \in Account, NEW rest \in Nat, rest <= Value(Own(a))
  PROVE  /\ Value({e \in FilaApos(a, rest) : e.owner = a}) = Value(Own(a)) - rest
         /\ {e \in FilaApos(a, rest) : e.owner # a} = {e \in unbonding : e.owner # a}
<1> DEFINE O == Own(a)
           S == {e \in O : LeftOf(a, rest, e) > 0}
           q == {e \in FilaApos(a, rest) : e.owner = a}
           f == [e \in O |-> e.value]
           key == [e \in O |-> e.id]
           lost == [e \in O |-> Least(e.value, Excess(rest, Before(a, e)))]
           left == [e \in O |-> LeftOf(a, rest, e)]
           m == [e \in S |-> Cut(a, rest, e)]
           w == [e \in q |-> e.value]
<1>1. Queue(unbonding, txs, height) /\ IsFiniteSet(O) /\ O \subseteq unbonding /\ O \subseteq Withdrawal
  BY OwnFacts DEF LedgerInv, Own
<1>2. ASSUME NEW e \in unbonding
      PROVE  /\ e \in Withdrawal /\ e.value \in Nat \ {0} /\ e.id \in Nat /\ Before(a, e) \in Nat
             /\ LeftOf(a, rest, e) \in Nat
             /\ e.owner # a => LeftOf(a, rest, e) = e.value /\ Cut(a, rest, e) = e
             /\ e.owner = a => LeftOf(a, rest, e) = e.value - Least(e.value, Excess(rest, Before(a, e)))
             /\ Cut(a, rest, e).value = LeftOf(a, rest, e)
             /\ Cut(a, rest, e).id = e.id /\ Cut(a, rest, e).owner = e.owner
  <2>1. e \in Withdrawal
    BY <1>1 DEF Queue
  <2>2. e.value \in Nat \ {0} /\ e.id \in Nat /\ Before(a, e) \in Nat
    BY <2>1, OwnFacts DEF Withdrawal
  <2>3. /\ LeftOf(a, rest, e) \in Nat
        /\ e.owner # a => LeftOf(a, rest, e) = e.value
        /\ e.owner = a => LeftOf(a, rest, e) = e.value - Least(e.value, Excess(rest, Before(a, e)))
    BY <2>2 DEF LeftOf, Excess, Least
  <2>4. /\ Cut(a, rest, e).value = LeftOf(a, rest, e)
        /\ Cut(a, rest, e).id = e.id /\ Cut(a, rest, e).owner = e.owner
    BY <2>1 DEF Cut, Withdrawal
  <2>5. e.owner # a => Cut(a, rest, e) = e
    <3>1. ASSUME NEW r \in Withdrawal, NEW v, v = r.value PROVE [r EXCEPT !.value = v] = r
      BY <3>1 DEF Withdrawal
    <3>2. ASSUME LeftOf(a, rest, e) = e.value PROVE Cut(a, rest, e) = e
      BY <2>1, <3>1, <3>2, Zenon DEF Cut
    <3>3. QED
      BY <2>3, <3>2
  <2>6. QED
    BY <2>1, <2>2, <2>3, <2>4, <2>5
<1>3. {e \in FilaApos(a, rest) : e.owner # a} = {e \in unbonding : e.owner # a}
  BY <1>2, QueueAfter
<1>4. q = {m[e] : e \in S}
  <2>1. \A e \in S : m[e] = Cut(a, rest, e)
    OBVIOUS
  <2>2. \A e \in unbonding : Cut(a, rest, e).owner = a <=> e \in O
    BY <1>2 DEF Own
  <2>3. QED
    BY <1>1, <2>1, <2>2, QueueAfter
<1>5. SumFunctionOnSet(lost, O) = Least(rest, SumFunctionOnSet(f, O))
  <2>1. f \in [O -> Nat] /\ key \in [O -> Nat]
    BY <1>1, <1>2
  <2>2. lost \in [O -> Nat]
    <3>1. \A e \in O : Least(e.value, Excess(rest, Before(a, e))) \in Nat
      BY <1>1, <1>2 DEF Least, Excess
    <3>2. QED
      BY <3>1
  <2>3. \A d, e \in O : key[d] = key[e] => d = e
    BY <1>1 DEF Queue
  <2>4. ASSUME NEW e \in O
        PROVE  lost[e] = Least(f[e], Excess(rest, SumFunctionOnSet(f, {d \in O : key[d] < key[e]})))
    <3> DEFINE B == {d \in O : key[d] < key[e]}
               v == [d \in B |-> d.value]
    <3>1. B = {d \in unbonding : d.owner = a /\ d.id < e.id}
      BY DEF Own
    <3>2. B \subseteq O /\ IsFiniteSet(B)
      BY <1>1, FS_Subset
    <3>3. v \in [B -> Nat] /\ \A d \in B : v[d] = f[d]
      BY <1>1, <1>2, <3>2
    <3>4. Before(a, e) = SumFunction(v)
      BY <3>1 DEF Before, Value
    <3> HIDE DEF B, v, f
    <3>5. SumFunction(v) = SumFunctionOnSet(v, B) /\ SumFunctionOnSet(v, B) = SumFunctionOnSet(f, B)
      BY <3>2, <3>3, SumFunctionIs, SumSame
    <3>6. Before(a, e) = SumFunctionOnSet(f, B)
      BY <3>4, <3>5
    <3>7. lost[e] = Least(e.value, Excess(rest, Before(a, e))) /\ f[e] = e.value
      BY DEF f
    <3>8. QED
      BY <3>6, <3>7 DEF B
  <2> HIDE DEF f, key, lost, O
  <2>5. \A e \in O : lost[e] = Least(f[e], Excess(rest, SumFunctionOnSet(f, {d \in O : key[d] < key[e]})))
    BY <2>4
  <2>6. IsFiniteSet(O) /\ Greedily(O, f, key, rest, lost)
    BY <1>1, <2>1, <2>2, <2>3, <2>5 DEF Greedily
  <2>7. QED
    BY <2>6, Greedy
<1>6. SumFunctionOnSet(f, O) = Value(O)
  <2>1. f \in [O -> Nat]
    BY <1>1, <1>2
  <2>2. QED
    BY <2>1, SumFunctionIs DEF Value
<1>7. SumFunctionOnSet(left, O) = SumFunctionOnSet(f, O) - SumFunctionOnSet(lost, O)
  <2>1. \A e \in O : f[e] \in Int /\ lost[e] \in Int /\ left[e] = f[e] - lost[e]
    <3>1. TAKE e \in O
    <3>2. e \in unbonding /\ e.owner = a
      BY DEF Own
    <3>3. e.value \in Nat /\ Least(e.value, Excess(rest, Before(a, e))) \in Int
          /\ LeftOf(a, rest, e) = e.value - Least(e.value, Excess(rest, Before(a, e)))
      BY <1>2, <3>2 DEF Least, Excess
    <3>4. QED
      BY <3>3
  <2> HIDE DEF f, lost, left
  <2>2. QED
    BY <1>1, <2>1, SumMinus
<1>8. SumFunctionOnSet(left, S) = SumFunctionOnSet(left, O)
  <2>1. S \in SUBSET O
    OBVIOUS
  <2>2. \A e \in O : left[e] \in Int
    BY <1>1, <1>2
  <2>3. \A e \in O \ S : left[e] = 0
    BY <1>1, <1>2
  <2> HIDE DEF left, S, O
  <2>4. QED
    BY <1>1, <2>1, <2>2, <2>3, SumSubset
<1>9. SumFunctionOnSet(w, {m[e] : e \in S}) = SumFunctionOnSet(left, S)
  <2>1. IsFiniteSet(S)
    BY <1>1, FS_Subset
  <2>2. \A x, y \in S : m[x] = m[y] => x = y
    BY <1>1, <1>2 DEF Queue
  <2>3. \A e \in S : w[m[e]] \in Int /\ left[e] = w[m[e]]
    <3>1. TAKE e \in S
    <3>2. e \in unbonding /\ m[e] = Cut(a, rest, e) /\ left[e] = LeftOf(a, rest, e)
      BY <1>1
    <3>3. m[e] \in q
      BY <1>4
    <3>4. w[m[e]] = m[e].value
      BY <3>3
    <3>5. QED
      BY <1>2, <3>2, <3>4
  <2> HIDE DEF w, m, S, left
  <2>4. QED
    BY <2>1, <2>2, <2>3, SumImage
<1>10. SumFunctionOnSet(w, q) = Value(q)
  <2>1. \A e \in q : e.value \in Nat
    BY <1>2, QueueAfter
  <2>2. w \in [q -> Nat]
    BY <2>1
  <2>3. QED
    BY <2>2, SumFunctionIs DEF Value
<1>11. Value(O) \in Nat /\ rest <= Value(O)
  BY OwnFacts
<1> HIDE DEF O, S, q, f, key, lost, left, m, w
<1>12. Value(q) = Value(O) - rest
  BY <1>4, <1>5, <1>6, <1>7, <1>8, <1>9, <1>10, <1>11 DEF Least
<1>13. QED
  BY <1>3, <1>12 DEF q, O

(* The parts of a penalty. *)
LEMMA PenaltyFacts ==
  ASSUME LedgerInv, NEW a \in Account
  PROVE  /\ Penalidade(a) \in Nat
         /\ (Penalidade(a) * ReporterPct) \div 100 \in 0..Penalidade(a)
         /\ DoStake(a, Penalidade(a)) \in 0..staked[a]
         /\ Penalidade(a) - DoStake(a, Penalidade(a)) \in 0..Value(Own(a))
<1> DEFINE p == Penalidade(a)
<1>1. /\ EmRisco(a) \in Nat /\ EmRisco(a) = staked[a] + Value(Own(a)) /\ staked[a] \in Nat
      /\ Value(Own(a)) \in Nat
  BY OwnFacts
<1>2. p \in 0..EmRisco(a)
  BY <1>1, Constants, Percentage DEF Penalidade
<1> HIDE DEF p
<1>3. p \in Nat
  BY <1>1, <1>2
<1>4. (p * ReporterPct) \div 100 \in 0..p
  BY <1>3, Constants, Percentage
<1>5. DoStake(a, p) \in 0..staked[a] /\ p - DoStake(a, p) \in 0..Value(Own(a))
  BY <1>1, <1>2, <1>3 DEF DoStake, Least
<1>6. QED
  BY <1>3, <1>4, <1>5 DEF p

(* What is revoked is the excess of the delegations over the stake. *)
LEMMA RevokedFacts ==
  ASSUME LedgerInv, NEW a \in Account, NEW left \in Nat
  PROVE  /\ Revogado(a, left) \in [Account -> Nat]
         /\ \A b \in Account : Revogado(a, left)[b] <= delegations[a][b]
         /\ SumAccounts(Revogado(a, left)) = Excess(delegatedOut[a], left)
<1> DEFINE f == delegations[a]
           x == Excess(delegatedOut[a], left)
           key == [b \in Account |-> b]
           lost == Revogado(a, left)
<1>1. f \in [Account -> Nat] /\ delegatedOut[a] \in Nat /\ delegatedOut[a] = SumAccounts(f)
  BY DEF LedgerInv, Types, Delegated
<1>2. x \in Nat /\ x <= delegatedOut[a]
  BY <1>1 DEF Excess
<1>3. IsFiniteSet(Account) /\ key \in [Account -> Nat] /\ Account \subseteq Nat
  BY Constants
<1>4. ASSUME NEW b \in Account
      PROVE  /\ {c \in Account : key[c] < key[b]} = {c \in Account : c < b}
             /\ SumFunctionOnSet(f, {c \in Account : c < b}) \in Nat
             /\ lost[b] = Least(f[b], Excess(x, SumFunctionOnSet(f, {c \in Account : c < b})))
  <2>1. IsFiniteSet({c \in Account : c < b})
    BY <1>3, FS_Subset
  <2>2. SumFunctionOnSet(f, {c \in Account : c < b}) \in Nat
    BY <1>1, <2>1, SumNat
  <2>3. QED
    BY <2>2 DEF Revogado
<1>5. \A b \in Account : lost[b] \in Nat /\ lost[b] <= f[b]
  <2> HIDE DEF x, f, lost
  <2>1. TAKE b \in Account
  <2>2. f[b] \in Nat
    BY <1>1
  <2>3. PICK s \in Nat : lost[b] = Least(f[b], Excess(x, s))
    BY <1>4
  <2>4. QED
    BY <1>2, <2>2, <2>3 DEF Least, Excess
<1>6. lost \in [Account -> Nat]
  BY <1>5 DEF Revogado
<1> HIDE DEF x, f, lost
<1>7. Greedily(Account, f, key, x, lost)
  <2>1. \A b \in Account : lost[b] =
          Least(f[b], Excess(x, SumFunctionOnSet(f, {c \in Account : key[c] < key[b]})))
    BY <1>4
  <2>2. \A b, c \in Account : key[b] = key[c] => b = c
    OBVIOUS
  <2> HIDE DEF key
  <2>3. QED
    BY <1>1, <1>3, <1>6, <2>1, <2>2 DEF Greedily
<1> HIDE DEF key
<1>8. SumAccounts(lost) = Least(x, SumAccounts(f))
  BY <1>2, <1>3, <1>7, Greedy DEF SumAccounts
<1>9. SumAccounts(lost) = x
  BY <1>1, <1>2, <1>8 DEF Least
<1>10. QED
  BY <1>5, <1>6, <1>9 DEF x, f, lost

(* slash_double_sign takes from stake, then queue, and revokes              *)
(* delegations.                                                             *)
LEMMA InvSlashDoubleSign ==
  ASSUME LedgerInv, NEW r \in Account, NEW a \in Account, NEW h, SlashDoubleSign(r, a, h)
  PROVE  LedgerInv'
<1> DEFINE penalty == Penalidade(a)
           reward == (penalty * ReporterPct) \div 100
           left == staked[a] - DoStake(a, penalty)
           rest == penalty - DoStake(a, penalty)
           lost == Revogado(a, left)
<1>1. /\ <<a, h>> \in Offences
      /\ staked' = [staked EXCEPT ![a] = left]
      /\ unbonding' = FilaApos(a, rest)
      /\ delegations' = [delegations EXCEPT ![a] = [b \in Account |-> delegations[a][b] - lost[b]]]
      /\ delegatedIn' = [b \in Account |-> Excess(delegatedIn[b], lost[b])]
      /\ delegatedOut' = [delegatedOut EXCEPT ![a] = Least(delegatedOut[a], left)]
      /\ burned' = burned + (penalty - reward) + Fee
      /\ balance' = [balance EXCEPT ![r] = @ + reward]
      /\ slashed' = slashed \union {<<a, h>>} /\ txs' = txs + 1
      /\ UNCHANGED <<voting, rewards, block, pending, vesting, shared>>
  BY DEF SlashDoubleSign
<1>2. /\ balance \in [Account -> Nat] /\ staked \in [Account -> Nat]
      /\ delegations \in [Account -> [Account -> Nat]] /\ delegatedOut \in [Account -> Nat]
      /\ delegatedIn \in [Account -> Nat] /\ burned \in Nat /\ Fee \in Nat /\ txs \in Nat
      /\ height \in Nat /\ slashed \subseteq Offences /\ IsFiniteSet(slashed)
  BY Constants DEF LedgerInv, Types
<1>3. penalty \in Nat /\ reward \in 0..penalty /\ DoStake(a, penalty) \in 0..staked[a]
      /\ rest \in 0..Value(Own(a)) /\ Value(Own(a)) \in Nat
  BY PenaltyFacts, OwnFacts
<1> HIDE DEF penalty, reward
<1>4. left \in Nat /\ left <= staked[a] /\ rest \in Nat
  BY <1>2, <1>3
<1> HIDE DEF left, rest
<1>5. lost \in [Account -> Nat] /\ (\A b \in Account : lost[b] <= delegations[a][b])
      /\ SumAccounts(lost) = Excess(delegatedOut[a], left)
  BY <1>4, RevokedFacts
<1> HIDE DEF lost
<1>6. staked' \in [Account -> Nat] /\ staked'[a] = left
      /\ \A b \in Account \ {a} : staked'[b] = staked[b]
  BY <1>1, <1>2, <1>4
<1>7. ASSUME NEW b \in Account
      PROVE  delegations[a][b] <= delegatedIn[b] /\ delegations[a][b] \in Nat
             /\ delegatedIn'[b] = delegatedIn[b] - lost[b] /\ delegatedIn'[b] \in Nat
  <2> DEFINE col == [c \in Account |-> delegations[c][b]]
  <2>1. delegatedIn[b] = SumAccounts(col) /\ col \in [Account -> Nat] /\ col[a] = delegations[a][b]
    BY <1>2 DEF LedgerInv, Delegated
  <2> HIDE DEF col
  <2>2. delegations[a][b] <= delegatedIn[b]
    BY <2>1, SumAccountsFacts
  <2>3. delegatedIn[b] \in Nat /\ lost[b] \in Nat /\ lost[b] <= delegations[a][b]
        /\ delegations[a][b] \in Nat /\ delegatedIn'[b] = Excess(delegatedIn[b], lost[b])
    BY <1>1, <1>2, <1>5
  <2>4. QED
    BY <2>2, <2>3 DEF Excess
<1> DEFINE row == [b \in Account |-> delegations[a][b] - lost[b]]
<1>8. row \in [Account -> Nat] /\ delegations' = [delegations EXCEPT ![a] = row]
  BY <1>1, <1>2, <1>5
<1> HIDE DEF row
<1>9. /\ delegations' \in [Account -> [Account -> Nat]] /\ delegations'[a] = row
      /\ \A b \in Account \ {a} : delegations'[b] = delegations[b]
  BY <1>2, <1>8
<1>10. delegatedOut' \in [Account -> Nat] /\ delegatedOut'[a] = Least(delegatedOut[a], left)
       /\ \A b \in Account \ {a} : delegatedOut'[b] = delegatedOut[b]
  BY <1>1, <1>2, <1>4 DEF Least
<1>11. delegatedIn' \in [Account -> Nat]
  BY <1>1, <1>7
<1>12. Delegated(delegations', delegatedOut', delegatedIn')
  <2>1. SumAccounts(row) = SumAccounts(delegations[a]) - SumAccounts(lost)
    <3>1. \A b \in Account : delegations[a][b] \in Int /\ lost[b] \in Int
                             /\ row[b] = delegations[a][b] - lost[b]
      BY <1>2, <1>5 DEF row
    <3>2. IsFiniteSet(Account)
      BY Constants
    <3>3. SumFunctionOnSet(row, Account)
            = SumFunctionOnSet(delegations[a], Account) - SumFunctionOnSet(lost, Account)
      <4> DEFINE f == delegations[a]
      <4>1. \A b \in Account : f[b] \in Int /\ lost[b] \in Int /\ row[b] = f[b] - lost[b]
        BY <3>1
      <4> HIDE DEF f
      <4>2. SumFunctionOnSet(row, Account) = SumFunctionOnSet(f, Account) - SumFunctionOnSet(lost, Account)
        BY <3>2, <4>1, SumMinus
      <4>3. QED
        BY <4>2 DEF f
    <3>4. QED
      BY <3>3 DEF SumAccounts
  <2>2. delegatedOut[a] = SumAccounts(delegations[a]) /\ delegatedOut[a] \in Nat
    BY <1>2 DEF LedgerInv, Delegated
  <2>3. delegatedOut'[a] = SumAccounts(delegations'[a])
    BY <1>4, <1>5, <1>6, <1>9, <1>10, <2>1, <2>2 DEF Least, Excess
  <2>4. ASSUME NEW b \in Account \ {a}
        PROVE  delegatedOut'[b] = SumAccounts(delegations'[b])
    BY <1>6, <1>9, <1>10 DEF LedgerInv, Delegated
  <2>5. ASSUME NEW b \in Account
        PROVE  delegatedIn'[b] = SumAccounts([c \in Account |-> delegations'[c][b]])
    <3> DEFINE col == [c \in Account |-> delegations[c][b]]
               col2 == [c \in Account |-> delegations'[c][b]]
    <3>1. /\ col \in [Account -> Int] /\ col2 \in [Account -> Int]
          /\ col[a] = delegations[a][b] /\ col2[a] = delegations[a][b] - lost[b]
          /\ \A c \in Account \ {a} : col2[c] = col[c]
      BY <1>2, <1>9 DEF row
    <3>2. delegatedIn[b] = SumAccounts(col)
      BY DEF LedgerInv, Delegated
    <3>3. lost[b] \in Nat /\ delegations[a][b] \in Nat
      BY <1>2, <1>5
    <3> HIDE DEF col, col2
    <3>4. SumAccounts(col) \in Int /\ SumAccounts(col2) = SumAccounts(col) - col[a] + col2[a]
      BY <3>1, SumOneChanged
    <3>5. delegatedIn'[b] = SumAccounts(col2)
      BY <1>7, <3>1, <3>2, <3>3, <3>4
    <3>6. QED
      BY <3>5 DEF col2
  <2>6. QED
    BY <2>3, <2>4, <2>5 DEF Delegated
<1>14. balance' \in [Account -> Nat]
  BY <1>1, <1>2, <1>3, Credit
<1>15. burned' \in Nat /\ txs' \in Nat /\ slashed' \subseteq Offences /\ IsFiniteSet(slashed')
  <2>1. penalty - reward \in Nat
    BY <1>3
  <2>2. IsFiniteSet(slashed')
    BY <1>1, <1>2, FS_AddElement
  <2>3. burned' \in Nat /\ txs' \in Nat
    BY <1>1, <1>2, <2>1
  <2>4. QED
    BY <1>1, <1>2, <2>2, <2>3
<1>16. Types'
  BY <1>1, <1>6, <1>9, <1>10, <1>11, <1>14, <1>15 DEF LedgerInv, Types, voting, rewards, block
<1>17. Queue(unbonding', txs', height') /\ Grants(vesting', txs')
  <2>1. Queue(unbonding', txs, height)
    BY <1>1, <1>4, QueueAfterOk
  <2>2. \A e \in unbonding' : e.id \in Nat /\ e.id < txs'
    BY <1>1, <1>2, <2>1 DEF Queue, Withdrawal
  <2>3. Grants(vesting, txs) /\ \A x \in vesting : x.id \in Nat /\ x.id < txs'
    BY <1>1, <1>2 DEF LedgerInv, Grants, Grant
  <2>4. height' = height /\ vesting' = vesting
    BY <1>1 DEF block
  <2>5. QED
    BY <2>1, <2>2, <2>3, <2>4 DEF Queue, Grants
<1>18. Counted(votes', candidateVotes') /\ Settled(debt', acc') /\ votes' = votes
  BY <1>1 DEF LedgerInv, voting, rewards
<1>19. QED
  BY <1>12, <1>16, <1>17, <1>18 DEF LedgerInv

-----------------------------------------------------------------------------
(* What distribute_block_reward gives to each is natural. *)
LEMMA DistributionFacts ==
  ASSUME LedgerInv, NEW p \in Account
  PROVE  /\ Distribution(p).treasury \in Nat /\ Distribution(p).producer \in Nat
         /\ Distribution(p).inc \in Nat
<1> DEFINE cut == (Reward * TreasuryPct) \div 100
           net == Reward - cut
           fee == (net * commission[p]) \div 100
           share == net - fee
           cv == candidateVotes[p]
           inc == (share * Scale) \div cv
           back == (inc * cv) \div Scale
<1>1. /\ Reward \in Nat /\ TreasuryPct \in 0..100 /\ Scale \in Nat \ {0}
      /\ commission[p] \in 0..100 /\ cv \in Nat
  BY Constants DEF LedgerInv, Types
<1> HIDE DEF cv
<1>2. cut \in 0..Reward
  BY <1>1, Percentage
<1> HIDE DEF cut
<1>3. net \in Nat /\ cut + net = Reward /\ cut \in Nat
  BY <1>1, <1>2
<1> HIDE DEF net
<1>4. fee \in 0..net
  BY <1>1, <1>3, Percentage
<1> HIDE DEF fee
<1>5. share \in 0..net /\ share \in Nat
  BY <1>3, <1>4
<1> HIDE DEF share
<1>6. CASE cv = 0 \/ net = 0
  <2>1. Distribution(p) = [treasury |-> cut, producer |-> net, inc |-> 0]
    BY <1>6 DEF Distribution, cut, net, cv
  <2>2. QED
    BY <1>3, <2>1
<1>7. CASE ~(cv = 0 \/ net = 0)
  <2>1. Distribution(p) = [treasury |-> cut, inc |-> inc, producer |-> net - back]
    BY <1>7 DEF Distribution, cut, net, cv, share, fee
  <2>2. share * Scale \in Nat /\ cv \in Nat \ {0}
    BY <1>1, <1>5, <1>7
  <2>3. inc \in Nat /\ cv * inc <= share * Scale
    BY <2>2, Division
  <2> HIDE DEF inc
  <2>4. inc * cv \in Nat /\ inc * cv <= share * Scale
    BY <1>1, <1>5, <2>3
  <2>5. back \in Nat /\ Scale * back <= inc * cv
    BY <1>1, <2>4, Division
  <2> DEFINE given == inc * cv
  <2> HIDE DEF back, given
  <2>6. given \in Nat /\ given <= share * Scale /\ Scale * back <= given
    BY <2>4, <2>5 DEF given
  <2>7. back <= share
    <3>1. Scale * back <= share * Scale
      BY <1>1, <1>5, <2>5, <2>6
    <3>2. SUFFICES ASSUME back >= share + 1 PROVE FALSE
      BY <1>5, <2>5
    <3>3. Scale * back >= Scale * (share + 1)
      BY <1>1, <1>5, <2>5, <3>2
    <3>4. Scale * (share + 1) = share * Scale + Scale
      BY <1>1, <1>5
    <3>5. QED
      BY <1>1, <1>5, <2>5, <3>1, <3>3, <3>4
  <2>8. net - back \in Nat
    BY <1>3, <1>5, <2>5, <2>7
  <2>9. QED
    BY <1>3, <2>1, <2>3, <2>8
<1>8. QED
  BY <1>6, <1>7

Matured(a) == Value({e \in unbonding : e.owner = a /\ Madura(e.at)})

(* The reward and the steps of block_tick keep the invariant. *)
LEMMA InvEndBlock ==
  ASSUME LedgerInv, NEW p \in eligible, EndBlock(p)
  PROVE  LedgerInv'
<1> DEFINE dist == Distribution(p)
           due(a) == pending[a] # None /\ height >= pending[a].at
           earned(a) == IF a = p THEN dist.producer ELSE 0
<1>1. /\ treasury' = treasury + dist.treasury
      /\ balance' = [a \in Account |-> balance[a] + earned(a) + Matured(a)]
      /\ acc' = [acc EXCEPT ![p] = @ + dist.inc]
      /\ minted' = minted + Reward
      /\ commission' = [a \in Account |-> IF due(a) THEN pending[a].pct ELSE commission[a]]
      /\ pending' = [a \in Account |-> IF due(a) THEN None ELSE pending[a]]
      /\ unbonding' = {e \in unbonding : ~Madura(e.at)}
      /\ height' = height + 1 /\ eligible' = Validators(staked)
      /\ UNCHANGED <<staked, voting, delegating, vesting, slashed, shared, burned, txs>>
  BY DEF EndBlock, Matured
<1>2. p \in Account /\ Types
  BY DEF LedgerInv, Types
<1>3. dist.treasury \in Nat /\ dist.producer \in Nat /\ dist.inc \in Nat
  BY <1>2, DistributionFacts
<1> HIDE DEF dist
<1>4. balance' \in [Account -> Nat]
  <2>1. ASSUME NEW a \in Account PROVE Matured(a) \in Nat
    <3> DEFINE r == {e \in unbonding : e.owner = a /\ Madura(e.at)}
    <3>1. IsFiniteSet(r) /\ r \subseteq Withdrawal
      BY FS_Subset DEF LedgerInv, Queue
    <3>2. QED
      BY <3>1, ValueFacts DEF Matured
  <2>2. QED
    BY <1>1, <1>2, <1>3, <2>1 DEF Types
<1>5. acc' \in [Account -> Nat] /\ \A c \in Account : acc[c] \in Nat /\ acc[c] <= acc'[c]
  BY <1>1, <1>2, <1>3 DEF Types
<1>6. commission' \in [Account -> 0..100] /\ pending' \in [Account -> [pct : 0..100, at : Nat]]
  <2>1. None \in [pct : 0..100, at : Nat]
    BY DEF None
  <2>2. \A a \in Account : pending[a].pct \in 0..100
    BY <1>2 DEF Types
  <2>3. QED
    BY <1>1, <1>2, <2>1, <2>2 DEF Types
<1>7. treasury' \in Nat /\ minted' \in Nat /\ height' \in Nat \ {0} /\ eligible' \subseteq Account
  BY <1>1, <1>2, <1>3, Constants DEF Types, Validators
<1>8. Types'
  BY <1>1, <1>2, <1>4, <1>5, <1>6, <1>7 DEF Types, voting, delegating
<1>9. Queue(unbonding', txs', height')
  <2>1. Queue(unbonding, txs, height) /\ unbonding' \subseteq unbonding
    BY <1>1 DEF LedgerInv
  <2>2. \A e \in unbonding' : e.at >= height'
    <3>1. \A e \in unbonding' : e.at \in Nat /\ ~(height >= e.at)
      BY <1>1, <2>1 DEF Queue, Withdrawal, Madura
    <3>2. QED
      BY <1>1, <1>2, <3>1 DEF Types
  <2>3. IsFiniteSet(unbonding') /\ txs' = txs
    BY <1>1, <2>1, FS_Subset DEF Queue
  <2>4. QED
    BY <2>1, <2>2, <2>3 DEF Queue
<1>10. Settled(debt', acc')
  <2>1. ASSUME NEW a \in Account, NEW c \in Account PROVE debt[a][c] <= acc'[c]
    <3>1. debt[a][c] \in Nat /\ debt[a][c] <= acc[c] /\ acc'[c] \in Nat
      BY <1>2, <1>5 DEF LedgerInv, Types, Settled
    <3>2. QED
      BY <1>5, <3>1
  <2>2. QED
    BY <1>1, <2>1 DEF Settled, voting
<1>11. QED
  BY <1>1, <1>8, <1>9, <1>10 DEF LedgerInv, voting, delegating

(* Every step keeps the invariant. *)
LEMMA InvNext == LedgerInv /\ [Next]_vars => LedgerInv'
<1> SUFFICES ASSUME LedgerInv, [Next]_vars PROVE LedgerInv'
  OBVIOUS
<1>1. ASSUME NEW a \in Account, NEW v \in Amounts, Stake(a, v) \/ Unstake(a, v)
      PROVE  LedgerInv'
  BY <1>1, InvStake, InvUnstake
<1>2. ASSUME NEW a \in Account, NEW b \in Account, NEW v \in Amounts,
             Transfer(a, b, v) \/ DelegateResource(a, b, v) \/ UndelegateResource(a, b, v)
      PROVE  LedgerInv'
  BY <1>2, InvTransfer, InvDelegateResource, InvUndelegateResource
<1>3. ASSUME NEW a \in Account, NEW alloc \in Allotments(a), Vote(a, alloc)
      PROVE  LedgerInv'
  BY <1>3, InvVote
<1>4. ASSUME NEW a \in Account, NEW c \in Account, ClaimVoterReward(a, c)
      PROVE  LedgerInv'
  BY <1>4, InvClaimVoterReward
<1>5. ASSUME NEW a \in Account, NEW pct \in Percents, SetCommission(a, pct)
      PROVE  LedgerInv'
  BY <1>5, InvSetCommission
<1>6. ASSUME NEW a \in Account, NEW b \in Account, NEW v \in Amounts, NEW term \in Terms,
             VestingCreate(a, b, v, term)
      PROVE  LedgerInv'
  BY <1>6, InvVestingCreate
<1>7. ASSUME NEW x \in vesting, VestingClaim(x)
      PROVE  LedgerInv'
  BY <1>7, InvVestingClaim
<1>8. ASSUME NEW r \in Account, NEW o \in Offences, SlashDoubleSign(r, o[1], o[2])
      PROVE  LedgerInv'
  <2>1. o[1] \in Account
    BY Constants
  <2>2. QED
    BY <1>8, <2>1, InvSlashDoubleSign
<1>9. ASSUME NEW p \in eligible, EndBlock(p)
      PROVE  LedgerInv'
  BY <1>9, InvEndBlock
<1>10. CASE UNCHANGED vars
  <2>1. UNCHANGED <<balance, staked, votes, candidateVotes, debt, acc, commission, minted, treasury,
                    delegations, delegatedOut, delegatedIn, height, eligible, unbonding, pending,
                    vesting, slashed, shared, burned, txs>>
    BY <1>10 DEF vars, accounts, voting, rewards, delegating, block
  <2>2. QED
    BY <2>1 DEF LedgerInv, Types
<1>11. ASSUME NEW k \in Account, NEW a \in Account, NEW v \in Amounts, MultisigUnstake(k, a, v)
       PROVE  LedgerInv'
  BY <1>11, InvMultisigUnstake
<1>12. ASSUME NEW a \in Account, PermissionUpdate(a)
       PROVE  LedgerInv'
  BY <1>12, InvPermissionUpdate
<1>13. ASSUME NEW k \in Account, NEW a \in Account, MultisigRelease(k, a)
       PROVE  LedgerInv'
  BY <1>13, InvMultisigRelease
<1>14. QED
  BY <1>1, <1>2, <1>3, <1>4, <1>5, <1>6, <1>7, <1>8, <1>9, <1>10, <1>11, <1>12, <1>13 DEF Next

(* The invariant holds in every reachable state. *)
LEMMA InvAlways == Spec => []LedgerInv
<1>1. Init => LedgerInv
  BY InvInit
<1>2. LedgerInv /\ [Next]_vars => LedgerInv'
  BY InvNext
<1>3. QED
  BY <1>1, <1>2, PTL DEF Spec

-----------------------------------------------------------------------------
(* And says what the runs check. *)
LEMMA InvImplies ==
  LedgerInv => TypeOK /\ VotesCounted /\ DelegationsCounted
<1> SUFFICES ASSUME LedgerInv PROVE TypeOK /\ VotesCounted /\ DelegationsCounted
  OBVIOUS
<1>1. Types
  BY DEF LedgerInv
<1>2. TypeOK
  <2>1. /\ unbonding \subseteq [id : Nat, owner : Account, value : Nat \ {0}, at : Nat]
        /\ \A e \in unbonding : e.at >= height
    BY DEF LedgerInv, Queue, Withdrawal
  <2>2. QED
    BY <1>1, <2>1 DEF TypeOK, Types
<1>3. VotesCounted
  <2>1. ASSUME NEW c \in Account
        PROVE  candidateVotes[c] = SumFunction([a \in Account |-> votes[a][c]])
    <3> DEFINE f == [a \in Account |-> votes[a][c]]
    <3>1. f \in [Account -> Nat] /\ candidateVotes[c] = SumAccounts(f)
      BY <1>1 DEF LedgerInv, Types, Counted
    <3> HIDE DEF f
    <3>2. candidateVotes[c] = SumFunction(f)
      BY <3>1, SumAccountsFacts
    <3>3. QED
      BY <3>2 DEF f
  <2>2. QED
    BY <2>1 DEF VotesCounted
<1>4. DelegationsCounted
  <2>1. ASSUME NEW a \in Account
        PROVE  /\ delegatedOut[a] = SumFunction(delegations[a])
               /\ delegatedIn[a] = SumFunction([b \in Account |-> delegations[b][a]])
    <3> DEFINE f == [b \in Account |-> delegations[b][a]]
    <3>1. f \in [Account -> Nat] /\ delegations[a] \in [Account -> Nat]
      BY <1>1 DEF Types
    <3>2. delegatedIn[a] = SumAccounts(f) /\ delegatedOut[a] = SumAccounts(delegations[a])
      BY DEF LedgerInv, Delegated
    <3> HIDE DEF f
    <3>3. delegatedIn[a] = SumFunction(f) /\ delegatedOut[a] = SumFunction(delegations[a])
      BY <3>1, <3>2, SumAccountsFacts
    <3>4. QED
      BY <3>2, <3>3 DEF f
  <2>2. QED
    BY <2>1 DEF DelegationsCounted
<1>5. QED
  BY <1>2, <1>3, <1>4

(* No amount goes below zero in any handler: what is subtracted after a check *)
(* was there, whatever the sequence of transactions and slashes.              *)
THEOREM AmountsStayNatural == Spec => []TypeOK
  BY InvAlways, InvImplies, PTL

(* candidate_votes is the sum of the allotments behind it, after any number   *)
(* of votes replaced (aplicar_voto).                                          *)
THEOREM VotesAreCounted == Spec => []VotesCounted
  BY InvAlways, InvImplies, PTL

(* Both totals of the delegations agree with the delegations themselves,     *)
(* whatever is undelegated or revoked.                                        *)
THEOREM DelegationsAreCounted == Spec => []DelegationsCounted
  BY InvAlways, InvImplies, PTL

-----------------------------------------------------------------------------
(* Only slash_double_sign marks an offence as punished. *)
LEMMA OnlySlash ==
  ASSUME LedgerInv, [Next]_vars, NEW o \in slashed' \ slashed
  PROVE  \E r \in Account : o[1] \in Account /\ SlashDoubleSign(r, o[1], o[2])
<1>1. ASSUME NEW a, NEW cost, Paid(a, cost) PROVE FALSE
  BY <1>1 DEF Paid
<1>2. ASSUME NEW r \in Account, NEW x \in Offences, SlashDoubleSign(r, x[1], x[2])
      PROVE  o[1] \in Account /\ SlashDoubleSign(r, o[1], o[2])
  <2>1. o = <<x[1], x[2]>>
    BY <1>2 DEF SlashDoubleSign
  <2>2. o[1] = x[1] /\ o[2] = x[2] /\ x[1] \in Account
    BY <2>1, Constants
  <2>3. QED
    BY <1>2, <2>2
<1>3. ASSUME NEW p, EndBlock(p) PROVE FALSE
  BY <1>3 DEF EndBlock
<1>4. CASE UNCHANGED vars
  BY <1>4 DEF vars
<1>5. CASE Next
  BY <1>1, <1>2, <1>3, <1>5 DEF Next, Stake, Unstake, Transfer, DelegateResource,
     UndelegateResource, Vote, ClaimVoterReward, SetCommission, VestingCreate, VestingClaim,
     PermissionUpdate, MultisigUnstake, MultisigRelease, Apply
<1>6. QED
  BY <1>4, <1>5

(* A slash lowers what the offender has at stake and in the queue by exactly  *)
(* the penalty.                                                               *)
LEMMA SlashInFull ==
  ASSUME LedgerInv, NEW r, NEW a \in Account, NEW h, SlashDoubleSign(r, a, h)
  PROVE  EmRisco(a)' = EmRisco(a) - Penalidade(a)
<1> DEFINE penalty == Penalidade(a)
           rest == penalty - DoStake(a, penalty)
<1>1. staked'[a] = staked[a] - DoStake(a, penalty) /\ unbonding' = FilaApos(a, rest)
  BY DEF SlashDoubleSign, LedgerInv, Types
<1>2. penalty \in Nat /\ DoStake(a, penalty) \in 0..staked[a] /\ rest \in 0..Value(Own(a))
      /\ Value(Own(a)) \in Nat /\ staked[a] \in Nat /\ EmRisco(a) = staked[a] + Value(Own(a))
  BY PenaltyFacts, OwnFacts
<1>3. rest \in Nat /\ rest <= Value(Own(a))
  BY <1>2
<1> HIDE DEF rest
<1>4. Value({e \in FilaApos(a, rest) : e.owner = a}) = Value(Own(a)) - rest
  BY <1>3, QueueAfterWorth
<1>5. EmRisco(a)' = staked'[a] + Value({e \in unbonding' : e.owner = a})
  BY DEF EmRisco, Value
<1>6. EmRisco(a)' = (staked[a] - DoStake(a, penalty)) + (Value(Own(a)) - rest)
  BY <1>1, <1>4, <1>5
<1> HIDE DEF penalty
<1>7. EmRisco(a)' = EmRisco(a) - penalty
  BY <1>2, <1>3, <1>6 DEF rest
<1>8. QED
  BY <1>7 DEF penalty

(* An offender cannot move stake into the queue to save it: the penalty is    *)
(* taken in full from the two together (slash_double_sign).                   *)
THEOREM PenaltyTakenInFull == Spec => PenaltyInFull
<1>1. LedgerInv /\ [Next]_vars =>
        [\A o \in slashed' \ slashed : EmRisco(o[1])' = EmRisco(o[1]) - Penalidade(o[1])]_vars
  <2>1. SUFFICES ASSUME LedgerInv, [Next]_vars, NEW o \in slashed' \ slashed
                 PROVE  EmRisco(o[1])' = EmRisco(o[1]) - Penalidade(o[1])
    OBVIOUS
  <2>2. PICK r \in Account : o[1] \in Account /\ SlashDoubleSign(r, o[1], o[2])
    BY <2>1, OnlySlash
  <2>3. QED
    BY <2>1, <2>2, SlashInFull
<1>2. QED
  BY <1>1, InvAlways, PTL DEF Spec, PenaltyInFull

-----------------------------------------------------------------------------
(* What a step may do to what the stake of a backs. *)
StepBacks(a) ==
  /\ VotesHeld(a) => VotesHeld(a)' \/ Slashes(a) \/ MultisigWithdraws(a)
  /\ DelegationsHeld(a) \/ Slashes(a) => DelegationsHeld(a)' \/ MultisigWithdraws(a)

Spares(a) == /\ votes'[a] = votes[a] /\ staked'[a] >= staked[a]
             /\ delegatedOut'[a] <= delegatedOut[a]

(* The two readings of what the votes of an account add up to. *)
LEMMA Held ==
  ASSUME Types, NEW a \in Account
  PROVE  /\ VotesHeld(a) <=> SumAccounts(votes[a]) <= staked[a]
         /\ SumAccounts(votes[a]) \in Nat /\ staked[a] \in Nat /\ delegatedOut[a] \in Nat
  BY SumAccountsFacts DEF Types, VotesHeld, VotadoTotal

LEMMA HeldNext ==
  ASSUME Types', NEW a \in Account
  PROVE  /\ VotesHeld(a)' <=> SumAccounts(votes'[a]) <= staked'[a]
         /\ DelegationsHeld(a)' <=> delegatedOut'[a] <= staked'[a]
         /\ SumAccounts(votes'[a]) \in Nat /\ staked'[a] \in Nat /\ delegatedOut'[a] \in Nat
  BY SumAccountsFacts DEF Types, VotesHeld, DelegationsHeld, VotadoTotal

(* A step that leaves the votes and does not lower the stake, nor delegate,   *)
(* keeps what was backed.                                                     *)
LEMMA SparedBacks ==
  ASSUME LedgerInv, LedgerInv', NEW a \in Account, Spares(a), ~Slashes(a)
  PROVE  StepBacks(a)
<1>1. Types /\ Types'
  BY DEF LedgerInv
<1>2. VotesHeld(a) => VotesHeld(a)'
  BY <1>1, Held, HeldNext DEF Spares
<1>3. DelegationsHeld(a) => DelegationsHeld(a)'
  BY <1>1, Held, HeldNext DEF Spares, DelegationsHeld
<1>4. QED
  BY <1>2, <1>3 DEF StepBacks

(* So does one that was checked against the stake it leaves. *)
LEMMA CheckedBacks ==
  ASSUME LedgerInv, LedgerInv', NEW a \in Account,
         SumAccounts(votes'[a]) <= staked'[a] \/ (VotesHeld(a) => VotesHeld(a)'),
         delegatedOut'[a] <= staked'[a] \/ (DelegationsHeld(a) => DelegationsHeld(a)'),
         ~Slashes(a)
  PROVE  StepBacks(a)
<1>1. Types'
  BY DEF LedgerInv
<1>2. QED
  BY <1>1, HeldNext DEF StepBacks

(* The transactions that take an amount from the balance, or settle what is   *)
(* owed, and the end of a block, spare what the stakes back.                  *)
LEMMA StakeFreeBacks ==
  ASSUME LedgerInv, LedgerInv', NEW a \in Account,
         UNCHANGED <<staked, votes, delegatedOut, slashed>>
  PROVE  StepBacks(a)
<1>1. Spares(a) /\ ~Slashes(a)
  BY Held DEF LedgerInv, Spares, Slashes
<1>2. QED
  BY <1>1, SparedBacks

(* stake only adds to it. *)
LEMMA StakeBacksMore ==
  ASSUME LedgerInv, LedgerInv', NEW a \in Account, NEW b \in Account, NEW v \in Amounts,
         Stake(b, v)
  PROVE  StepBacks(a)
<1>1. /\ v \in Nat /\ staked' = [staked EXCEPT ![b] = @ + v]
      /\ UNCHANGED <<votes, delegatedOut, slashed>>
  BY Constants DEF Stake, Apply, Paid, voting, delegating
<1>2. staked \in [Account -> Nat] /\ delegatedOut[a] \in Nat
  BY DEF LedgerInv, Types
<1>3. Spares(a) /\ ~Slashes(a)
  BY <1>1, <1>2 DEF Spares, Slashes
<1>4. QED
  BY <1>3, SparedBacks

(* A withdrawal spares the stakes of the others; what an account withdraws by *)
(* its own signature leaves enough.                                           *)
LEMMA WithdrawBacks ==
  ASSUME LedgerInv, LedgerInv', NEW a \in Account, NEW b \in Account, NEW v \in Amounts,
         Withdraw(b, v), slashed' = slashed,
         a = b => Lastro(b, staked[b] - v) \/ MultisigWithdraws(a)
  PROVE  StepBacks(a)
<1>1. /\ staked' = [staked EXCEPT ![b] = staked[b] - v] /\ v \in Nat
      /\ votes' = votes /\ delegatedOut' = delegatedOut
  BY Constants DEF Withdraw, voting, delegating
<1>2. staked \in [Account -> Nat] /\ delegatedOut[a] \in Nat /\ ~Slashes(a) /\ Types
  BY DEF LedgerInv, Types, Slashes
<1>3. CASE a # b
  <2>1. Spares(a)
    BY <1>1, <1>2, <1>3 DEF Spares
  <2>2. QED
    BY <1>2, <2>1, SparedBacks
<1>4. CASE a = b /\ MultisigWithdraws(a)
  BY <1>4 DEF StepBacks
<1>5. CASE a = b /\ Lastro(b, staked[b] - v)
  <2>1. staked'[a] = staked[a] - v /\ VotadoTotal(a) = SumAccounts(votes[a])
    BY <1>1, <1>2, <1>5, SumAccountsFacts DEF Types, VotadoTotal
  <2>2. SumAccounts(votes'[a]) <= staked'[a] /\ delegatedOut'[a] <= staked'[a]
    BY <1>1, <1>2, <1>5, <2>1, Held DEF Lastro
  <2>3. QED
    BY <1>2, <2>2, CheckedBacks
<1>6. QED
  BY <1>3, <1>4, <1>5

(* vote is checked against the stake. *)
LEMMA VoteBacks ==
  ASSUME LedgerInv, LedgerInv', NEW a \in Account, NEW b \in Account, NEW alloc \in Allotments(b),
         Vote(b, alloc)
  PROVE  StepBacks(a)
<1>1. /\ SumFunction(alloc) <= staked[b] /\ votes' = [votes EXCEPT ![b] = alloc]
      /\ UNCHANGED <<staked, delegatedOut, slashed>>
  BY DEF Vote, Apply, Paid, delegating
<1>2. Types /\ Types' /\ ~Slashes(a)
  BY <1>1 DEF LedgerInv, Slashes
<1>3. staked[a] \in Nat /\ delegatedOut[a] \in Nat /\ votes \in [Account -> [Account -> Nat]]
      /\ votes' \in [Account -> [Account -> Nat]]
  BY <1>2 DEF Types
<1>4. CASE a # b
  <2>1. Spares(a)
    BY <1>1, <1>3, <1>4 DEF Spares
  <2>2. QED
    BY <1>2, <2>1, SparedBacks
<1>5. CASE a = b
  <2>1. votes'[a] = alloc /\ alloc \in [Account -> Nat]
    BY <1>1, <1>3, <1>5
  <2>2. SumAccounts(votes'[a]) <= staked'[a]
    BY <1>1, <1>5, <2>1, SumAccountsFacts
  <2>3. DelegationsHeld(a) => DelegationsHeld(a)'
    BY <1>1 DEF DelegationsHeld
  <2>4. QED
    BY <1>2, <2>2, <2>3, CheckedBacks
<1>6. QED
  BY <1>4, <1>5

(* So is delegate_resource; undelegate_resource gives back. *)
LEMMA DelegateBacks ==
  ASSUME LedgerInv, LedgerInv', NEW a \in Account, NEW b \in Account, NEW c \in Account,
         NEW v \in Amounts, DelegateResource(b, c, v) \/ UndelegateResource(b, c, v)
  PROVE  StepBacks(a)
<1>1. v \in Nat /\ UNCHANGED <<staked, votes, slashed>>
  BY Constants DEF DelegateResource, UndelegateResource, Apply, Paid, voting
<1>2. delegatedOut \in [Account -> Nat] /\ staked \in [Account -> Nat] /\ ~Slashes(a)
  BY <1>1 DEF LedgerInv, Types, Slashes
<1>3. CASE a = b /\ DelegateResource(b, c, v)
  <2>1. delegatedOut'[a] <= staked'[a]
    BY <1>1, <1>2, <1>3 DEF DelegateResource
  <2>2. VotesHeld(a) => VotesHeld(a)'
    BY <1>1 DEF VotesHeld, VotadoTotal
  <2>3. QED
    BY <1>2, <2>1, <2>2, CheckedBacks
<1>4. CASE a # b \/ UndelegateResource(b, c, v)
  <2>1. delegatedOut'[a] <= delegatedOut[a]
    BY <1>1, <1>2, <1>4 DEF DelegateResource, UndelegateResource
  <2>2. Spares(a)
    BY <1>1, <1>2, <2>1 DEF Spares
  <2>3. QED
    BY <1>2, <2>2, SparedBacks
<1>5. QED
  BY <1>3, <1>4

(* slash_double_sign revokes what its victim can no longer back, and touches  *)
(* nobody else's stake.                                                       *)
LEMMA SlashBacks ==
  ASSUME LedgerInv, LedgerInv', NEW a \in Account, NEW r, NEW b \in Account, NEW h,
         SlashDoubleSign(r, b, h)
  PROVE  StepBacks(a)
<1> DEFINE left == staked[b] - DoStake(b, Penalidade(b))
<1>1. /\ staked' = [staked EXCEPT ![b] = left] /\ votes' = votes
      /\ delegatedOut' = [delegatedOut EXCEPT ![b] = Least(@, left)]
      /\ slashed' = slashed \union {<<b, h>>}
  BY DEF SlashDoubleSign, voting
<1>2. /\ staked \in [Account -> Nat] /\ delegatedOut \in [Account -> Nat]
  BY DEF LedgerInv, Types
<1>3. left \in Nat
  BY <1>2, PenaltyFacts
<1> HIDE DEF left
<1>4. CASE a = b /\ Slashes(a)
  <2>1. delegatedOut'[a] = Least(delegatedOut[a], left) /\ staked'[a] = left
    BY <1>1, <1>2, <1>4
  <2>2. DelegationsHeld(a)'
    BY <1>2, <1>3, <2>1 DEF Least, DelegationsHeld
  <2>3. QED
    BY <1>4, <2>2 DEF StepBacks
<1>5. CASE a = b /\ ~Slashes(a)
  <2>1. VotesHeld(a) => SumAccounts(votes[a]) <= staked[a]
    BY Held DEF LedgerInv
  <2>2. <<b, h>> \notin slashed
    BY DEF SlashDoubleSign
  <2>3. <<b, h>> \in slashed' \ slashed
    BY <1>1, <2>2
  <2>4. QED
    BY <1>5, <2>3 DEF Slashes
<1>6. CASE a # b
  <2>1. ~Slashes(a)
    BY <1>1, <1>6 DEF Slashes
  <2>2. Spares(a)
    BY <1>1, <1>2, <1>6 DEF Spares
  <2>3. QED
    BY <2>1, <2>2, SparedBacks
<1>7. QED
  BY <1>4, <1>5, <1>6

(* Every step. *)
LEMMA NextBacks ==
  ASSUME LedgerInv, [Next]_vars, NEW a \in Account
  PROVE  StepBacks(a)
<1>0. LedgerInv'
  BY InvNext
<1>1. ASSUME NEW b \in Account, NEW v \in Amounts, Stake(b, v) PROVE StepBacks(a)
  BY <1>0, <1>1, StakeBacksMore
<1>2. ASSUME NEW b \in Account, NEW v \in Amounts, Unstake(b, v) PROVE StepBacks(a)
  <2>1. Withdraw(b, v) /\ Lastro(b, staked[b] - v) /\ slashed' = slashed
    BY <1>2 DEF Unstake, Apply, Paid
  <2>2. QED
    BY <1>0, <2>1, WithdrawBacks
<1>3. ASSUME NEW k \in Account, NEW b \in Account, NEW v \in Amounts, MultisigUnstake(k, b, v)
      PROVE  StepBacks(a)
  <2>1. Withdraw(b, v) /\ slashed' = slashed /\ (a = b => MultisigWithdraws(a))
    BY <1>3 DEF MultisigUnstake, MultisigWithdraws, Apply, Paid
  <2>2. QED
    BY <1>0, <2>1, WithdrawBacks
<1>4. ASSUME NEW b \in Account, NEW alloc \in Allotments(b), Vote(b, alloc) PROVE StepBacks(a)
  BY <1>0, <1>4, VoteBacks
<1>5. ASSUME NEW b \in Account, NEW c \in Account, NEW v \in Amounts,
             DelegateResource(b, c, v) \/ UndelegateResource(b, c, v)
      PROVE  StepBacks(a)
  BY <1>0, <1>5, DelegateBacks
<1>6. ASSUME NEW r \in Account, NEW o \in Offences, SlashDoubleSign(r, o[1], o[2])
      PROVE  StepBacks(a)
  <2>1. o[1] \in Account
    BY Constants
  <2>2. QED
    BY <1>0, <1>6, <2>1, SlashBacks
<1>7. CASE UNCHANGED <<staked, votes, delegatedOut, slashed>>
  BY <1>0, <1>7, StakeFreeBacks
<1>8. CASE UNCHANGED vars
  BY <1>7, <1>8 DEF vars, accounts, voting, delegating
<1>9. ASSUME NEW b, NEW c, NEW v, NEW term,
             \/ Transfer(b, c, v) \/ ClaimVoterReward(b, c) \/ SetCommission(b, v)
             \/ PermissionUpdate(b) \/ MultisigRelease(b, c) \/ VestingCreate(b, c, v, term)
             \/ VestingClaim(b) \/ EndBlock(b)
      PROVE  UNCHANGED <<staked, votes, delegatedOut, slashed>>
  BY <1>9 DEF Transfer, ClaimVoterReward, SetCommission, PermissionUpdate, MultisigRelease,
     VestingCreate, VestingClaim, EndBlock, Apply, Paid, voting, delegating
<1>10. CASE Next
  BY <1>1, <1>2, <1>3, <1>4, <1>5, <1>6, <1>7, <1>9, <1>10 DEF Next
<1>11. QED
  BY <1>8, <1>10

(* Votes lose the stake behind them only in a slash or in a withdrawal by the *)
(* signers of an account under a permission: unstake and vote check it.       *)
THEOREM VotesStayBacked == Spec => VotesBacked
<1>1. LedgerInv /\ [Next]_vars =>
        [\A a \in Account :
           VotesHeld(a) /\ ~VotesHeld(a)' => Slashes(a) \/ MultisigWithdraws(a)]_vars
  BY NextBacks DEF StepBacks
<1>2. QED
  BY <1>1, InvAlways, PTL DEF Spec, VotesBacked

(* Delegated resources lose theirs only in such a withdrawal, and a slash     *)
(* restores it by what it revokes.                                            *)
THEOREM DelegationsStayBacked == Spec => DelegationsBacked
<1>1. LedgerInv /\ [Next]_vars =>
        [\A a \in Account :
           DelegationsHeld(a) \/ Slashes(a)
             => DelegationsHeld(a)' \/ MultisigWithdraws(a)]_vars
  BY NextBacks DEF StepBacks
<1>2. QED
  BY <1>1, InvAlways, PTL DEF Spec, DelegationsBacked
=============================================================================
