--------------------------- MODULE Mempool_proofs ---------------------------
(***************************************************************************)
(* Proofs about Mempool, for any accounts, transactions, pool and block    *)
(* sizes: the pool stays unspent, what select_executable chooses is        *)
(* accepted and leaves out nothing that would execute, and no transaction  *)
(* is lost but by the production of a block that is full.                  *)
(*                                                                         *)
(* That the pool is unspent needs a fact about the chain: every            *)
(* transaction of a block is consumed in the state after it and in all     *)
(* later ones.  A reorg moves the nonces back to an earlier state, and the *)
(* orphans that come in again are looked at there.                         *)
(*                                                                         *)
(* simulate, the sweeps, retain and the resubmission are loops over        *)
(* sequences.  Each is first given as the sequence of its steps, from      *)
(* which an invariant of the loop follows by induction on the position.    *)
(* The sort of the pending transactions is a rank, a permutation.  For     *)
(* what is not lost, the same steps show that each loop hands on what it   *)
(* does not drop for a reason.                                             *)
(***************************************************************************)
EXTENDS Mempool, Lemmas

St == [nonce : [Account -> Nat], balance : [Account -> Int]]

Block == [txs : Seq(Tx), after : St]

Sim == [ok : BOOLEAN, st : St, seen : SUBSET Tx]

(* A transaction leaves nonces and balances that are numbers. *)
LEMMA AppliedTyped ==
  ASSUME NEW st \in St, NEW tx \in Tx
  PROVE  Applied(st, tx) \in St
<1>1. /\ tx.from \in Account /\ tx.to \in Account /\ tx.nonce \in Nat
      /\ st.nonce \in [Account -> Nat] /\ st.balance \in [Account -> Int]
  BY MempoolAssumption DEF St
<1>2. QED
  BY <1>1 DEF Applied, St

(* Each step of simulate has a state, a verdict and the transactions        *)
(* seen.                                                                    *)
LEMMA RunTyped ==
  ASSUME NEW sim \in Sim, NEW tx \in Tx
  PROVE  Run(sim, tx) \in Sim
<1>1. sim.ok \in BOOLEAN /\ sim.st \in St /\ sim.seen \in SUBSET Tx
  BY DEF Sim
<1>2. Applied(sim.st, tx) \in St
  BY <1>1, AppliedTyped
<1>3. QED
  BY <1>1, <1>2 DEF Run, Sim

(* The steps of simulate. *)
LEMMA RunSteps ==
  ASSUME NEW b \in Sim, NEW txs \in Seq(Tx)
  PROVE  \E f \in [0..Len(txs) -> Sim] :
           /\ f[0] = b /\ FoldLeft(Run, b, txs) = f[Len(txs)]
           /\ \A k \in 1..Len(txs) : f[k] = Run(f[k - 1], txs[k])
<1> DEFINE n == Len(txs)
           P == SUBSET (1..n)
           E(h) == h = [s \in P |-> IF s = {} THEN b
                                    ELSE Run(h[s \ {Max(s)}], txs[Max(s)])]
           h == CHOOSE g : E(g)
           G == [k \in 1..n |-> [x \in Sim |-> Run(x, txs[k])]]
<1>0. n \in Nat /\ DOMAIN txs = 1..n /\ \A k \in 1..n : txs[k] \in Tx
  OBVIOUS
<1>1. FoldLeft(Run, b, txs) = h[1..n]
  BY <1>0 DEF FoldLeft, MapThenFoldSet
<1>2. E(h)
  <2>1. G \in [1..n -> [Sim -> Sim]]
    BY <1>0, RunTyped
  <2>2. PICK g : FoldEquation(G, b, P, g) /\ g \in [P -> Sim]
    BY <1>0, <2>1, FoldDefined
  <2>3. \A s \in P : s # {} => Max(s) \in 1..n /\ s \ {Max(s)} \in P
    BY <1>0, LastPosition
  <2>4. \A s \in P : s # {} =>
          G[Max(s)][g[s \ {Max(s)}]] = Run(g[s \ {Max(s)}], txs[Max(s)])
    BY <2>2, <2>3
  <2>5. E(g)
    BY <2>2, <2>4 DEF FoldEquation
  <2> HIDE DEF E
  <2>6. QED
    BY <2>5
<1> HIDE DEF h
<1> DEFINE f == [k \in 0..n |-> h[1..k]]
<1>3. f[0] = b /\ \A k \in 1..n : f[k] = Run(f[k - 1], txs[k])
  <2>1. \A k \in 1..n : Max(1..k) = k /\ (1..k) \ {Max(1..k)} = 1..(k - 1)
    BY <1>0, LastPosition
  <2>2. \A s \in P : h[s] = IF s = {} THEN b ELSE Run(h[s \ {Max(s)}], txs[Max(s)])
    BY <1>2
  <2>3. h[{}] = b /\ \A k \in 1..n : h[1..k] = Run(h[1..(k - 1)], txs[k])
    BY <1>0, <2>1, <2>2, FirstPositions
  <2>4. QED
    BY <1>0, <2>3, FirstPositions
<1>4. f[n] = h[1..n] /\ f = [k \in 0..n |-> f[k]]
  BY <1>0
<1> HIDE DEF f
<1>5. f \in [0..n -> Sim]
  <2> DEFINE T == {k \in 0..n : f[k] \in Sim}
  <2>1. 0 \in T
    BY <1>0, <1>3
  <2>2. ASSUME NEW k \in 1..n, k - 1 \in T
        PROVE  k \in T
    BY <1>0, <1>3, <2>2, RunTyped
  <2>3. 0..n \subseteq T
    <3> HIDE DEF T
    <3>1. QED
      BY <1>0, <2>1, <2>2, LoopInduction
  <2>4. QED
    BY <1>4, <2>3
<1>6. QED
  BY <1>1, <1>3, <1>4, <1>5

(* The steps of a sweep. *)
Sel == [txs : Seq(Tx), st : St]

(* Each attempt of select_executable leaves a selection. *)
LEMMA TryTyped ==
  ASSUME NEW sel \in Sel, NEW tx \in Tx
  PROVE  Try(sel, tx) \in Sel
<1>1. sel.txs \in Seq(Tx) /\ sel.st \in St
  BY DEF Sel
<1>2. Append(sel.txs, tx) \in Seq(Tx) /\ Applied(sel.st, tx) \in St
  BY <1>1, AppliedTyped
<1>3. QED
  BY <1>1, <1>2 DEF Try, Sel

(* The steps of one sweep of select_executable. *)
LEMMA TrySteps ==
  ASSUME NEW b \in Sel, NEW txs \in Seq(Tx)
  PROVE  \E f \in [0..Len(txs) -> Sel] :
           /\ f[0] = b /\ FoldLeft(Try, b, txs) = f[Len(txs)]
           /\ \A k \in 1..Len(txs) : f[k] = Try(f[k - 1], txs[k])
<1> DEFINE n == Len(txs)
           P == SUBSET (1..n)
           E(h) == h = [s \in P |-> IF s = {} THEN b
                                    ELSE Try(h[s \ {Max(s)}], txs[Max(s)])]
           h == CHOOSE g : E(g)
           G == [k \in 1..n |-> [x \in Sel |-> Try(x, txs[k])]]
<1>0. n \in Nat /\ DOMAIN txs = 1..n /\ \A k \in 1..n : txs[k] \in Tx
  OBVIOUS
<1>1. FoldLeft(Try, b, txs) = h[1..n]
  BY <1>0 DEF FoldLeft, MapThenFoldSet
<1>2. E(h)
  <2>1. G \in [1..n -> [Sel -> Sel]]
    BY <1>0, TryTyped
  <2>2. PICK g : FoldEquation(G, b, P, g) /\ g \in [P -> Sel]
    BY <1>0, <2>1, FoldDefined
  <2>3. \A s \in P : s # {} => Max(s) \in 1..n /\ s \ {Max(s)} \in P
    BY <1>0, LastPosition
  <2>4. \A s \in P : s # {} =>
          G[Max(s)][g[s \ {Max(s)}]] = Try(g[s \ {Max(s)}], txs[Max(s)])
    BY <2>2, <2>3
  <2>5. E(g)
    BY <2>2, <2>4 DEF FoldEquation
  <2> HIDE DEF E
  <2>6. QED
    BY <2>5
<1> HIDE DEF h
<1> DEFINE f == [k \in 0..n |-> h[1..k]]
<1>3. f[0] = b /\ \A k \in 1..n : f[k] = Try(f[k - 1], txs[k])
  <2>1. \A k \in 1..n : Max(1..k) = k /\ (1..k) \ {Max(1..k)} = 1..(k - 1)
    BY <1>0, LastPosition
  <2>2. \A s \in P : h[s] = IF s = {} THEN b ELSE Try(h[s \ {Max(s)}], txs[Max(s)])
    BY <1>2
  <2>3. h[{}] = b /\ \A k \in 1..n : h[1..k] = Try(h[1..(k - 1)], txs[k])
    BY <1>0, <2>1, <2>2, FirstPositions
  <2>4. QED
    BY <1>0, <2>3, FirstPositions
<1>4. f[n] = h[1..n] /\ f = [k \in 0..n |-> f[k]]
  BY <1>0
<1> HIDE DEF f
<1>5. f \in [0..n -> Sel]
  <2> DEFINE T == {k \in 0..n : f[k] \in Sel}
  <2>1. 0 \in T
    BY <1>0, <1>3
  <2>2. ASSUME NEW k \in 1..n, k - 1 \in T
        PROVE  k \in T
    BY <1>0, <1>3, <2>2, TryTyped
  <2>3. 0..n \subseteq T
    <3> HIDE DEF T
    <3>1. QED
      BY <1>0, <2>1, <2>2, LoopInduction
  <2>4. QED
    BY <1>4, <2>3
<1>6. QED
  BY <1>1, <1>3, <1>4, <1>5

(* The steps of retain. *)
Retaining(K, kept, tx) == IF tx \in K THEN Append(kept, tx) ELSE kept

(* Whether an entry is retained or not, the rest is a pool. *)
LEMMA RetainingTyped ==
  ASSUME NEW K, NEW kept \in Seq(Tx), NEW tx \in Tx
  PROVE  Retaining(K, kept, tx) \in Seq(Tx)
  BY DEF Retaining

(* The empty pool is a pool. *)
LEMMA NoneTyped == <<>> \in Seq(Tx)
  OBVIOUS

(* The steps of retain over the pool. *)
LEMMA RetainSteps ==
  ASSUME NEW p \in Seq(Tx), NEW K
  PROVE  \E f \in [0..Len(p) -> Seq(Tx)] :
           /\ f[0] = <<>> /\ Retain(p, K) = f[Len(p)]
           /\ \A k \in 1..Len(p) : f[k] = Retaining(K, f[k - 1], p[k])
<1> DEFINE n == Len(p)
           P == SUBSET (1..n)
           E(h) == h = [s \in P |-> IF s = {} THEN <<>>
                                    ELSE Retaining(K, h[s \ {Max(s)}], p[Max(s)])]
           h == CHOOSE g : E(g)
           G == [k \in 1..n |-> [x \in Seq(Tx) |-> Retaining(K, x, p[k])]]
<1>0. n \in Nat /\ DOMAIN p = 1..n /\ \A k \in 1..n : p[k] \in Tx
  OBVIOUS
<1>1. Retain(p, K) = h[1..n]
  BY <1>0 DEF Retain, Retaining, FoldLeft, MapThenFoldSet
<1>2. E(h)
  <2>1. G \in [1..n -> [Seq(Tx) -> Seq(Tx)]]
    BY <1>0, RetainingTyped
  <2>2. PICK g : FoldEquation(G, <<>>, P, g) /\ g \in [P -> Seq(Tx)]
    BY <1>0, <2>1, NoneTyped, FoldDefined
  <2>3. \A s \in P : s # {} => Max(s) \in 1..n /\ s \ {Max(s)} \in P
    BY <1>0, LastPosition
  <2>4. \A s \in P : s # {} =>
          G[Max(s)][g[s \ {Max(s)}]] = Retaining(K, g[s \ {Max(s)}], p[Max(s)])
    BY <2>2, <2>3
  <2>5. E(g)
    BY <2>2, <2>4 DEF FoldEquation
  <2> HIDE DEF E
  <2>6. QED
    BY <2>5
<1> HIDE DEF h
<1> DEFINE f == [k \in 0..n |-> h[1..k]]
<1>3. f[0] = <<>> /\ \A k \in 1..n : f[k] = Retaining(K, f[k - 1], p[k])
  <2>1. \A k \in 1..n : Max(1..k) = k /\ (1..k) \ {Max(1..k)} = 1..(k - 1)
    BY <1>0, LastPosition
  <2>2. \A s \in P : h[s] = IF s = {} THEN <<>> ELSE Retaining(K, h[s \ {Max(s)}], p[Max(s)])
    BY <1>2
  <2>3. h[{}] = <<>> /\ \A k \in 1..n : h[1..k] = Retaining(K, h[1..(k - 1)], p[k])
    BY <1>0, <2>1, <2>2, FirstPositions
  <2>4. QED
    BY <1>0, <2>3, FirstPositions
<1>4. f[n] = h[1..n] /\ f = [k \in 0..n |-> f[k]]
  BY <1>0
<1> HIDE DEF f
<1>5. f \in [0..n -> Seq(Tx)]
  <2> DEFINE T == {k \in 0..n : f[k] \in Seq(Tx)}
  <2>1. 0 \in T
    <3>1. f[0] \in Seq(Tx) /\ 0 \in 0..n
      BY <1>0, <1>3, NoneTyped
    <3>2. QED
      BY <3>1
  <2>2. ASSUME NEW k \in 1..n, k - 1 \in T
        PROVE  k \in T
    BY <1>0, <1>3, <2>2, RetainingTyped
  <2>3. 0..n \subseteq T
    <3> HIDE DEF T
    <3>1. QED
      BY <1>0, <2>1, <2>2, LoopInduction
  <2>4. QED
    BY <1>4, <2>3
<1>6. QED
  BY <1>1, <1>3, <1>4, <1>5

(* The steps that join the abandoned blocks. *)
LEMMA JoinTyped ==
  ASSUME NEW txs \in Seq(Tx), NEW b \in Block
  PROVE  txs \o b.txs \in Seq(Tx)
<1>1. b.txs \in Seq(Tx)
  BY DEF Block
<1>2. QED
  BY <1>1

(* The steps that collect the transactions of the abandoned blocks. *)
LEMMA JoinSteps ==
  ASSUME NEW blocks \in Seq(Block)
  PROVE  \E f \in [0..Len(blocks) -> Seq(Tx)] :
           /\ f[0] = <<>> /\ FoldLeft(LAMBDA txs, b : txs \o b.txs, <<>>, blocks) = f[Len(blocks)]
           /\ \A k \in 1..Len(blocks) : f[k] = f[k - 1] \o blocks[k].txs
<1> DEFINE n == Len(blocks)
           P == SUBSET (1..n)
           E(h) == h = [s \in P |-> IF s = {} THEN <<>>
                                    ELSE h[s \ {Max(s)}] \o blocks[Max(s)].txs]
           h == CHOOSE g : E(g)
           G == [k \in 1..n |-> [x \in Seq(Tx) |-> x \o blocks[k].txs]]
<1>0. n \in Nat /\ DOMAIN blocks = 1..n /\ \A k \in 1..n : blocks[k] \in Block
  OBVIOUS
<1>1. FoldLeft(LAMBDA txs, b : txs \o b.txs, <<>>, blocks) = h[1..n]
  BY <1>0 DEF FoldLeft, MapThenFoldSet
<1>2. E(h)
  <2>1. G \in [1..n -> [Seq(Tx) -> Seq(Tx)]]
    BY <1>0, JoinTyped
  <2>2. PICK g : FoldEquation(G, <<>>, P, g) /\ g \in [P -> Seq(Tx)]
    BY <1>0, <2>1, NoneTyped, FoldDefined
  <2>3. \A s \in P : s # {} => Max(s) \in 1..n /\ s \ {Max(s)} \in P
    BY <1>0, LastPosition
  <2>4. \A s \in P : s # {} =>
          G[Max(s)][g[s \ {Max(s)}]] = g[s \ {Max(s)}] \o blocks[Max(s)].txs
    BY <2>2, <2>3
  <2>5. E(g)
    BY <2>2, <2>4 DEF FoldEquation
  <2> HIDE DEF E
  <2>6. QED
    BY <2>5
<1> HIDE DEF h
<1> DEFINE f == [k \in 0..n |-> h[1..k]]
<1>3. f[0] = <<>> /\ \A k \in 1..n : f[k] = f[k - 1] \o blocks[k].txs
  <2>1. \A k \in 1..n : Max(1..k) = k /\ (1..k) \ {Max(1..k)} = 1..(k - 1)
    BY <1>0, LastPosition
  <2>2. \A s \in P : h[s] = IF s = {} THEN <<>> ELSE h[s \ {Max(s)}] \o blocks[Max(s)].txs
    BY <1>2
  <2>3. h[{}] = <<>> /\ \A k \in 1..n : h[1..k] = h[1..(k - 1)] \o blocks[k].txs
    BY <1>0, <2>1, <2>2, FirstPositions
  <2>4. QED
    BY <1>0, <2>3, FirstPositions
<1>4. f[n] = h[1..n] /\ f = [k \in 0..n |-> f[k]]
  BY <1>0
<1> HIDE DEF f
<1>5. f \in [0..n -> Seq(Tx)]
  <2> DEFINE T == {k \in 0..n : f[k] \in Seq(Tx)}
  <2>1. 0 \in T
    <3>1. f[0] \in Seq(Tx) /\ 0 \in 0..n
      BY <1>0, <1>3, NoneTyped
    <3>2. QED
      BY <3>1
  <2>2. ASSUME NEW k \in 1..n, k - 1 \in T
        PROVE  k \in T
    <3>1. k \in 0..n /\ f[k - 1] \in Seq(Tx) /\ blocks[k] \in Block
      BY <1>0, <2>2, FirstPositions
    <3>2. f[k - 1] \o blocks[k].txs \in Seq(Tx)
      BY <3>1, JoinTyped
    <3>3. f[k] \in Seq(Tx)
      BY <1>3, <3>2
    <3>4. QED
      BY <3>1, <3>3
  <2>3. 0..n \subseteq T
    <3> HIDE DEF T
    <3>1. QED
      BY <1>0, <2>1, <2>2, LoopInduction
  <2>4. QED
    BY <1>4, <2>3
<1>6. QED
  BY <1>1, <1>3, <1>4, <1>5

(* The steps of a resubmission. *)
LEMMA SubmittedTyped ==
  ASSUME NEW q \in Seq(Tx), NEW c, NEW tx \in Tx
  PROVE  Submitted(q, c, tx) \in Seq(Tx)
  BY DEF Submitted

(* The steps that submit the orphans of a reorg again. *)
LEMMA ResubmitSteps ==
  ASSUME NEW p \in Seq(Tx), NEW c \in Seq(Block), NEW txs \in Seq(Tx)
  PROVE  \E f \in [0..Len(txs) -> Seq(Tx)] :
           /\ f[0] = p /\ Resubmitted(p, c, txs) = f[Len(txs)]
           /\ \A k \in 1..Len(txs) : f[k] = Submitted(f[k - 1], c, txs[k])
<1> DEFINE n == Len(txs)
           P == SUBSET (1..n)
           E(h) == h = [s \in P |-> IF s = {} THEN p
                                    ELSE Submitted(h[s \ {Max(s)}], c, txs[Max(s)])]
           h == CHOOSE g : E(g)
           G == [k \in 1..n |-> [x \in Seq(Tx) |-> Submitted(x, c, txs[k])]]
<1>0. n \in Nat /\ DOMAIN txs = 1..n /\ \A k \in 1..n : txs[k] \in Tx
  OBVIOUS
<1>1. Resubmitted(p, c, txs) = h[1..n]
  BY <1>0 DEF Resubmitted, FoldLeft, MapThenFoldSet
<1>2. E(h)
  <2>1. G \in [1..n -> [Seq(Tx) -> Seq(Tx)]]
    BY <1>0, SubmittedTyped
  <2>2. PICK g : FoldEquation(G, p, P, g) /\ g \in [P -> Seq(Tx)]
    BY <1>0, <2>1, FoldDefined
  <2>3. \A s \in P : s # {} => Max(s) \in 1..n /\ s \ {Max(s)} \in P
    BY <1>0, LastPosition
  <2>4. \A s \in P : s # {} =>
          G[Max(s)][g[s \ {Max(s)}]] = Submitted(g[s \ {Max(s)}], c, txs[Max(s)])
    BY <2>2, <2>3
  <2>5. E(g)
    BY <2>2, <2>4 DEF FoldEquation
  <2> HIDE DEF E
  <2>6. QED
    BY <2>5
<1> HIDE DEF h
<1> DEFINE f == [k \in 0..n |-> h[1..k]]
<1>3. f[0] = p /\ \A k \in 1..n : f[k] = Submitted(f[k - 1], c, txs[k])
  <2>1. \A k \in 1..n : Max(1..k) = k /\ (1..k) \ {Max(1..k)} = 1..(k - 1)
    BY <1>0, LastPosition
  <2>2. \A s \in P : h[s] = IF s = {} THEN p ELSE Submitted(h[s \ {Max(s)}], c, txs[Max(s)])
    BY <1>2
  <2>3. h[{}] = p /\ \A k \in 1..n : h[1..k] = Submitted(h[1..(k - 1)], c, txs[k])
    BY <1>0, <2>1, <2>2, FirstPositions
  <2>4. QED
    BY <1>0, <2>3, FirstPositions
<1>4. f[n] = h[1..n] /\ f = [k \in 0..n |-> f[k]]
  BY <1>0
<1> HIDE DEF f
<1>5. f \in [0..n -> Seq(Tx)]
  <2> DEFINE T == {k \in 0..n : f[k] \in Seq(Tx)}
  <2>1. 0 \in T
    BY <1>0, <1>3
  <2>2. ASSUME NEW k \in 1..n, k - 1 \in T
        PROVE  k \in T
    BY <1>0, <1>3, <2>2, SubmittedTyped
  <2>3. 0..n \subseteq T
    <3> HIDE DEF T
    <3>1. QED
      BY <1>0, <2>1, <2>2, LoopInduction
  <2>4. QED
    BY <1>4, <2>3
<1>6. QED
  BY <1>1, <1>3, <1>4, <1>5

-----------------------------------------------------------------------------
(* What retain keeps is of p and of K, in number and without repetition as   *)
(* in p.                                                                     *)
Distinct(q) == \A i, j \in 1..Len(q) : q[i] = q[j] => i = j

Sifted(p, K, q, k) ==
  /\ q \in Seq(Tx) /\ Len(q) <= k
  /\ \A i \in 1..Len(q) : q[i] \in K /\ \E j \in 1..k : q[i] = p[j]
  /\ Distinct(q)

(* One more entry looked at: what is kept is still those of K among them. *)
LEMMA SiftedStep ==
  ASSUME NEW p \in Seq(Tx), NEW K, NEW q, NEW k \in 1..Len(p), Distinct(p),
         Sifted(p, K, q, k - 1)
  PROVE  Sifted(p, K, Retaining(K, q, p[k]), k)
<1>1. k \in Nat /\ k - 1 \in Nat /\ Len(p) \in Nat /\ p[k] \in Tx /\ q \in Seq(Tx)
      /\ Len(q) \in Nat /\ Len(q) <= k - 1
  BY DEF Sifted
<1>2. \A j \in 1..(k - 1) : j \in 1..k /\ j \in 1..Len(p) /\ j # k
  BY <1>1
<1>3. CASE p[k] \notin K
  <2>1. Retaining(K, q, p[k]) = q /\ Len(q) <= k
    BY <1>1, <1>3 DEF Retaining
  <2>2. QED
    BY <1>2, <2>1 DEF Sifted
<1>4. CASE p[k] \in K
  <2> DEFINE r == Append(q, p[k])
             m == Len(q)
  <2>1. Retaining(K, q, p[k]) = r
    BY <1>4 DEF Retaining
  <2>2. r \in Seq(Tx) /\ Len(r) = m + 1 /\ (\A i \in 1..m : r[i] = q[i]) /\ r[m + 1] = p[k]
    BY <1>1
  <2> HIDE DEF r
  <2>3. \A i \in 1..(m + 1) : i \in 1..m \/ i = m + 1
    BY <1>1
  <2>4. \A i \in 1..m : q[i] \in K /\ \E j \in 1..(k - 1) : q[i] = p[j]
    BY DEF Sifted
  <2>5. \A i \in 1..m : q[i] # p[k]
    BY <1>2, <2>4 DEF Distinct
  <2>6. \A i \in 1..(m + 1) : r[i] \in K /\ \E j \in 1..k : r[i] = p[j]
    <3>1. TAKE i \in 1..(m + 1)
    <3>2. CASE i \in 1..m
      BY <1>2, <2>2, <2>4, <3>2
    <3>3. CASE i = m + 1
      <4>1. k \in 1..k
        BY <1>1
      <4>2. QED
        BY <1>4, <2>2, <3>3, <4>1
    <3>4. QED
      BY <2>3, <3>2, <3>3
  <2>7. \A i, j \in 1..(m + 1) : r[i] = r[j] => i = j
    <3>1. TAKE i, j \in 1..(m + 1)
    <3>2. \A a, b \in 1..m : q[a] = q[b] => a = b
      BY DEF Sifted, Distinct
    <3>3. QED
      BY <2>2, <2>3, <2>5, <3>2
  <2>8. Len(r) <= k
    BY <1>1, <2>2
  <2>9. Sifted(p, K, r, k)
    BY <2>2, <2>6, <2>7, <2>8 DEF Sifted, Distinct
  <2>10. QED
    BY <2>1, <2>9
<1>5. QED
  BY <1>3, <1>4

(* retain keeps the entries of K and no others, none of them twice. *)
LEMMA RetainFacts ==
  ASSUME NEW p \in Seq(Tx), NEW K, Distinct(p)
  PROVE  Sifted(p, K, Retain(p, K), Len(p))
<1> DEFINE n == Len(p)
<1>1. PICK f \in [0..n -> Seq(Tx)] :
        /\ f[0] = <<>> /\ Retain(p, K) = f[n]
        /\ \A k \in 1..n : f[k] = Retaining(K, f[k - 1], p[k])
  BY RetainSteps
<1> DEFINE T == {k \in 0..n : Sifted(p, K, f[k], k)}
<1>2. 0 \in T
  <2>1. Sifted(p, K, <<>>, 0)
    BY DEF Sifted, Distinct
  <2>2. 0 \in 0..n
    OBVIOUS
  <2>3. QED
    BY <1>1, <2>1, <2>2
<1>3. ASSUME NEW k \in 1..n, k - 1 \in T
      PROVE  k \in T
  <2>1. Sifted(p, K, f[k - 1], k - 1)
    BY <1>3
  <2>2. Sifted(p, K, f[k], k)
    BY <1>1, <2>1, SiftedStep
  <2>3. k \in 0..n
    OBVIOUS
  <2>4. QED
    BY <2>2, <2>3
<1>4. 0..n \subseteq T
  <2> HIDE DEF T
  <2>1. n \in Nat
    OBVIOUS
  <2>2. QED
    BY <1>2, <1>3, <2>1, LoopInduction
<1>5. n \in 0..n
  OBVIOUS
<1>6. QED
  BY <1>1, <1>4, <1>5

(* What retain leaves is a pool. *)
LEMMA RetainTyped ==
  ASSUME NEW p \in Seq(Tx), NEW K
  PROVE  Retain(p, K) \in Seq(Tx)
<1>1. Len(p) \in 0..Len(p)
  OBVIOUS
<1>2. QED
  BY <1>1, RetainSteps

-----------------------------------------------------------------------------
(* A pool that fits the state of the chain. *)
Fit(p, st) == /\ \A i \in 1..Len(p) : ~ Consumed(st, p[i])
              /\ Distinct(p) /\ Len(p) <= MaxPool

(* No transaction twice is injectivity of the pool. *)
LEMMA UnspentIsFit ==
  ASSUME NEW p \in Seq(Tx), NEW st
  PROVE  /\ IsInjective(p) <=> Distinct(p)
         /\ DOMAIN p = 1..Len(p)
  BY DEF IsInjective, Distinct

(* Fewer transactions fit as well, if none of them is consumed. *)
LEMMA RetainFits ==
  ASSUME NEW p \in Seq(Tx), NEW K, NEW st, Distinct(p), Len(p) <= MaxPool,
         \A tx \in K : (\E i \in 1..Len(p) : tx = p[i]) => ~ Consumed(st, tx)
  PROVE  Retain(p, K) \in Seq(Tx) /\ Fit(Retain(p, K), st)
<1> DEFINE q == Retain(p, K)
<1>1. Sifted(p, K, q, Len(p))
  BY RetainFacts
<1>2. q \in Seq(Tx) /\ Len(q) \in Nat /\ Len(p) \in Nat /\ MaxPool \in Nat /\ Len(q) <= Len(p)
  BY <1>1, MempoolAssumption DEF Sifted
<1>3. Len(q) <= MaxPool
  BY <1>2
<1> HIDE DEF q
<1>4. \A i \in 1..Len(q) : ~ Consumed(st, q[i])
  BY <1>1 DEF Sifted
<1>5. Fit(q, st)
  BY <1>1, <1>3, <1>4 DEF Fit, Sifted
<1>6. QED
  BY <1>2, <1>5 DEF q

(* A pruned pool holds nothing consumed. *)
LEMMA PruneFits ==
  ASSUME NEW p \in Seq(Tx), NEW st, Distinct(p), Len(p) <= MaxPool
  PROVE  Prune(p, st) \in Seq(Tx) /\ Fit(Prune(p, st), st)
<1> DEFINE K == {tx \in ToSet(p) : ~ Consumed(st, tx) /\ ~ Expired(tx)}
<1>1. \A tx \in K : ~ Consumed(st, tx)
  OBVIOUS
<1> HIDE DEF K
<1>2. Retain(p, K) \in Seq(Tx) /\ Fit(Retain(p, K), st)
  BY <1>1, RetainFits
<1>3. Prune(p, st) = Retain(p, K)
  BY DEF Prune, K
<1>4. QED
  BY <1>2, <1>3

(* submit_transaction lets in nothing consumed, pending or too many. *)
LEMMA SubmittedFits ==
  ASSUME NEW p \in Seq(Tx), NEW c, NEW tx \in Tx, Fit(p, State(c))
  PROVE  Fit(Submitted(p, c, tx), State(c))
<1>1. CASE Submitted(p, c, tx) = p
  BY <1>1
<1>2. CASE Submitted(p, c, tx) # p
  <2> DEFINE r == Append(p, tx)
             m == Len(p)
  <2>1. /\ Submitted(p, c, tx) = r /\ ~ Consumed(State(c), tx) /\ tx \notin ToSet(p)
        /\ m < MaxPool
    BY <1>2 DEF Submitted
  <2>2. m \in Nat /\ MaxPool \in Nat
    BY MempoolAssumption
  <2>3. Len(r) = m + 1 /\ (\A i \in 1..m : r[i] = p[i]) /\ r[m + 1] = tx
    BY <2>2
  <2>4. \A i \in 1..m : p[i] # tx
    BY <2>1 DEF ToSet
  <2>5. \A i \in 1..(m + 1) : i \in 1..m \/ i = m + 1
    BY <2>2
  <2> HIDE DEF r
  <2>6. \A i, j \in 1..(m + 1) : r[i] = r[j] => i = j
    BY <2>3, <2>4, <2>5 DEF Fit, Distinct
  <2>7. \A i \in 1..(m + 1) : ~ Consumed(State(c), r[i])
    BY <2>1, <2>3, <2>5 DEF Fit
  <2>8. Len(r) <= MaxPool
    BY <2>1, <2>2, <2>3
  <2>9. QED
    BY <2>1, <2>3, <2>6, <2>7, <2>8 DEF Fit, Distinct
<1>3. QED
  BY <1>1, <1>2

(* Nor does the resubmission of any sequence of orphans. *)
LEMMA ResubmittedFits ==
  ASSUME NEW p \in Seq(Tx), NEW c \in Seq(Block), NEW txs \in Seq(Tx), Fit(p, State(c))
  PROVE  Resubmitted(p, c, txs) \in Seq(Tx) /\ Fit(Resubmitted(p, c, txs), State(c))
<1> DEFINE n == Len(txs)
<1>0. n \in Nat /\ n \in 0..n /\ 0 \in 0..n /\ \A k \in 1..n : k \in 0..n /\ k - 1 \in 0..n
  OBVIOUS
<1>1. PICK f \in [0..n -> Seq(Tx)] :
        /\ f[0] = p /\ Resubmitted(p, c, txs) = f[n]
        /\ \A k \in 1..n : f[k] = Submitted(f[k - 1], c, txs[k])
  <2>1. \E f \in [0..Len(txs) -> Seq(Tx)] :
          /\ f[0] = p /\ Resubmitted(p, c, txs) = f[Len(txs)]
          /\ \A k \in 1..Len(txs) : f[k] = Submitted(f[k - 1], c, txs[k])
    BY ResubmitSteps, Zenon
  <2>2. QED
    BY <2>1, Zenon
<1> DEFINE T == {k \in 0..n : Fit(f[k], State(c))}
<1>2. 0 \in T
  BY <1>0, <1>1
<1>3. ASSUME NEW k \in 1..n, k - 1 \in T
      PROVE  k \in T
  <2>1. f[k - 1] \in Seq(Tx) /\ txs[k] \in Tx /\ Fit(f[k - 1], State(c))
    BY <1>0, <1>3
  <2>2. Fit(Submitted(f[k - 1], c, txs[k]), State(c))
    BY <2>1, SubmittedFits
  <2>3. QED
    BY <1>0, <1>1, <2>2
<1>4. 0..n \subseteq T
  <2> HIDE DEF T
  <2>1. QED
    BY <1>0, <1>2, <1>3, LoopInduction
<1>5. QED
  BY <1>0, <1>1, <1>4

(* The orphans are transactions. *)
LEMMA OrphansTyped ==
  ASSUME chain \in Seq(Block), NEW common \in 0..Len(chain), NEW new
  PROVE  Orphans(common, new) \in Seq(Tx)
<1> DEFINE tail == SubSeq(chain, common + 1, Len(chain))
           abandoned == FoldLeft(LAMBDA txs, b : txs \o b.txs, <<>>, tail)
<1>1. tail \in Seq(Block)
  <2>1. Len(chain) \in Nat /\ common + 1 \in 1..(Len(chain) + 1)
    OBVIOUS
  <2>2. QED
    BY <2>1
<1> HIDE DEF tail
<1>2. abandoned \in Seq(Tx)
  <2>1. Len(tail) \in 0..Len(tail)
    BY <1>1
  <2>2. QED
    <3>1. PICK f \in [0..Len(tail) -> Seq(Tx)] : abandoned = f[Len(tail)]
      BY <1>1, JoinSteps, Zenon
    <3>2. QED
      BY <2>1, <3>1
<1> HIDE DEF abandoned
<1>3. Retain(abandoned, ToSet(abandoned) \ TxIndex(new)) \in Seq(Tx)
  BY <1>2, RetainTyped
<1>4. Orphans(common, new) = Retain(abandoned, ToSet(abandoned) \ TxIndex(new))
  BY DEF Orphans, abandoned, tail
<1>5. QED
  BY <1>3, <1>4

-----------------------------------------------------------------------------
(* The chain is settled: no block, and no earlier one, holds a transaction   *)
(* whose nonce is not used in the state after the block.                     *)
Settled(c) == \A h \in 1..Len(c) : \A g \in 1..h : \A i \in 1..Len(c[g].txs) :
                 Consumed(c[h].after, c[g].txs[i])

(* The state of a chain is that of its last block, or of the genesis. *)
LEMMA StateTyped ==
  ASSUME NEW c \in Seq(Block)
  PROVE  State(c) \in St
<1>1. CASE c = <<>>
  BY <1>1, MempoolAssumption DEF State, Genesis, St
<1>2. CASE c # <<>>
  <2>1. Len(c) \in 1..Len(c)
    BY <1>2
  <2>2. c[Len(c)] \in Block
    BY <2>1
  <2>3. c[Len(c)].after \in St
    BY <2>2 DEF Block
  <2>4. QED
    BY <1>2, <2>3 DEF State, Last
<1>3. QED
  BY <1>1, <1>2

(* A transaction in the index stands in some block. *)
LEMMA TxIndexFacts ==
  ASSUME NEW c \in Seq(Block)
  PROVE  /\ TxIndex(c) \in SUBSET Tx
         /\ \A tx \in TxIndex(c) : \E g \in 1..Len(c) : \E i \in 1..Len(c[g].txs) : tx = c[g].txs[i]
<1>1. \A g \in 1..Len(c) : c[g] \in Block /\ c[g].txs \in Seq(Tx)
  <2>1. \A g \in 1..Len(c) : c[g] \in Block
    OBVIOUS
  <2>2. \A b \in Block : b.txs \in Seq(Tx)
    BY DEF Block
  <2>3. QED
    BY <2>1, <2>2
<1>2. \A g \in 1..Len(c) : DOMAIN c[g].txs = 1..Len(c[g].txs)
  BY <1>1
<1>3. ASSUME NEW tx \in TxIndex(c)
      PROVE  \E g \in 1..Len(c) : \E i \in 1..Len(c[g].txs) : tx = c[g].txs[i]
  <2>1. DOMAIN c = 1..Len(c)
    OBVIOUS
  <2>2. PICK g \in 1..Len(c) : tx \in ToSet(c[g].txs)
    BY <2>1 DEF TxIndex
  <2>3. \E i \in DOMAIN c[g].txs : tx = c[g].txs[i]
    BY <2>2 DEF ToSet
  <2>4. QED
    BY <1>2, <2>3
<1>4. \A tx \in TxIndex(c) : tx \in Tx
  <2>1. TAKE tx \in TxIndex(c)
  <2>2. PICK g \in 1..Len(c) : \E i \in 1..Len(c[g].txs) : tx = c[g].txs[i]
    BY <1>3
  <2>3. QED
    BY <1>1, <2>2
<1>5. QED
  BY <1>3, <1>4

(* What the chain holds is consumed in its state. *)
LEMMA IndexedConsumed ==
  ASSUME NEW c \in Seq(Block), Settled(c), NEW tx \in TxIndex(c)
  PROVE  Consumed(State(c), tx)
<1>1. PICK g \in 1..Len(c) : \E i \in 1..Len(c[g].txs) : tx = c[g].txs[i]
  BY TxIndexFacts
<1>2. Len(c) \in Nat /\ Len(c) \in 1..Len(c) /\ c # <<>>
  BY <1>1
<1>3. Consumed(c[Len(c)].after, tx)
  BY <1>1, <1>2 DEF Settled
<1>4. QED
  BY <1>2, <1>3 DEF State, Last

Start(c) == [ok |-> TRUE, st |-> State(c), seen |-> TxIndex(c)]

(* simulate starts from the state of the chain. *)
LEMMA StartTyped ==
  ASSUME NEW c \in Seq(Block)
  PROVE  Start(c) \in Sim
  BY StateTyped, TxIndexFacts DEF Start, Sim

(* The steps of simulate over a block. *)
LEMMA SimulatedSteps ==
  ASSUME NEW c \in Seq(Block), NEW txs \in Seq(Tx)
  PROVE  \E f \in [0..Len(txs) -> Sim] :
           /\ f[0] = Start(c) /\ Simulated(c, txs) = f[Len(txs)]
           /\ \A k \in 1..Len(txs) : f[k] = Run(f[k - 1], txs[k])
<1>1. Simulated(c, txs) = FoldLeft(Run, Start(c), txs)
  BY DEF Simulated, Start
<1>2. Start(c) \in Sim
  BY StartTyped
<1> DEFINE b == Start(c)
<1> HIDE DEF b
<1>3. b \in Sim
  BY <1>2 DEF b
<1>4. \E f \in [0..Len(txs) -> Sim] :
        /\ f[0] = b /\ FoldLeft(Run, b, txs) = f[Len(txs)]
        /\ \A k \in 1..Len(txs) : f[k] = Run(f[k - 1], txs[k])
  BY <1>3, RunSteps
<1>5. QED
  BY <1>1, <1>4 DEF b

(* simulate takes one transaction after the other. *)
LEMMA SimulatedAppend ==
  ASSUME NEW c \in Seq(Block), NEW txs \in Seq(Tx), NEW tx \in Tx
  PROVE  /\ Simulated(c, <<>>) = Start(c)
         /\ Simulated(c, txs) \in Sim
         /\ Simulated(c, Append(txs, tx)) = Run(Simulated(c, txs), tx)
<1> DEFINE n == Len(txs)
           u == Append(txs, tx)
<1>0. n \in Nat /\ n \in 0..n /\ 0 \in 0..n /\ \A k \in 1..n : k \in 0..n /\ k - 1 \in 0..n
  OBVIOUS
<1>1. PICK f \in [0..n -> Sim] :
        /\ f[0] = Start(c) /\ Simulated(c, txs) = f[n]
        /\ \A k \in 1..n : f[k] = Run(f[k - 1], txs[k])
  BY SimulatedSteps
<1>2. u \in Seq(Tx) /\ Len(u) = n + 1 /\ (\A k \in 1..n : u[k] = txs[k]) /\ u[n + 1] = tx
  OBVIOUS
<1> HIDE DEF u
<1>3. PICK g \in [0..(n + 1) -> Sim] :
        /\ g[0] = Start(c) /\ Simulated(c, u) = g[n + 1]
        /\ \A k \in 1..(n + 1) : g[k] = Run(g[k - 1], u[k])
  <2>1. PICK g \in [0..Len(u) -> Sim] :
        /\ g[0] = Start(c) /\ Simulated(c, u) = g[Len(u)]
        /\ \A k \in 1..Len(u) : g[k] = Run(g[k - 1], u[k])
    BY <1>2, SimulatedSteps
  <2>2. QED
    BY <1>2, <2>1
<1> DEFINE T == {k \in 0..n : f[k] = g[k]}
<1>4. 0 \in T
  BY <1>0, <1>1, <1>3
<1>5. ASSUME NEW k \in 1..n, k - 1 \in T
      PROVE  k \in T
  <2>1. k \in 1..(n + 1) /\ u[k] = txs[k] /\ f[k - 1] = g[k - 1]
    BY <1>0, <1>2, <1>5
  <2>2. QED
    BY <1>0, <1>1, <1>3, <2>1
<1>6. 0..n \subseteq T
  <2> HIDE DEF T
  <2>1. QED
    BY <1>0, <1>4, <1>5, LoopInduction
<1>7. Simulated(c, u) = Run(Simulated(c, txs), tx)
  <2>1. f[n] = g[n]
    BY <1>0, <1>6
  <2>2. n + 1 \in 1..(n + 1) /\ (n + 1) - 1 = n
    BY <1>0
  <2>3. g[n + 1] = Run(g[n], u[n + 1])
    BY <1>3, <2>2
  <2>4. QED
    BY <1>1, <1>2, <1>3, <2>1, <2>3
<1>8. Simulated(c, <<>>) = Start(c)
  <2>1. <<>> \in Seq(Tx) /\ Len(<<>>) = 0
    OBVIOUS
  <2>2. PICK e \in [0..Len(<<>>) -> Sim] : e[0] = Start(c) /\ Simulated(c, <<>>) = e[Len(<<>>)]
    BY <2>1, SimulatedSteps
  <2>3. QED
    BY <2>1, <2>2
<1>9. QED
  BY <1>0, <1>1, <1>7, <1>8 DEF u

(* After a run that was never refused, no nonce has gone back, and every     *)
(* transaction that ran is consumed and seen.                                *)
Ran(c, txs, sim, k) ==
  /\ sim \in Sim
  /\ sim.seen = TxIndex(c) \cup {txs[i] : i \in 1..k}
  /\ sim.ok => /\ \A a \in Account : State(c).nonce[a] <= sim.st.nonce[a]
               /\ \A i \in 1..k : Consumed(sim.st, txs[i])

(* A transaction that executes is consumed, and no nonce goes back. *)
LEMMA RunAdvances ==
  ASSUME NEW sim \in Sim, NEW tx \in Tx, Run(sim, tx).ok
  PROVE  /\ sim.ok /\ Consumed(Run(sim, tx).st, tx)
         /\ \A a \in Account : sim.st.nonce[a] \in Nat /\ Run(sim, tx).st.nonce[a] \in Nat
                               /\ sim.st.nonce[a] <= Run(sim, tx).st.nonce[a]
<1>1. /\ tx.from \in Account /\ tx.nonce \in Nat /\ sim.st.nonce \in [Account -> Nat]
  BY MempoolAssumption DEF Sim, St
<1>2. sim.ok /\ tx.nonce = sim.st.nonce[tx.from] + 1
  BY DEF Run, Applies
<1>3. Run(sim, tx).st.nonce = [sim.st.nonce EXCEPT ![tx.from] = tx.nonce]
  BY DEF Run, Applied
<1>4. \A a \in Account : Run(sim, tx).st.nonce[a] = IF a = tx.from THEN tx.nonce ELSE sim.st.nonce[a]
  BY <1>1, <1>3
<1>5. Consumed(Run(sim, tx).st, tx)
  BY <1>1, <1>4 DEF Consumed
<1>6. ASSUME NEW a \in Account
      PROVE  /\ sim.st.nonce[a] \in Nat /\ Run(sim, tx).st.nonce[a] \in Nat
             /\ sim.st.nonce[a] <= Run(sim, tx).st.nonce[a]
  BY <1>1, <1>2, <1>4
<1>7. QED
  BY <1>2, <1>5, <1>6

(* One more transaction executed: all so far are consumed after it. *)
LEMMA RanStep ==
  ASSUME NEW c \in Seq(Block), NEW txs \in Seq(Tx), NEW k \in 1..Len(txs), NEW sim,
         Ran(c, txs, sim, k - 1)
  PROVE  Ran(c, txs, Run(sim, txs[k]), k)
<1> DEFINE tx == txs[k]
           run == Run(sim, tx)
<1>0. k \in Nat /\ tx \in Tx /\ (\A i \in 1..k : i \in 1..(k - 1) \/ i = k) /\ k \in 1..k
      /\ (\A i \in 1..(k - 1) : i \in 1..k) /\ \A i \in 1..k : txs[i] \in Tx
  OBVIOUS
<1>1. sim \in Sim /\ run \in Sim
  BY <1>0, RunTyped DEF Ran
<1>2. run.seen = TxIndex(c) \cup {txs[i] : i \in 1..k}
  <2>1. run.seen = sim.seen \cup {tx}
    BY DEF Run
  <2>2. {txs[i] : i \in 1..k} = {txs[i] : i \in 1..(k - 1)} \cup {tx}
    BY <1>0
  <2>3. QED
    BY <2>1, <2>2 DEF Ran
<1>3. ASSUME run.ok
      PROVE  /\ \A a \in Account : State(c).nonce[a] <= run.st.nonce[a]
             /\ \A i \in 1..k : Consumed(run.st, txs[i])
  <2>1. /\ sim.ok /\ Consumed(run.st, tx)
        /\ \A a \in Account : sim.st.nonce[a] \in Nat /\ run.st.nonce[a] \in Nat
                               /\ sim.st.nonce[a] <= run.st.nonce[a]
    BY <1>0, <1>1, <1>3, RunAdvances
  <2>2. /\ \A a \in Account : State(c).nonce[a] <= sim.st.nonce[a]
        /\ \A i \in 1..(k - 1) : Consumed(sim.st, txs[i])
    BY <2>1 DEF Ran
  <2>3. \A a \in Account : State(c).nonce[a] \in Nat
    BY StateTyped DEF St
  <2>4. \A a \in Account : State(c).nonce[a] <= run.st.nonce[a]
    <3> HIDE DEF run
    <3>1. TAKE a \in Account
    <3>2. QED
      BY <2>1, <2>2, <2>3
  <2>5. \A i \in 1..k : txs[i].from \in Account /\ txs[i].nonce \in Nat
    BY <1>0, MempoolAssumption
  <2>6. \A i \in 1..(k - 1) : Consumed(run.st, txs[i])
    <3> HIDE DEF run
    <3>1. TAKE i \in 1..(k - 1)
    <3>2. txs[i].from \in Account /\ txs[i].nonce \in Nat
      BY <1>0, <2>5
    <3>3. txs[i].nonce <= sim.st.nonce[txs[i].from]
      BY <2>2 DEF Consumed
    <3>4. txs[i].nonce <= run.st.nonce[txs[i].from]
      BY <2>1, <3>2, <3>3
    <3>5. QED
      BY <3>4 DEF Consumed
  <2>7. QED
    BY <1>0, <2>1, <2>4, <2>6
<1> HIDE DEF run
<1>4. Ran(c, txs, run, k)
  BY <1>1, <1>2, <1>3 DEF Ran
<1>5. QED
  BY <1>4 DEF run

(* After a simulated block every transaction of it is consumed. *)
LEMMA SimulatedRan ==
  ASSUME NEW c \in Seq(Block), NEW txs \in Seq(Tx)
  PROVE  Ran(c, txs, Simulated(c, txs), Len(txs))
<1> DEFINE n == Len(txs)
<1>0. n \in Nat /\ n \in 0..n /\ 0 \in 0..n /\ \A k \in 1..n : k \in 0..n /\ k - 1 \in 0..n
  OBVIOUS
<1>1. PICK f \in [0..n -> Sim] :
        /\ f[0] = Start(c) /\ Simulated(c, txs) = f[n]
        /\ \A k \in 1..n : f[k] = Run(f[k - 1], txs[k])
  BY SimulatedSteps
<1> DEFINE T == {k \in 0..n : Ran(c, txs, f[k], k)}
<1>2. 0 \in T
  <2>1. \A a \in Account : State(c).nonce[a] \in Nat
    BY StateTyped DEF St
  <2>2. Start(c).seen = TxIndex(c) /\ Start(c).st = State(c) /\ {txs[i] : i \in 1..0} = {}
    BY DEF Start
  <2>3. \A a \in Account : State(c).nonce[a] <= Start(c).st.nonce[a]
    BY <2>1, <2>2
  <2>4. Ran(c, txs, Start(c), 0)
    BY <2>2, <2>3, StartTyped DEF Ran
  <2>5. QED
    BY <1>0, <1>1, <2>4
<1>3. ASSUME NEW k \in 1..n, k - 1 \in T
      PROVE  k \in T
  <2>1. Ran(c, txs, f[k - 1], k - 1)
    BY <1>3
  <2>2. Ran(c, txs, Run(f[k - 1], txs[k]), k)
    BY <2>1, RanStep
  <2>3. QED
    BY <1>0, <1>1, <2>2
<1>4. 0..n \subseteq T
  <2> HIDE DEF T
  <2>1. QED
    BY <1>0, <1>2, <1>3, LoopInduction
<1>5. QED
  BY <1>0, <1>1, <1>4

-----------------------------------------------------------------------------
Good(c) == c \in Seq(Block) /\ Settled(c)

(* A block that simulate accepts leaves a settled chain. *)
LEMMA AddBlockGood ==
  ASSUME NEW c, Good(c), NEW txs \in Seq(Tx), Simulated(c, txs).ok
  PROVE  Good(AddBlock(c, txs))
<1> DEFINE sim == Simulated(c, txs)
           b == [txs |-> txs, after |-> sim.st]
           d == Append(c, b)
           n == Len(c)
<1>1. c \in Seq(Block) /\ Settled(c) /\ n \in Nat
  BY DEF Good
<1>2. /\ sim.st \in St
      /\ \A a \in Account : State(c).nonce[a] <= sim.st.nonce[a]
      /\ \A i \in 1..Len(txs) : Consumed(sim.st, txs[i])
  BY <1>1, SimulatedRan DEF Ran, Sim
<1>3. b \in Block /\ b.txs = txs /\ b.after = sim.st
  BY <1>2 DEF Block
<1> HIDE DEF b, sim
<1>4. d \in Seq(Block) /\ Len(d) = n + 1 /\ (\A h \in 1..n : d[h] = c[h]) /\ d[n + 1] = b
  BY <1>1, <1>3
<1> HIDE DEF d
<1>5. ASSUME NEW h \in 1..(n + 1), NEW g \in 1..h, NEW i \in 1..Len(d[g].txs)
      PROVE  Consumed(d[h].after, d[g].txs[i])
  <2>1. CASE h \in 1..n
    <3>1. g \in 1..n
      BY <1>1, <2>1
    <3>2. QED
      BY <1>1, <1>4, <2>1, <3>1 DEF Settled
  <2>2. CASE h = n + 1 /\ g = n + 1
    BY <1>2, <1>3, <1>4, <2>2
  <2>3. CASE h = n + 1 /\ g # n + 1
    <3>1. g \in 1..n /\ n \in 1..n /\ g \in 1..Len(c) /\ c # <<>>
      BY <1>1, <2>3
    <3>2. d[g] = c[g] /\ i \in 1..Len(c[g].txs)
      BY <1>4, <3>1
    <3> DEFINE tx == c[g].txs[i]
    <3>3. Consumed(c[n].after, tx)
      BY <1>1, <3>1, <3>2 DEF Settled
    <3>4. State(c) = c[n].after
      BY <3>1 DEF State, Last
    <3>5. tx \in Tx
      <4>1. c[g] \in Block
        BY <1>1, <3>1
      <4>2. c[g].txs \in Seq(Tx)
        BY <4>1 DEF Block
      <4>3. QED
        BY <3>2, <4>2
    <3> HIDE DEF tx
    <3>6. tx.from \in Account /\ tx.nonce \in Nat
      BY <3>5, MempoolAssumption
    <3>7. State(c).nonce[tx.from] \in Nat /\ sim.st.nonce[tx.from] \in Nat
      BY <1>1, <1>2, <3>6, StateTyped DEF St
    <3>8. tx.nonce <= State(c).nonce[tx.from]
      BY <3>3, <3>4 DEF Consumed
    <3>9. tx.nonce <= sim.st.nonce[tx.from]
      BY <1>2, <3>6, <3>7, <3>8
    <3>10. Consumed(sim.st, tx)
      BY <3>9 DEF Consumed
    <3>11. QED
      BY <1>3, <1>4, <2>3, <3>2, <3>10 DEF tx
  <2>4. QED
    BY <1>1, <2>1, <2>2, <2>3
<1>6. Settled(d)
  BY <1>4, <1>5 DEF Settled
<1>7. AddBlock(c, txs) = d
  BY DEF AddBlock, d, b, sim
<1>8. QED
  BY <1>4, <1>6, <1>7 DEF Good

(* The index of a chain with one more block. *)
LEMMA IndexGrows ==
  ASSUME NEW c \in Seq(Block), NEW txs \in Seq(Tx)
  PROVE  TxIndex(c) \cup ToSet(txs) \subseteq TxIndex(AddBlock(c, txs))
<1> DEFINE b == [txs |-> txs, after |-> Simulated(c, txs).st]
           d == Append(c, b)
           n == Len(c)
<1>1. Simulated(c, txs).st \in St
  BY SimulatedRan DEF Ran, Sim
<1>2. b \in Block /\ b.txs = txs
  BY <1>1 DEF Block
<1> HIDE DEF b
<1>3. /\ n \in Nat /\ d \in Seq(Block) /\ Len(d) = n + 1
      /\ (\A h \in 1..n : d[h] = c[h]) /\ d[n + 1] = b
  BY <1>2
<1> HIDE DEF d
<1>4. /\ DOMAIN d = 1..(n + 1) /\ DOMAIN c = 1..n /\ n + 1 \in 1..(n + 1)
      /\ \A h \in 1..n : h \in 1..(n + 1)
  BY <1>3
<1>5. ASSUME NEW tx \in TxIndex(c)
      PROVE  tx \in TxIndex(d)
  <2>1. PICK h \in 1..n : tx \in ToSet(c[h].txs)
    BY <1>4 DEF TxIndex
  <2>2. QED
    BY <1>3, <1>4, <2>1 DEF TxIndex
<1>6. ASSUME NEW tx \in ToSet(txs)
      PROVE  tx \in TxIndex(d)
  BY <1>2, <1>3, <1>4 DEF TxIndex
<1>7. AddBlock(c, txs) = d
  BY DEF AddBlock, d, b
<1>8. QED
  BY <1>5, <1>6, <1>7

(* A reorg goes back to a chain whose states were settled too. *)
LEMMA PrefixGood ==
  ASSUME NEW c, Good(c), NEW k \in 0..Len(c)
  PROVE  Good(SubSeq(c, 1, k))
<1> DEFINE d == SubSeq(c, 1, k)
<1>1. c \in Seq(Block) /\ Settled(c) /\ Len(c) \in Nat
  BY DEF Good
<1>2. d \in Seq(Block) /\ Len(d) = k /\ \A h \in 1..k : d[h] = c[h]
  BY <1>1
<1> HIDE DEF d
<1>3. ASSUME NEW h \in 1..k, NEW g \in 1..h, NEW i \in 1..Len(d[g].txs)
      PROVE  Consumed(d[h].after, d[g].txs[i])
  <2>1. h \in 1..Len(c) /\ g \in 1..k
    BY <1>1
  <2>2. QED
    BY <1>1, <1>2, <2>1 DEF Settled
<1>4. Settled(d)
  BY <1>2, <1>3 DEF Settled
<1>5. QED
  BY <1>2, <1>4 DEF Good, d

(* The blocks of peers that add_block accepts. *)
LEMMA ValidBlocksFacts ==
  ASSUME NEW c, Good(c)
  PROVE  \A txs \in ValidBlocks(c) : txs \in Seq(Tx) /\ ValidBlock(c, txs)
<1> DEFINE A == {txs \in Seq(Tx) : ValidBlock(c, txs)}
           Longer(v) == {txs \in {Append(u, tx) : u \in v, tx \in Tx} : ValidBlock(c, txs)}
           E(h) == h = [n \in 0..MaxTxs |-> IF n = 0 THEN {<<>>}
                                            ELSE h[n - 1] \cup Longer(h[n - 1])]
           valid == CHOOSE h : E(h)
           G == [v \in SUBSET A |-> v \cup Longer(v)]
<1>0. c \in Seq(Block) /\ MaxTxs \in Nat
  BY MempoolAssumption DEF Good
<1>1. ValidBlocks(c) = valid[MaxTxs]
  BY DEF ValidBlocks
<1>2. {<<>>} \in SUBSET A
  <2>1. <<>> \in Seq(Tx) /\ Len(<<>>) = 0
    OBVIOUS
  <2>2. Simulated(c, <<>>).ok
    <3>1. SUFFICES Simulated(c, <<>>) = Start(c)
      BY DEF Start
    <3>2. PICK e \in [0..Len(<<>>) -> Sim] : e[0] = Start(c) /\ Simulated(c, <<>>) = e[Len(<<>>)]
      BY <1>0, <2>1, SimulatedSteps
    <3>3. QED
      BY <2>1, <3>2
  <2>3. ValidBlock(c, <<>>)
    BY <1>0, <2>1, <2>2 DEF ValidBlock
  <2>4. QED
    BY <2>1, <2>3
<1>3. ASSUME NEW v \in SUBSET A
      PROVE  v \cup Longer(v) \in SUBSET A
  <2>1. \A u \in v : u \in Seq(Tx)
    OBVIOUS
  <2>2. \A u \in v, tx \in Tx : Append(u, tx) \in Seq(Tx)
    BY <2>1
  <2>3. QED
    BY <2>2
<1> HIDE DEF A, Longer
<1>4. E(valid)
  <2>1. G \in [SUBSET A -> SUBSET A]
    BY <1>3
  <2>2. PICK f : LoopEquation(G, {<<>>}, MaxTxs, f) /\ f \in [0..MaxTxs -> SUBSET A]
    <3> DEFINE S == SUBSET A
               b == {<<>>}
    <3>1. b \in S /\ G \in [S -> S] /\ MaxTxs \in Nat
      BY <1>0, <1>2, <2>1
    <3> HIDE DEF S, b, G
    <3>2. \E f : LoopEquation(G, b, MaxTxs, f) /\ f \in [0..MaxTxs -> S]
      BY <3>1, LoopDefined
    <3>3. QED
      BY <3>2 DEF S, b
  <2>3. \A n \in 0..MaxTxs : n # 0 => n - 1 \in 0..MaxTxs
    BY <1>0
  <2>4. \A n \in 0..MaxTxs : n # 0 => G[f[n - 1]] = f[n - 1] \cup Longer(f[n - 1])
    BY <2>2, <2>3
  <2>5. E(f)
    BY <2>2, <2>4 DEF LoopEquation
  <2> HIDE DEF E
  <2>6. QED
    BY <2>5
<1> HIDE DEF valid
<1>5. valid[0] = {<<>>} /\ \A n \in 1..MaxTxs : valid[n] = valid[n - 1] \cup Longer(valid[n - 1])
  <2>1. 0 \in 0..MaxTxs /\ \A n \in 1..MaxTxs : n \in 0..MaxTxs /\ n # 0
    BY <1>0
  <2>2. \A n \in 0..MaxTxs : valid[n] = IF n = 0 THEN {<<>>} ELSE valid[n - 1] \cup Longer(valid[n - 1])
    BY <1>4
  <2>3. QED
    BY <2>1, <2>2
<1> DEFINE T == {n \in 0..MaxTxs : valid[n] \in SUBSET A}
<1>6. 0 \in T
  BY <1>0, <1>2, <1>5
<1>7. ASSUME NEW n \in 1..MaxTxs, n - 1 \in T
      PROVE  n \in T
  BY <1>0, <1>3, <1>5, <1>7
<1>8. 0..MaxTxs \subseteq T
  <2> HIDE DEF T
  <2>1. QED
    BY <1>0, <1>6, <1>7, LoopInduction
<1>9. valid[MaxTxs] \in SUBSET A
  BY <1>0, <1>8
<1>10. QED
  BY <1>1, <1>9 DEF A

(* The branches of peers are settled chains that hold what they grow on. *)
LEMMA BranchesGood ==
  ASSUME NEW c, Good(c), NEW k \in Nat
  PROVE  \A b \in Branches(c, k) : Good(b) /\ TxIndex(c) \subseteq TxIndex(b)
<1> DEFINE A == {b \in Seq(Block) : Settled(b) /\ TxIndex(c) \subseteq TxIndex(b)}
           Grown(v) == UNION {{AddBlock(b, txs) : txs \in ValidBlocks(b)} : b \in v}
           E(h) == h = [n \in 0..k |-> IF n = 0 THEN {c} ELSE Grown(h[n - 1])]
           grown == CHOOSE h : E(h)
           G == [v \in SUBSET A |-> Grown(v)]
<1>1. Branches(c, k) = grown[k]
  BY DEF Branches
<1>2. {c} \in SUBSET A
  BY DEF Good
<1>3. ASSUME NEW v \in SUBSET A
      PROVE  Grown(v) \in SUBSET A
  <2>1. ASSUME NEW b \in v, NEW txs \in ValidBlocks(b)
        PROVE  AddBlock(b, txs) \in A
    <3>1. Good(b)
      BY DEF Good
    <3>2. txs \in Seq(Tx) /\ Simulated(b, txs).ok
      BY <3>1, ValidBlocksFacts DEF ValidBlock
    <3>3. Good(AddBlock(b, txs))
      BY <3>1, <3>2, AddBlockGood
    <3>4. TxIndex(b) \subseteq TxIndex(AddBlock(b, txs)) /\ TxIndex(c) \subseteq TxIndex(b)
      BY <3>1, <3>2, IndexGrows DEF Good
    <3>5. QED
      BY <3>3, <3>4 DEF Good
  <2>2. QED
    BY <2>1
<1> HIDE DEF A, Grown
<1>4. E(grown)
  <2>1. G \in [SUBSET A -> SUBSET A]
    BY <1>3
  <2>2. PICK f : LoopEquation(G, {c}, k, f) /\ f \in [0..k -> SUBSET A]
    <3> DEFINE S == SUBSET A
               b == {c}
    <3>1. b \in S /\ G \in [S -> S] /\ k \in Nat
      BY <1>2, <2>1
    <3> HIDE DEF S, b, G
    <3>2. \E f : LoopEquation(G, b, k, f) /\ f \in [0..k -> S]
      BY <3>1, LoopDefined
    <3>3. QED
      BY <3>2 DEF S, b
  <2>3. \A n \in 0..k : n # 0 => n - 1 \in 0..k
    OBVIOUS
  <2>4. \A n \in 0..k : n # 0 => G[f[n - 1]] = Grown(f[n - 1])
    BY <2>2, <2>3
  <2>5. E(f)
    BY <2>2, <2>4 DEF LoopEquation
  <2> HIDE DEF E
  <2>6. QED
    BY <2>5
<1> HIDE DEF grown
<1>5. grown[0] = {c} /\ \A n \in 1..k : grown[n] = Grown(grown[n - 1])
  <2>1. 0 \in 0..k /\ \A n \in 1..k : n \in 0..k /\ n # 0
    OBVIOUS
  <2>2. \A n \in 0..k : grown[n] = IF n = 0 THEN {c} ELSE Grown(grown[n - 1])
    BY <1>4
  <2>3. QED
    BY <2>1, <2>2
<1> DEFINE T == {n \in 0..k : grown[n] \in SUBSET A}
<1>6. 0 \in T
  BY <1>2, <1>5
<1>7. ASSUME NEW n \in 1..k, n - 1 \in T
      PROVE  n \in T
  BY <1>3, <1>5, <1>7
<1>8. 0..k \subseteq T
  <2> HIDE DEF T
  <2>1. QED
    BY <1>6, <1>7, LoopInduction
<1>9. grown[k] \in SUBSET A
  BY <1>8
<1>10. QED
  BY <1>1, <1>9 DEF A, Good

-----------------------------------------------------------------------------
(* The sort orders the whole pool and nothing else. *)
LEMMA PendentesFacts ==
  ASSUME pool \in Seq(Tx)
  PROVE  /\ Pendentes \in Seq(Tx)
         /\ \A i \in 1..Len(pool) : \E k \in 1..Len(Pendentes) : Pendentes[k] = pool[i]
         /\ \A k \in 1..Len(Pendentes) : \E i \in 1..Len(pool) : Pendentes[k] = pool[i]
<1> DEFINE n == Len(pool)
           R == {e \in (1..n) \X (1..n) : Before(e[1], e[2])}
           At(k) == CHOOSE j \in 1..n : Rank(j) = k
<1>0. n \in Nat /\ DOMAIN pool = 1..n /\ \A i \in 1..n : pool[i] \in Tx
  OBVIOUS
<1>1. \A i, j \in 1..n : <<i, j>> \in R <=> Before(i, j)
  OBVIOUS
<1>2. \A i \in 1..n : i \in Nat /\ pool[i].nonce \in Nat /\ pool[i].time \in Nat
  <2>1. TAKE i \in 1..n
  <2>2. pool[i] \in [from : Account, to : Account, nonce : Nat, time : Nat]
    BY <1>0, MempoolAssumption
  <2>3. QED
    BY <1>0, <2>2
<1> HIDE DEF R
<1>3. StrictOrder(n, R)
  <2>1. \A i \in 1..n : ~ Before(i, i)
    BY <1>2 DEF Before
  <2>2. \A i, j, k \in 1..n : Before(i, j) /\ Before(j, k) => Before(i, k)
    BY <1>2 DEF Before
  <2>3. \A i, j \in 1..n : i # j => Before(i, j) \/ Before(j, i)
    BY <1>2 DEF Before
  <2>4. QED
    BY <1>1, <2>1, <2>2, <2>3 DEF StrictOrder
<1>4. \A j \in 1..n : Rank(j) = Cardinality({i \in 1..n : <<i, j>> \in R}) + 1
  <2>1. TAKE j \in 1..n
  <2>2. {i \in DOMAIN pool : Before(i, j)} = {i \in 1..n : <<i, j>> \in R}
    BY <1>0, <1>1
  <2>3. QED
    BY <2>2 DEF Rank
<1>5. /\ \A j \in 1..n : Rank(j) \in 1..n
      /\ \A k \in 1..n : \E j \in 1..n : Rank(j) = k
      /\ \A i, j \in 1..n : Rank(i) = Rank(j) => i = j
  <2> DEFINE C(j) == Cardinality({i \in 1..n : <<i, j>> \in R})
  <2>1. /\ \A j \in 1..n : C(j) + 1 \in 1..n
        /\ \A k \in 1..n : \E j \in 1..n : C(j) + 1 = k
        /\ \A i, j \in 1..n : C(i) = C(j) => i = j
    BY <1>0, <1>3, RanksAreNumbers
  <2>2. \A j \in 1..n : C(j) \in Nat /\ Rank(j) = C(j) + 1
    <3>1. IsFiniteSet(1..n)
      BY <1>0, PositionsFinite
    <3>2. \A j \in 1..n : {i \in 1..n : <<i, j>> \in R} \in SUBSET (1..n)
      OBVIOUS
    <3>3. \A j \in 1..n : IsFiniteSet({i \in 1..n : <<i, j>> \in R})
      BY <3>1, <3>2, FS_Subset
    <3>4. QED
      BY <1>4, <3>3, FS_CardinalityType
  <2> HIDE DEF C
  <2>3. \A i, j \in 1..n : Rank(i) = Rank(j) => C(i) = C(j)
    BY <2>2
  <2>4. QED
    BY <2>1, <2>2, <2>3
<1>6. \A k \in 1..n : At(k) \in 1..n /\ Rank(At(k)) = k
  BY <1>5
<1>7. Pendentes = [k \in 1..n |-> pool[At(k)]]
  BY <1>0 DEF Pendentes
<1> HIDE DEF At
<1>8. Pendentes \in Seq(Tx) /\ Len(Pendentes) = n
  <2>1. \A k \in 1..n : pool[At(k)] \in Tx
    BY <1>0, <1>6
  <2>2. QED
    BY <1>0, <1>7, <2>1
<1>9. ASSUME NEW i \in 1..n
      PROVE  \E k \in 1..n : Pendentes[k] = pool[i]
  <2>1. Rank(i) \in 1..n
    BY <1>5
  <2>2. At(Rank(i)) = i
    BY <1>5, <1>6, <2>1
  <2>3. Pendentes[Rank(i)] = pool[i]
    BY <1>7, <2>1, <2>2
  <2>4. QED
    BY <2>1, <2>3
<1>10. \A k \in 1..n : \E i \in 1..n : Pendentes[k] = pool[i]
  BY <1>6, <1>7
<1>11. QED
  BY <1>8, <1>9, <1>10

-----------------------------------------------------------------------------
(* A selection that add_block accepts. *)
Accepted(c, sel) == /\ sel \in Sel /\ Len(sel.txs) <= MaxTxs
                    /\ Simulated(c, sel.txs).ok /\ Simulated(c, sel.txs).st = sel.st

(* A selection that simulate accepts stays one with each attempt. *)
LEMMA TryAccepted ==
  ASSUME NEW c, Good(c), NEW sel, Accepted(c, sel), NEW tx \in Tx
  PROVE  Accepted(c, Try(sel, tx))
<1> DEFINE sim == Simulated(c, sel.txs)
           txs == Append(sel.txs, tx)
<1>0. c \in Seq(Block) /\ Settled(c) /\ sel \in Sel /\ sel.txs \in Seq(Tx) /\ sel.st \in St
      /\ Len(sel.txs) \in Nat /\ MaxTxs \in Nat
  BY MempoolAssumption DEF Good, Accepted, Sel
<1>1. CASE Try(sel, tx) = sel
  BY <1>1
<1>2. CASE Try(sel, tx) # sel
  <2>1. /\ Len(sel.txs) < MaxTxs /\ tx \notin ToSet(sel.txs) /\ Applies(sel.st, tx)
        /\ Try(sel, tx) = [txs |-> txs, st |-> Applied(sel.st, tx)]
    BY <1>2 DEF Try
  <2>2. sim \in Sim /\ sim.ok /\ sim.st = sel.st
        /\ sim.seen = TxIndex(c) \cup {sel.txs[i] : i \in 1..Len(sel.txs)}
        /\ \A a \in Account : State(c).nonce[a] <= sim.st.nonce[a]
    BY <1>0, SimulatedRan DEF Accepted, Ran
  <2>3. tx \notin sim.seen
    <3>1. tx \notin {sel.txs[i] : i \in 1..Len(sel.txs)}
      <4>1. DOMAIN sel.txs = 1..Len(sel.txs)
        BY <1>0
      <4>2. QED
        BY <2>1, <4>1 DEF ToSet
    <3>2. tx \notin TxIndex(c)
      <4>1. SUFFICES ASSUME tx \in TxIndex(c) PROVE FALSE
        OBVIOUS
      <4>2. tx.nonce <= State(c).nonce[tx.from]
        BY <1>0, <4>1, IndexedConsumed DEF Consumed
      <4>3. tx.nonce = sel.st.nonce[tx.from] + 1
        BY <2>1 DEF Applies
      <4>4. tx.from \in Account /\ tx.nonce \in Nat
        BY MempoolAssumption
      <4>5. State(c).nonce[tx.from] \in Nat /\ sel.st.nonce[tx.from] \in Nat
        BY <1>0, <4>4, StateTyped DEF St
      <4>6. State(c).nonce[tx.from] <= sel.st.nonce[tx.from]
        BY <2>2, <4>4
      <4>7. QED
        BY <4>2, <4>3, <4>4, <4>5, <4>6
    <3>3. QED
      BY <2>2, <3>1, <3>2
  <2>4. Simulated(c, txs) = Run(sim, tx)
    BY <1>0, SimulatedAppend
  <2>5. Run(sim, tx).ok /\ Run(sim, tx).st = Applied(sel.st, tx)
    BY <2>1, <2>2, <2>3 DEF Run
  <2>6. txs \in Seq(Tx) /\ Len(txs) <= MaxTxs
    BY <1>0, <2>1
  <2>7. Try(sel, tx) \in Sel /\ Try(sel, tx).txs = txs /\ Try(sel, tx).st = Applied(sel.st, tx)
    <3>1. Try(sel, tx) \in Sel
      BY <1>0, TryTyped
    <3>2. QED
      BY <2>1, <3>1
  <2> HIDE DEF txs, sim
  <2>8. QED
    BY <2>4, <2>5, <2>6, <2>7 DEF Accepted
<1>3. QED
  BY <1>1, <1>2

(* A sweep tries every pending transaction, and either chooses one or leaves *)
(* the selection, on which none of them succeeds, as it was.                 *)
Fruitless(sel) == \A k \in 1..Len(Pendentes) : Try(sel, Pendentes[k]) = sel

(* An attempt chooses its transaction or changes nothing. *)
LEMMA TryGrows ==
  ASSUME NEW sel \in Sel, NEW tx
  PROVE  \/ Try(sel, tx) = sel
         \/ Len(Try(sel, tx).txs) = Len(sel.txs) + 1
<1>1. sel.txs \in Seq(Tx)
  BY DEF Sel
<1>2. Len(Append(sel.txs, tx)) = Len(sel.txs) + 1
  BY <1>1
<1>3. QED
  BY <1>2 DEF Try

(* A sweep chooses something, or nothing pending can be chosen any more. *)
LEMMA SweepFacts ==
  ASSUME pool \in Seq(Tx), NEW c, Good(c), NEW sel, Accepted(c, sel)
  PROVE  /\ Accepted(c, FoldLeft(Try, sel, Pendentes))
         /\ \/ FoldLeft(Try, sel, Pendentes) = sel /\ Fruitless(sel)
            \/ Len(FoldLeft(Try, sel, Pendentes).txs) >= Len(sel.txs) + 1
<1> DEFINE n == Len(Pendentes)
           m == Len(sel.txs)
<1>0. /\ n \in Nat /\ n \in 0..n /\ 0 \in 0..n /\ \A k \in 1..n : k \in 0..n /\ k - 1 \in 0..n
      /\ Pendentes \in Seq(Tx) /\ (\A k \in 1..n : Pendentes[k] \in Tx)
  BY PendentesFacts
<1>1. sel \in Sel /\ m \in Nat
  BY DEF Accepted, Sel
<1>2. PICK f \in [0..n -> Sel] :
        /\ f[0] = sel /\ FoldLeft(Try, sel, Pendentes) = f[n]
        /\ \A k \in 1..n : f[k] = Try(f[k - 1], Pendentes[k])
  BY <1>0, <1>1, TrySteps
<1> DEFINE Tried(k) == \/ f[k] = sel /\ \A i \in 1..k : Try(sel, Pendentes[i]) = sel
                       \/ Len(f[k].txs) >= m + 1
           T == {k \in 0..n : Accepted(c, f[k]) /\ Tried(k)}
<1>3. 0 \in T
  BY <1>0, <1>2
<1>4. ASSUME NEW k \in 1..n, k - 1 \in T
      PROVE  k \in T
  <2>1. f[k - 1] \in Sel /\ Accepted(c, f[k - 1]) /\ Tried(k - 1) /\ Pendentes[k] \in Tx
        /\ f[k] = Try(f[k - 1], Pendentes[k])
    BY <1>0, <1>2, <1>4
  <2>2. Accepted(c, f[k])
    BY <2>1, TryAccepted
  <2>3. Tried(k)
    <3>1. CASE Len(f[k - 1].txs) >= m + 1
      <4>1. f[k] = f[k - 1] \/ Len(f[k].txs) = Len(f[k - 1].txs) + 1
        BY <2>1, TryGrows
      <4>2. Len(f[k - 1].txs) \in Nat
        BY <2>1 DEF Sel
      <4>3. Len(f[k].txs) >= m + 1
        BY <1>1, <3>1, <4>1, <4>2
      <4>4. QED
        BY <4>3
    <3>2. CASE f[k - 1] = sel /\ \A i \in 1..(k - 1) : Try(sel, Pendentes[i]) = sel
      <4>1. \A i \in 1..k : i \in 1..(k - 1) \/ i = k
        BY <1>0
      <4>2. f[k] = sel \/ Len(f[k].txs) = m + 1
        BY <1>1, <2>1, <3>2, TryGrows
      <4>3. CASE f[k] = sel
        BY <2>1, <3>2, <4>1, <4>3
      <4>4. CASE Len(f[k].txs) = m + 1
        BY <1>1, <4>4
      <4>5. QED
        BY <4>2, <4>3, <4>4
    <3>3. QED
      BY <2>1, <3>1, <3>2
  <2>4. QED
    BY <1>0, <2>2, <2>3
<1>5. 0..n \subseteq T
  <2> HIDE DEF T
  <2>1. QED
    BY <1>0, <1>3, <1>4, LoopInduction
<1>6. Accepted(c, f[n]) /\ Tried(n)
  BY <1>0, <1>5
<1>7. QED
  BY <1>2, <1>6 DEF Fruitless

(* The sweeps. *)
LEMMA SelectedSteps ==
  ASSUME pool \in Seq(Tx), chain \in Seq(Block)
  PROVE  \E f \in [0..MaxTxs -> Sel] :
           /\ f[0] = [txs |-> <<>>, st |-> State(chain)] /\ Selected = f[MaxTxs]
           /\ \A k \in 1..MaxTxs : f[k] = FoldLeft(Try, f[k - 1], Pendentes)
<1> DEFINE b == [txs |-> <<>>, st |-> State(chain)]
           E(h) == h = [k \in 0..MaxTxs |-> IF k = 0 THEN b
                                            ELSE FoldLeft(Try, h[k - 1], Pendentes)]
           h == CHOOSE g : E(g)
           G == [x \in Sel |-> FoldLeft(Try, x, Pendentes)]
<1>0. MaxTxs \in Nat /\ MaxTxs \in 0..MaxTxs /\ 0 \in 0..MaxTxs
      /\ \A k \in 1..MaxTxs : k \in 0..MaxTxs /\ k - 1 \in 0..MaxTxs /\ k # 0
  <2>1. MaxTxs \in Nat
    BY MempoolAssumption
  <2>2. QED
    BY <2>1
<1>1. Selected = h[MaxTxs]
  BY DEF Selected
<1>2. b \in Sel
  BY NoneTyped, StateTyped DEF Sel
<1>3. \A x \in Sel : FoldLeft(Try, x, Pendentes) \in Sel
  <2>1. TAKE x \in Sel
  <2>2. Pendentes \in Seq(Tx)
    BY PendentesFacts
  <2>3. PICK f \in [0..Len(Pendentes) -> Sel] : FoldLeft(Try, x, Pendentes) = f[Len(Pendentes)]
    BY <2>2, TrySteps
  <2>4. Len(Pendentes) \in 0..Len(Pendentes)
    BY <2>2
  <2>5. QED
    BY <2>3, <2>4
<1> HIDE DEF b
<1>4. E(h)
  <2>1. G \in [Sel -> Sel]
    BY <1>3
  <2>2. PICK f : LoopEquation(G, b, MaxTxs, f) /\ f \in [0..MaxTxs -> Sel]
    BY <1>0, <1>2, <2>1, LoopDefined
  <2>3. \A k \in 0..MaxTxs : k # 0 => k - 1 \in 0..MaxTxs
    BY <1>0
  <2>4. \A k \in 0..MaxTxs : k # 0 => G[f[k - 1]] = FoldLeft(Try, f[k - 1], Pendentes)
    BY <2>2, <2>3
  <2>5. E(f)
    BY <2>2, <2>4 DEF LoopEquation
  <2> HIDE DEF E
  <2>6. QED
    BY <2>5
<1> HIDE DEF h
<1>5. h[0] = b /\ \A k \in 1..MaxTxs : h[k] = FoldLeft(Try, h[k - 1], Pendentes)
  <2>1. \A k \in 0..MaxTxs : h[k] = IF k = 0 THEN b ELSE FoldLeft(Try, h[k - 1], Pendentes)
    BY <1>4
  <2>2. QED
    BY <1>0, <2>1
<1> DEFINE T == {k \in 0..MaxTxs : h[k] \in Sel}
<1>6. 0 \in T
  BY <1>0, <1>2, <1>5
<1>7. ASSUME NEW k \in 1..MaxTxs, k - 1 \in T
      PROVE  k \in T
  BY <1>0, <1>3, <1>5, <1>7
<1>8. 0..MaxTxs \subseteq T
  <2> HIDE DEF T
  <2>1. QED
    BY <1>0, <1>6, <1>7, LoopInduction
<1>9. h \in [0..MaxTxs -> Sel]
  <2>1. h = [k \in 0..MaxTxs |-> h[k]]
    BY <1>4
  <2>2. QED
    BY <1>8, <2>1
<1>10. QED
  BY <1>1, <1>5, <1>9 DEF b

(* A sweep on which nothing succeeds changes nothing. *)
LEMMA FruitlessSweep ==
  ASSUME pool \in Seq(Tx), NEW c, NEW sel, Accepted(c, sel), Fruitless(sel)
  PROVE  FoldLeft(Try, sel, Pendentes) = sel
<1> DEFINE n == Len(Pendentes)
<1>0. /\ n \in Nat /\ n \in 0..n /\ 0 \in 0..n /\ \A k \in 1..n : k \in 0..n /\ k - 1 \in 0..n
      /\ Pendentes \in Seq(Tx) /\ sel \in Sel
  BY PendentesFacts DEF Accepted
<1>1. PICK f \in [0..n -> Sel] :
        /\ f[0] = sel /\ FoldLeft(Try, sel, Pendentes) = f[n]
        /\ \A k \in 1..n : f[k] = Try(f[k - 1], Pendentes[k])
  BY <1>0, TrySteps
<1> DEFINE T == {k \in 0..n : f[k] = sel}
<1>2. 0 \in T
  BY <1>0, <1>1
<1>3. ASSUME NEW k \in 1..n, k - 1 \in T
      PROVE  k \in T
  BY <1>0, <1>1, <1>3 DEF Fruitless
<1>4. 0..n \subseteq T
  <2> HIDE DEF T
  <2>1. QED
    BY <1>0, <1>2, <1>3, LoopInduction
<1>5. QED
  BY <1>0, <1>1, <1>4

(* As many sweeps as a block has transactions are enough. *)
LEMMA SelectedFacts ==
  ASSUME pool \in Seq(Tx), Good(chain)
  PROVE  /\ Accepted(chain, Selected)
         /\ Len(Selected.txs) >= MaxTxs \/ Fruitless(Selected)
<1>0. MaxTxs \in Nat /\ MaxTxs \in 0..MaxTxs /\ 0 \in 0..MaxTxs /\ chain \in Seq(Block)
      /\ \A k \in 1..MaxTxs : k \in 0..MaxTxs /\ k - 1 \in 0..MaxTxs /\ k \in Nat
  <2>1. MaxTxs \in Nat /\ chain \in Seq(Block)
    BY MempoolAssumption DEF Good
  <2>2. QED
    BY <2>1
<1>1. PICK f \in [0..MaxTxs -> Sel] :
        /\ f[0] = [txs |-> <<>>, st |-> State(chain)] /\ Selected = f[MaxTxs]
        /\ \A k \in 1..MaxTxs : f[k] = FoldLeft(Try, f[k - 1], Pendentes)
  BY <1>0, SelectedSteps
<1> DEFINE Swept(k) == Len(f[k].txs) >= k \/ Fruitless(f[k])
           T == {k \in 0..MaxTxs : Accepted(chain, f[k]) /\ Swept(k)}
<1>2. 0 \in T
  <2>1. f[0] \in Sel /\ f[0].txs = <<>> /\ f[0].st = State(chain)
    BY <1>0, <1>1
  <2>2. Len(<<>>) = 0
    OBVIOUS
  <2>3. Simulated(chain, <<>>) = Start(chain)
    <3>1. PICK e \in [0..Len(<<>>) -> Sim] :
            e[0] = Start(chain) /\ Simulated(chain, <<>>) = e[Len(<<>>)]
      BY <1>0, NoneTyped, SimulatedSteps
    <3>2. QED
      BY <2>2, <3>1
  <2>4. Start(chain).ok /\ Start(chain).st = State(chain)
    BY DEF Start
  <2>5. Accepted(chain, f[0])
    BY <1>0, <2>1, <2>2, <2>3, <2>4 DEF Accepted
  <2>6. Swept(0)
    BY <2>1, <2>2
  <2>7. QED
    BY <1>0, <2>5, <2>6
<1>3. ASSUME NEW k \in 1..MaxTxs, k - 1 \in T
      PROVE  k \in T
  <2>1. Accepted(chain, f[k - 1]) /\ Swept(k - 1) /\ f[k] = FoldLeft(Try, f[k - 1], Pendentes)
    BY <1>1, <1>3
  <2>2. /\ Accepted(chain, f[k])
        /\ \/ f[k] = f[k - 1] /\ Fruitless(f[k - 1])
           \/ Len(f[k].txs) >= Len(f[k - 1].txs) + 1
    BY <2>1, SweepFacts
  <2>3. Len(f[k].txs) \in Nat /\ Len(f[k - 1].txs) \in Nat
    BY <2>1, <2>2 DEF Accepted, Sel
  <2>4. CASE f[k] = f[k - 1] /\ Fruitless(f[k - 1])
    BY <1>0, <2>2, <2>4
  <2>5. CASE Len(f[k].txs) >= Len(f[k - 1].txs) + 1
    <3>1. CASE Len(f[k - 1].txs) >= k - 1
      <4>1. Len(f[k].txs) >= k
        BY <1>0, <2>3, <2>5, <3>1
      <4>2. QED
        BY <1>0, <2>2, <4>1
    <3>2. CASE Fruitless(f[k - 1])
      <4>1. f[k] = f[k - 1]
        BY <2>1, <3>2, FruitlessSweep
      <4>2. QED
        BY <2>3, <2>5, <4>1
    <3>3. QED
      BY <2>1, <3>1, <3>2
  <2>6. QED
    BY <2>2, <2>4, <2>5
<1>4. 0..MaxTxs \subseteq T
  <2> HIDE DEF T
  <2>1. QED
    BY <1>0, <1>2, <1>3, LoopInduction
<1>5. Accepted(chain, f[MaxTxs]) /\ Swept(MaxTxs)
  BY <1>0, <1>4
<1>6. QED
  BY <1>1, <1>5

-----------------------------------------------------------------------------
(* The inductive invariant. *)
PoolInv == pool \in Seq(Tx) /\ Good(chain) /\ PoolUnspent

(* The invariant in the form that the lemmas on pools use. *)
LEMMA PoolFits ==
  ASSUME PoolInv
  PROVE  pool \in Seq(Tx) /\ Good(chain) /\ chain \in Seq(Block) /\ Fit(pool, State(chain))
  BY UnspentIsFit DEF PoolInv, PoolUnspent, Fit, Good

(* And back. *)
LEMMA FitsPool ==
  ASSUME pool' \in Seq(Tx), Good(chain'), Fit(pool', State(chain'))
  PROVE  PoolInv'
<1>1. IsInjective(pool') /\ DOMAIN pool' = 1..Len(pool')
  BY UnspentIsFit DEF Fit
<1>2. PoolUnspent'
  BY <1>1 DEF PoolUnspent, Fit, State, Genesis, Last, Consumed
<1>3. QED
  BY <1>2 DEF PoolInv, Good, Settled, Consumed

(* The producer leaves an unspent pool, whatever it selected. *)
LEMMA KeptFits ==
  ASSUME PoolInv, NEW sel
  PROVE  Kept(sel) \in Seq(Tx) /\ Fit(Kept(sel), State(chain))
<1> DEFINE K == {tx \in ToSet(pool) : \/ tx \in ToSet(sel.txs)
                                      \/ tx.nonce > sel.st.nonce[tx.from] + 1}
<1>1. pool \in Seq(Tx) /\ Fit(pool, State(chain))
  BY PoolFits
<1>2. Kept(sel) = Retain(pool, K)
  BY DEF Kept
<1> HIDE DEF K
<1>3. Distinct(pool) /\ Len(pool) <= MaxPool
      /\ \A tx \in K : (\E i \in 1..Len(pool) : tx = pool[i]) => ~ Consumed(State(chain), tx)
  BY <1>1 DEF Fit
<1>4. QED
  BY <1>1, <1>2, <1>3, RetainFits

(* produce_block and add_block accept what was selected. *)
LEMMA ChosenIsValid ==
  ASSUME PoolInv
  PROVE  /\ Selected.txs \in Seq(Tx) /\ ValidBlock(chain, Selected.txs)
         /\ Good(AddBlock(chain, Selected.txs))
<1>1. pool \in Seq(Tx) /\ Good(chain)
  BY PoolFits
<1>2. Accepted(chain, Selected)
  BY <1>1, SelectedFacts
<1>3. Selected.txs \in Seq(Tx) /\ Simulated(chain, Selected.txs).ok /\ Len(Selected.txs) <= MaxTxs
  BY <1>2 DEF Accepted, Sel
<1>4. QED
  BY <1>1, <1>3, AddBlockGood DEF ValidBlock

(* An empty pool over the genesis. *)
LEMMA PoolInit ==
  ASSUME Init
  PROVE  PoolInv
<1>1. pool = <<>> /\ chain = <<>> /\ Len(<<>>) = 0 /\ <<>> \in Seq(Tx) /\ <<>> \in Seq(Block)
  BY DEF Init
<1>2. Good(chain)
  BY <1>1 DEF Good, Settled
<1>3. PoolUnspent
  BY <1>1, MempoolAssumption DEF PoolUnspent, IsInjective
<1>4. QED
  BY <1>1, <1>2, <1>3 DEF PoolInv

(* A submission keeps the invariant. *)
LEMMA SubmitStep ==
  ASSUME PoolInv, NEW tx \in Tx, Submit(tx)
  PROVE  PoolInv'
<1>1. pool \in Seq(Tx) /\ Good(chain) /\ Fit(pool, State(chain))
  BY PoolFits
<1>2. pool' = Submitted(pool, chain, tx) /\ chain' = chain
  BY DEF Submit
<1>3. pool' \in Seq(Tx) /\ Fit(pool', State(chain))
  BY <1>1, <1>2, SubmittedTyped, SubmittedFits
<1>4. QED
  BY <1>1, <1>2, <1>3, FitsPool

(* A block produced keeps it: what was selected leaves with it. *)
LEMMA ProduceStep ==
  ASSUME PoolInv, Produce
  PROVE  PoolInv'
<1> DEFINE new == AddBlock(chain, Selected.txs)
<1>1. chain' = new /\ pool' = Prune(Kept(Selected), State(chain'))
  BY DEF Produce
<1>2. Good(new)
  BY ChosenIsValid
<1>3. Kept(Selected) \in Seq(Tx) /\ Distinct(Kept(Selected)) /\ Len(Kept(Selected)) <= MaxPool
  BY KeptFits DEF Fit
<1>4. pool' \in Seq(Tx) /\ Fit(pool', State(new))
  BY <1>1, <1>3, PruneFits
<1> HIDE DEF new
<1>5. QED
  BY <1>1, <1>2, <1>4, FitsPool

(* A block received keeps it: the pool is pruned against its state. *)
LEMMA ReceiveStep ==
  ASSUME PoolInv, NEW txs \in ValidBlocks(chain), NEW slot, Receive(txs, slot)
  PROVE  PoolInv'
<1> DEFINE new == AddBlock(chain, txs)
<1>1. chain' = new /\ pool' = Prune(pool, State(chain'))
  BY DEF Receive
<1>2. pool \in Seq(Tx) /\ Good(chain) /\ Distinct(pool) /\ Len(pool) <= MaxPool
  BY PoolFits DEF Fit
<1>3. txs \in Seq(Tx) /\ Simulated(chain, txs).ok
  BY <1>2, ValidBlocksFacts DEF ValidBlock
<1>4. Good(new)
  BY <1>2, <1>3, AddBlockGood
<1>5. pool' \in Seq(Tx) /\ Fit(pool', State(new))
  BY <1>1, <1>2, PruneFits
<1> HIDE DEF new
<1>6. QED
  BY <1>1, <1>4, <1>5, FitsPool

(* A reorg keeps it: nonces may go back, and orphans come in. *)
LEMMA ReorgStep ==
  ASSUME PoolInv, NEW common \in 0..(Len(chain) - 1), NEW k \in Nat,
         NEW new \in Branches(SubSeq(chain, 1, common), k), NEW slot, Reorg(common, new, slot)
  PROVE  PoolInv'
<1>1. pool \in Seq(Tx) /\ Good(chain) /\ chain \in Seq(Block) /\ Distinct(pool) /\ Len(pool) <= MaxPool
  BY PoolFits DEF Fit
<1>2. common \in 0..Len(chain)
  BY <1>1
<1>3. chain' = new /\ pool' = Resubmitted(Prune(pool, State(new)), new, Orphans(common, new))
  BY DEF Reorg
<1>4. Good(SubSeq(chain, 1, common))
  BY <1>1, <1>2, PrefixGood
<1>5. Good(new) /\ new \in Seq(Block)
  BY <1>4, BranchesGood DEF Good
<1>6. Prune(pool, State(new)) \in Seq(Tx) /\ Fit(Prune(pool, State(new)), State(new))
  BY <1>1, PruneFits
<1>7. Orphans(common, new) \in Seq(Tx)
  BY <1>1, <1>2, OrphansTyped
<1>8. pool' \in Seq(Tx) /\ Fit(pool', State(new))
  BY <1>3, <1>5, <1>6, <1>7, ResubmittedFits
<1>9. QED
  BY <1>3, <1>5, <1>8, FitsPool

(* Every step keeps the invariant. *)
LEMMA PoolStep ==
  ASSUME PoolInv, [Next]_vars
  PROVE  PoolInv'
<1>1. ASSUME pool' = pool, chain' = chain PROVE PoolInv'
  BY <1>1, PoolFits, FitsPool
<1>2. CASE UNCHANGED vars
  BY <1>1, <1>2 DEF vars
<1>3. CASE Tick
  BY <1>1, <1>3 DEF Tick
<1>4. ASSUME NEW tx \in Tx, Submit(tx) PROVE PoolInv'
  BY <1>4, SubmitStep
<1>5. CASE Produce
  BY <1>5, ProduceStep
<1>6. CASE ProduceFails
  <2>1. pool' = Kept(Selected) /\ chain' = chain /\ Good(chain)
    BY <1>6, PoolFits DEF ProduceFails
  <2>2. QED
    BY <2>1, KeptFits, FitsPool
<1>7. ASSUME NEW txs \in ValidBlocks(chain), NEW slot \in (filled + 1)..now, Receive(txs, slot)
      PROVE  PoolInv'
  BY <1>7, ReceiveStep
<1>8. ASSUME NEW common \in 0..(Len(chain) - 1), NEW k \in 1..MaxReorg,
             NEW slot \in (common + k)..now,
             NEW new \in Branches(SubSeq(chain, 1, common), k), Reorg(common, new, slot)
      PROVE  PoolInv'
  <2>1. k \in Nat
    BY MempoolAssumption
  <2>2. QED
    BY <1>8, <2>1, ReorgStep
<1>9. CASE Reorgs
  BY <1>8, <1>9 DEF Reorgs
<1>10. QED
  BY <1>2, <1>3, <1>4, <1>5, <1>6, <1>7, <1>9 DEF Next

(* The invariant holds in every reachable state. *)
LEMMA PoolInvAlways == Spec => []PoolInv
<1>1. Init => PoolInv
  BY PoolInit
<1>2. PoolInv /\ [Next]_vars => PoolInv'
  BY PoolStep
<1>3. QED
  BY <1>1, <1>2, PTL DEF Spec

-----------------------------------------------------------------------------
(* Whichever way the chain last moved, no pending transaction has a nonce    *)
(* its sender already used, none is pending twice and there are at most      *)
(* MAX_MEMPOOL (add, prune, and the resubmission of a reorg's orphans).      *)
THEOREM PoolStaysUnspent == Spec => []PoolUnspent
<1>1. PoolInv => PoolUnspent
  BY DEF PoolInv
<1>2. QED
  BY <1>1, PoolInvAlways, PTL

(* The block that select_executable fills is one that add_block accepts:     *)
(* nothing in it repeats the chain, and each transaction executes after the  *)
(* ones before it.                                                           *)
THEOREM SelectionIsAccepted == Spec => []SelectionValid
<1>1. PoolInv => SelectionValid
  BY ChosenIsValid DEF SelectionValid
<1>2. QED
  BY <1>1, PoolInvAlways, PTL

(* What the selection leaves out does not execute, unless the block is full. *)
LEMMA ExhaustsAlways ==
  ASSUME PoolInv
  PROVE  SelectionExhausts
<1> DEFINE sel == Selected
<1>1. pool \in Seq(Tx) /\ Good(chain)
  BY PoolFits
<1>2. Accepted(chain, sel) /\ (Len(sel.txs) >= MaxTxs \/ Fruitless(sel))
  BY <1>1, SelectedFacts
<1> HIDE DEF sel
<1>3. sel \in Sel /\ sel.txs \in Seq(Tx) /\ Len(sel.txs) \in Nat /\ MaxTxs \in Nat
      /\ Len(sel.txs) <= MaxTxs
  BY <1>2, MempoolAssumption DEF Accepted, Sel
<1>4. CASE Len(sel.txs) >= MaxTxs
  <2>1. Len(sel.txs) = MaxTxs
    BY <1>3, <1>4
  <2>2. QED
    BY <2>1 DEF SelectionExhausts, sel
<1>5. CASE Fruitless(sel) /\ Len(sel.txs) # MaxTxs
  <2>1. ASSUME NEW tx \in ToSet(pool) \ ToSet(sel.txs), Applies(sel.st, tx)
        PROVE  FALSE
    <3>1. DOMAIN pool = 1..Len(pool)
      BY <1>1
    <3>2. PICK i \in 1..Len(pool) : tx = pool[i]
      BY <3>1 DEF ToSet
    <3>3. PICK k \in 1..Len(Pendentes) : Pendentes[k] = tx
      BY <1>1, <3>2, PendentesFacts
    <3>4. Try(sel, tx) = sel
      BY <1>5, <3>3 DEF Fruitless
    <3>5. Len(sel.txs) < MaxTxs
      BY <1>3, <1>5
    <3>6. Try(sel, tx).txs = Append(sel.txs, tx)
      BY <2>1, <3>5 DEF Try
    <3>7. Len(Append(sel.txs, tx)) = Len(sel.txs) + 1
      BY <1>3
    <3>8. QED
      BY <1>3, <3>4, <3>6, <3>7
  <2>2. QED
    BY <2>1 DEF SelectionExhausts, sel
<1>6. QED
  BY <1>2, <1>4, <1>5

(* As many sweeps as a block holds transactions are enough: what             *)
(* select_executable leaves out does not execute, unless the block is full.  *)
THEOREM SelectionIsExhaustive == Spec => []SelectionExhausts
<1>1. PoolInv => SelectionExhausts
  BY ExhaustsAlways
<1>2. QED
  BY <1>1, PoolInvAlways, PTL

-----------------------------------------------------------------------------
(* What the loops hand on.  A transaction is lost only for a reason that the *)
(* code gives; the loops themselves drop nothing.                            *)

(* A sequence that grows at its end holds what it held and what was added. *)
LEMMA AppendHolds ==
  ASSUME NEW q \in Seq(Tx), NEW tx \in Tx
  PROVE  ToSet(Append(q, tx)) = ToSet(q) \cup {tx}
<1> DEFINE r == Append(q, tx)
           m == Len(q)
<1>1. m \in Nat /\ DOMAIN q = 1..m /\ DOMAIN r = 1..(m + 1)
      /\ (\A i \in 1..m : r[i] = q[i]) /\ r[m + 1] = tx
  OBVIOUS
<1>2. (\A i \in 1..m : i \in 1..(m + 1)) /\ m + 1 \in 1..(m + 1)
      /\ \A i \in 1..(m + 1) : i \in 1..m \/ i = m + 1
  BY <1>1
<1> HIDE DEF r, m
<1>3. QED
  BY <1>1, <1>2 DEF ToSet, r

(* Joined sequences hold what both held. *)
LEMMA ConcatHolds ==
  ASSUME NEW q \in Seq(Tx), NEW r \in Seq(Tx)
  PROVE  ToSet(q) \cup ToSet(r) \subseteq ToSet(q \o r)
<1> DEFINE s == q \o r
           m == Len(q)
           n == Len(r)
<1>1. m \in Nat /\ n \in Nat /\ DOMAIN q = 1..m /\ DOMAIN r = 1..n /\ DOMAIN s = 1..(m + n)
      /\ (\A i \in 1..m : s[i] = q[i]) /\ \A i \in 1..n : s[m + i] = r[i]
  OBVIOUS
<1>2. (\A i \in 1..m : i \in 1..(m + n)) /\ \A i \in 1..n : m + i \in 1..(m + n)
  BY <1>1
<1> HIDE DEF s, m, n
<1>3. ASSUME NEW x \in ToSet(q) PROVE x \in ToSet(s)
  BY <1>1, <1>2 DEF ToSet
<1>4. ASSUME NEW x \in ToSet(r) PROVE x \in ToSet(s)
  BY <1>1, <1>2 DEF ToSet
<1>5. QED
  BY <1>3, <1>4 DEF s

(* retain drops nothing of what it is to keep. *)
LEMMA RetainHolds ==
  ASSUME NEW p \in Seq(Tx), NEW K, NEW tx \in ToSet(p), tx \in K
  PROVE  tx \in ToSet(Retain(p, K))
<1> DEFINE n == Len(p)
<1>0. /\ n \in Nat /\ n \in 0..n /\ 0 \in 0..n /\ DOMAIN p = 1..n
      /\ \A k \in 1..n : /\ k \in 0..n /\ k - 1 \in 0..n /\ p[k] \in Tx
                         /\ \A j \in 1..k : j \in 1..(k - 1) \/ j = k
  OBVIOUS
<1>1. PICK f \in [0..n -> Seq(Tx)] :
        /\ f[0] = <<>> /\ Retain(p, K) = f[n]
        /\ \A k \in 1..n : f[k] = Retaining(K, f[k - 1], p[k])
  BY RetainSteps
<1> DEFINE T == {k \in 0..n : \A j \in 1..k : p[j] \in K => p[j] \in ToSet(f[k])}
<1>2. 0 \in T
  BY <1>0
<1>3. ASSUME NEW k \in 1..n, k - 1 \in T
      PROVE  k \in T
  <2>1. f[k] = Retaining(K, f[k - 1], p[k]) /\ f[k - 1] \in Seq(Tx)
    BY <1>0, <1>1
  <2>2. ToSet(f[k]) = IF p[k] \in K THEN ToSet(f[k - 1]) \cup {p[k]} ELSE ToSet(f[k - 1])
    BY <1>0, <2>1, AppendHolds DEF Retaining
  <2>3. QED
    BY <1>0, <1>3, <2>2
<1>4. 0..n \subseteq T
  <2> HIDE DEF T
  <2>1. QED
    BY <1>0, <1>2, <1>3, LoopInduction
<1>5. PICK j \in 1..n : tx = p[j]
  BY <1>0 DEF ToSet
<1>6. QED
  BY <1>0, <1>1, <1>4, <1>5

(* prune keeps what is neither used nor too old. *)
LEMMA PruneHolds ==
  ASSUME NEW p \in Seq(Tx), NEW st, NEW tx \in ToSet(p)
  PROVE  tx \in ToSet(Prune(p, st)) \/ Consumed(st, tx) \/ Expired(tx)
  BY RetainHolds DEF Prune

(* The transactions of every abandoned block are collected. *)
LEMMA JoinHolds ==
  ASSUME NEW blocks \in Seq(Block), NEW g \in 1..Len(blocks)
  PROVE  /\ FoldLeft(LAMBDA txs, b : txs \o b.txs, <<>>, blocks) \in Seq(Tx)
         /\ ToSet(blocks[g].txs) \subseteq
              ToSet(FoldLeft(LAMBDA txs, b : txs \o b.txs, <<>>, blocks))
<1> DEFINE n == Len(blocks)
           joined == FoldLeft(LAMBDA txs, b : txs \o b.txs, <<>>, blocks)
<1>0. /\ n \in Nat /\ n \in 0..n /\ 0 \in 0..n
      /\ \A k \in 1..n : /\ k \in 0..n /\ k - 1 \in 0..n /\ blocks[k] \in Block
                         /\ \A j \in 1..k : j \in 1..(k - 1) \/ j = k
  OBVIOUS
<1>1. \A k \in 1..n : blocks[k].txs \in Seq(Tx)
  <2>1. \A b \in Block : b.txs \in Seq(Tx)
    BY DEF Block
  <2>2. QED
    BY <1>0, <2>1
<1>2. PICK f \in [0..n -> Seq(Tx)] :
        /\ f[0] = <<>> /\ joined = f[n]
        /\ \A k \in 1..n : f[k] = f[k - 1] \o blocks[k].txs
  BY JoinSteps, Zenon
<1> HIDE DEF joined
<1> DEFINE T == {k \in 0..n : \A j \in 1..k : ToSet(blocks[j].txs) \subseteq ToSet(f[k])}
<1>3. 0 \in T
  BY <1>0
<1>4. ASSUME NEW k \in 1..n, k - 1 \in T
      PROVE  k \in T
  <2>1. f[k] = f[k - 1] \o blocks[k].txs /\ f[k - 1] \in Seq(Tx) /\ blocks[k].txs \in Seq(Tx)
    BY <1>0, <1>1, <1>2
  <2>2. ToSet(f[k - 1]) \cup ToSet(blocks[k].txs) \subseteq ToSet(f[k])
    BY <2>1, ConcatHolds
  <2>3. QED
    BY <1>0, <1>4, <2>2
<1>5. 0..n \subseteq T
  <2> HIDE DEF T
  <2>1. QED
    BY <1>0, <1>3, <1>4, LoopInduction
<1>6. joined \in Seq(Tx) /\ ToSet(blocks[g].txs) \subseteq ToSet(joined)
  BY <1>0, <1>2, <1>5
<1>7. QED
  BY <1>6 DEF joined

(* What an abandoned block holds and the new chain does not is an orphan. *)
LEMMA OrphansHold ==
  ASSUME chain \in Seq(Block), NEW common \in 0..Len(chain), NEW new,
         NEW g \in (common + 1)..Len(chain), NEW tx \in ToSet(chain[g].txs)
  PROVE  tx \in ToSet(Orphans(common, new)) \/ tx \in TxIndex(new)
<1> DEFINE tail == SubSeq(chain, common + 1, Len(chain))
           abandoned == FoldLeft(LAMBDA txs, b : txs \o b.txs, <<>>, tail)
<1>1. common + 1 \in 1..(Len(chain) + 1) /\ Len(chain) \in Nat /\ common \in Nat /\ g \in Nat
  OBVIOUS
<1>2. tail \in Seq(Block) /\ Len(tail) = Len(chain) - common
      /\ \A i \in 1..(Len(chain) - common) : tail[i] = chain[common + i]
  BY <1>1
<1> HIDE DEF tail
<1>3. g - common \in 1..Len(tail) /\ common + (g - common) = g
  BY <1>1, <1>2
<1>4. tail[g - common] = chain[g]
  BY <1>2, <1>3
<1>5. abandoned \in Seq(Tx) /\ tx \in ToSet(abandoned)
  BY <1>2, <1>3, <1>4, JoinHolds
<1>6. Orphans(common, new) = Retain(abandoned, ToSet(abandoned) \ TxIndex(new))
  BY DEF Orphans, abandoned, tail
<1> HIDE DEF abandoned
<1>7. QED
  BY <1>5, <1>6, RetainHolds

(* What became of a transaction submitted to the pool q: it is pending, on  *)
(* the chain, used, too far ahead, or the pool is full.                     *)
Handled(q, c, tx) == \/ tx \in ToSet(q) \/ tx \in TxIndex(c) \/ Consumed(State(c), tx)
                     \/ ~(tx.nonce <= State(c).nonce[tx.from] + MaxGap)
                     \/ ~(Len(q) < MaxPool)

(* One submission handles its transaction and undoes no earlier one. *)
LEMMA SubmittedHolds ==
  ASSUME NEW q \in Seq(Tx), NEW c, NEW tx \in Tx
  PROVE  /\ ToSet(q) \subseteq ToSet(Submitted(q, c, tx))
         /\ Handled(Submitted(q, c, tx), c, tx)
         /\ \A old : Handled(q, c, old) => Handled(Submitted(q, c, tx), c, old)
<1> DEFINE r == Submitted(q, c, tx)
<1>1. CASE r = q /\ r # Append(q, tx)
  <2>1. Handled(q, c, tx)
    BY <1>1 DEF Submitted, Handled
  <2>2. QED
    BY <1>1, <2>1
<1>2. CASE r = Append(q, tx)
  <2>1. ToSet(r) = ToSet(q) \cup {tx}
    BY <1>2, AppendHolds
  <2>2. Len(q) \in Nat /\ MaxPool \in Nat /\ Len(r) = Len(q) + 1
    BY <1>2, MempoolAssumption
  <2>3. ~(Len(q) < MaxPool) => ~(Len(r) < MaxPool)
    BY <2>2
  <2> HIDE DEF r
  <2>4. Handled(r, c, tx) /\ \A old : Handled(q, c, old) => Handled(r, c, old)
    BY <2>1, <2>3 DEF Handled
  <2>5. QED
    BY <2>1, <2>4 DEF r
<1>3. r = q \/ r = Append(q, tx)
  BY DEF Submitted
<1>4. QED
  BY <1>1, <1>2, <1>3

(* A resubmission handles every transaction it is given, and what was        *)
(* pending stays.                                                            *)
LEMMA ResubmittedHolds ==
  ASSUME NEW p \in Seq(Tx), NEW c \in Seq(Block), NEW txs \in Seq(Tx)
  PROVE  /\ ToSet(p) \subseteq ToSet(Resubmitted(p, c, txs))
         /\ \A tx \in ToSet(txs) : Handled(Resubmitted(p, c, txs), c, tx)
<1> DEFINE n == Len(txs)
<1>0. /\ n \in Nat /\ n \in 0..n /\ 0 \in 0..n /\ DOMAIN txs = 1..n
      /\ \A k \in 1..n : /\ k \in 0..n /\ k - 1 \in 0..n /\ txs[k] \in Tx
                         /\ \A j \in 1..k : j \in 1..(k - 1) \/ j = k
  OBVIOUS
<1>1. PICK f \in [0..n -> Seq(Tx)] :
        /\ f[0] = p /\ Resubmitted(p, c, txs) = f[n]
        /\ \A k \in 1..n : f[k] = Submitted(f[k - 1], c, txs[k])
  <2>1. \E f \in [0..Len(txs) -> Seq(Tx)] :
          /\ f[0] = p /\ Resubmitted(p, c, txs) = f[Len(txs)]
          /\ \A k \in 1..Len(txs) : f[k] = Submitted(f[k - 1], c, txs[k])
    BY ResubmitSteps, Zenon
  <2>2. QED
    BY <2>1, Zenon
<1> DEFINE T == {k \in 0..n : /\ ToSet(p) \subseteq ToSet(f[k])
                              /\ \A j \in 1..k : Handled(f[k], c, txs[j])}
<1>2. 0 \in T
  BY <1>0, <1>1
<1>3. ASSUME NEW k \in 1..n, k - 1 \in T
      PROVE  k \in T
  <2>1. f[k] = Submitted(f[k - 1], c, txs[k]) /\ f[k - 1] \in Seq(Tx) /\ txs[k] \in Tx
    BY <1>0, <1>1
  <2>2. /\ ToSet(f[k - 1]) \subseteq ToSet(f[k]) /\ Handled(f[k], c, txs[k])
        /\ \A old : Handled(f[k - 1], c, old) => Handled(f[k], c, old)
    BY <2>1, SubmittedHolds
  <2>3. QED
    BY <1>0, <1>3, <2>2
<1>4. 0..n \subseteq T
  <2> HIDE DEF T
  <2>1. QED
    BY <1>0, <1>2, <1>3, LoopInduction
<1>5. /\ ToSet(p) \subseteq ToSet(f[n])
      /\ \A j \in 1..n : Handled(f[n], c, txs[j])
  BY <1>0, <1>4
<1>6. \A tx \in ToSet(txs) : \E j \in 1..n : tx = txs[j]
  BY <1>0 DEF ToSet
<1>7. QED
  BY <1>1, <1>5, <1>6

-----------------------------------------------------------------------------
(* A selection is made of pending transactions, none of them twice. *)
Chosen(sel) == /\ sel \in Sel /\ Distinct(sel.txs)
               /\ \A i \in 1..Len(sel.txs) : \E j \in 1..Len(pool) : sel.txs[i] = pool[j]

(* One attempt of a sweep keeps it so. *)
LEMMA TryChosen ==
  ASSUME pool \in Seq(Tx), NEW sel, Chosen(sel), NEW j \in 1..Len(pool)
  PROVE  Chosen(Try(sel, pool[j]))
<1> DEFINE tx == pool[j]
           m == Len(sel.txs)
           r == Append(sel.txs, tx)
<1>0. sel \in Sel /\ sel.txs \in Seq(Tx) /\ m \in Nat /\ tx \in Tx
  BY DEF Chosen, Sel
<1>1. Try(sel, tx) \in Sel
  BY <1>0, TryTyped
<1>2. CASE Try(sel, tx) = sel
  BY <1>2
<1>3. CASE Try(sel, tx) # sel
  <2>1. Try(sel, tx).txs = r /\ tx \notin ToSet(sel.txs)
    BY <1>3 DEF Try
  <2>2. Len(r) = m + 1 /\ (\A i \in 1..m : r[i] = sel.txs[i]) /\ r[m + 1] = tx
        /\ DOMAIN sel.txs = 1..m
    BY <1>0
  <2>3. \A i \in 1..(m + 1) : i \in 1..m \/ i = m + 1
    BY <1>0
  <2>4. \A i \in 1..m : sel.txs[i] # tx
    BY <2>1, <2>2 DEF ToSet
  <2> HIDE DEF r
  <2>5. \A a, b \in 1..m : sel.txs[a] = sel.txs[b] => a = b
    BY DEF Chosen, Distinct
  <2>6. \A a, b \in 1..(m + 1) : r[a] = r[b] => a = b
    BY <2>2, <2>3, <2>4, <2>5
  <2>7. \A i \in 1..(m + 1) : \E g \in 1..Len(pool) : r[i] = pool[g]
    BY <2>2, <2>3 DEF Chosen
  <2>8. QED
    BY <1>1, <2>1, <2>2, <2>6, <2>7 DEF Chosen, Distinct
<1>4. QED
  BY <1>2, <1>3

(* One sweep keeps it so. *)
LEMMA SweepChosen ==
  ASSUME pool \in Seq(Tx), NEW sel, Chosen(sel)
  PROVE  Chosen(FoldLeft(Try, sel, Pendentes))
<1> DEFINE n == Len(Pendentes)
<1>0. /\ n \in Nat /\ n \in 0..n /\ 0 \in 0..n /\ \A k \in 1..n : k \in 0..n /\ k - 1 \in 0..n
      /\ Pendentes \in Seq(Tx) /\ sel \in Sel
  BY PendentesFacts DEF Chosen
<1>1. PICK f \in [0..n -> Sel] :
        /\ f[0] = sel /\ FoldLeft(Try, sel, Pendentes) = f[n]
        /\ \A k \in 1..n : f[k] = Try(f[k - 1], Pendentes[k])
  BY <1>0, TrySteps
<1> DEFINE T == {k \in 0..n : Chosen(f[k])}
<1>2. 0 \in T
  BY <1>0, <1>1
<1>3. ASSUME NEW k \in 1..n, k - 1 \in T
      PROVE  k \in T
  <2>1. PICK j \in 1..Len(pool) : Pendentes[k] = pool[j]
    BY PendentesFacts
  <2>2. f[k] = Try(f[k - 1], pool[j]) /\ Chosen(f[k - 1])
    BY <1>1, <1>3, <2>1
  <2>3. QED
    BY <1>0, <2>2, TryChosen
<1>4. 0..n \subseteq T
  <2> HIDE DEF T
  <2>1. QED
    BY <1>0, <1>2, <1>3, LoopInduction
<1>5. QED
  BY <1>0, <1>1, <1>4

(* The selection is made of pending transactions. *)
LEMMA SelectedChosen ==
  ASSUME pool \in Seq(Tx), chain \in Seq(Block)
  PROVE  Chosen(Selected)
<1>0. MaxTxs \in Nat /\ MaxTxs \in 0..MaxTxs /\ 0 \in 0..MaxTxs
      /\ \A k \in 1..MaxTxs : k \in 0..MaxTxs /\ k - 1 \in 0..MaxTxs
  <2>1. MaxTxs \in Nat
    BY MempoolAssumption
  <2>2. QED
    BY <2>1
<1>1. PICK f \in [0..MaxTxs -> Sel] :
        /\ f[0] = [txs |-> <<>>, st |-> State(chain)] /\ Selected = f[MaxTxs]
        /\ \A k \in 1..MaxTxs : f[k] = FoldLeft(Try, f[k - 1], Pendentes)
  BY SelectedSteps
<1> DEFINE T == {k \in 0..MaxTxs : Chosen(f[k])}
<1>2. 0 \in T
  <2>1. f[0] \in Sel /\ f[0].txs = <<>> /\ Len(<<>>) = 0
    BY <1>0, <1>1
  <2>2. Chosen(f[0])
    BY <2>1 DEF Chosen, Distinct
  <2>3. QED
    BY <1>0, <2>2
<1>3. ASSUME NEW k \in 1..MaxTxs, k - 1 \in T
      PROVE  k \in T
  BY <1>0, <1>1, <1>3, SweepChosen
<1>4. 0..MaxTxs \subseteq T
  <2> HIDE DEF T
  <2>1. QED
    BY <1>0, <1>2, <1>3, LoopInduction
<1>5. QED
  BY <1>0, <1>1, <1>4

(* There are n positions in a sequence of length n. *)
LEMMA Positions ==
  ASSUME NEW n \in Nat
  PROVE  IsFiniteSet(1..n) /\ Cardinality(1..n) = n
<1>1. IsFiniteSet(1..n) /\ Cardinality(1..n) = IF 1 > n THEN 0 ELSE n - 1 + 1
  <2>1. 1 \in Int /\ n \in Int
    OBVIOUS
  <2>2. QED
    BY <2>1, FS_Interval
<1>2. (IF 1 > n THEN 0 ELSE n - 1 + 1) = n
  OBVIOUS
<1>3. QED
  BY <1>1, <1>2

(* A selection with as many transactions as the pool has them all. *)
LEMMA WholePool ==
  ASSUME pool \in Seq(Tx), NEW sel, Chosen(sel), Len(sel.txs) >= Len(pool)
  PROVE  ToSet(pool) \subseteq ToSet(sel.txs)
<1> DEFINE m == Len(sel.txs)
           n == Len(pool)
           P == {pool[j] : j \in 1..n}
           g == [j \in 1..n |-> pool[j]]
           f == [i \in 1..m |-> sel.txs[i]]
<1>0. sel.txs \in Seq(Tx) /\ m \in Nat /\ n \in Nat /\ m >= n
      /\ DOMAIN sel.txs = 1..m /\ DOMAIN pool = 1..n
  BY DEF Chosen, Sel
<1>1. IsFiniteSet(P) /\ Cardinality(P) <= n
  <2>1. IsFiniteSet(1..n) /\ Cardinality(1..n) = n
    BY <1>0, Positions
  <2>2. g \in Surjection(1..n, P)
    BY DEF Surjection
  <2>3. QED
    BY <2>1, <2>2, FS_Surjection
<1>2. f \in Injection(1..m, P)
  <2>1. \A i \in 1..m : sel.txs[i] \in P
    BY DEF Chosen
  <2>2. \A a, b \in 1..m : sel.txs[a] = sel.txs[b] => a = b
    BY DEF Chosen, Distinct
  <2>3. QED
    BY <2>1, <2>2 DEF Injection, IsInjective
<1>3. Cardinality(1..m) = m
  BY <1>0, Positions
<1>4. f \in Surjection(1..m, P)
  <2>1. Cardinality(P) \in Nat
    BY <1>1, FS_CardinalityType
  <2>2. /\ Cardinality(1..m) <= Cardinality(P)
        /\ Cardinality(1..m) = Cardinality(P) <=> f \in Surjection(1..m, P)
    BY <1>1, <1>2, FS_Injection
  <2>3. Cardinality(1..m) = Cardinality(P)
    BY <1>0, <1>1, <1>3, <2>1, <2>2
  <2>4. QED
    BY <2>2, <2>3
<1>5. \A t \in P : \E i \in 1..m : f[i] = t
  BY <1>4 DEF Surjection
<1>6. QED
  BY <1>0, <1>5 DEF ToSet

-----------------------------------------------------------------------------
(* What a step of the node spares: what was pending or on the chain still    *)
(* is, unless there is a reason against it.                                  *)
SparesTx == \A tx \in ToSet(pool) \union TxIndex(chain) :
              tx \in ToSet(pool') \union TxIndex(chain') \/ Excused(tx)

(* The block is full although more is pending. *)
FullBlock == Len(Selected.txs) = MaxTxs /\ MaxTxs < Len(pool)

(* What the selection does not leave in the pool does not execute after it,  *)
(* unless the block is full.                                                 *)
LEMMA KeptHolds ==
  ASSUME PoolInv, ~FullBlock, NEW tx \in ToSet(pool)
  PROVE  \/ tx \in ToSet(Kept(Selected))
         \/ tx.nonce <= Selected.st.nonce[tx.from] + 1 /\ ~ Applies(Selected.st, tx)
<1> DEFINE sel == Selected
           K == {t \in ToSet(pool) : \/ t \in ToSet(sel.txs)
                                     \/ t.nonce > sel.st.nonce[t.from] + 1}
<1>1. pool \in Seq(Tx) /\ Good(chain) /\ chain \in Seq(Block)
  BY PoolFits
<1>2. SelectionExhausts
  BY ExhaustsAlways
<1>3. Chosen(sel)
  BY <1>1, SelectedChosen
<1>4. Kept(sel) = Retain(pool, K)
  BY DEF Kept
<1>5. tx \in Tx
  BY <1>1 DEF ToSet
<1>6. tx.nonce \in Nat /\ tx.from \in Account /\ sel.st.nonce[tx.from] \in Nat
  BY <1>3, <1>5, MempoolAssumption DEF Chosen, Sel, St
<1>7. CASE Len(sel.txs) = MaxTxs
  <2>1. MaxTxs \in Nat /\ Len(pool) \in Nat /\ Len(sel.txs) >= Len(pool)
    BY <1>1, <1>7, MempoolAssumption DEF FullBlock
  <2>2. tx \in ToSet(sel.txs)
    BY <1>1, <1>3, <2>1, WholePool
  <2>3. QED
    BY <1>1, <1>4, <2>2, RetainHolds
<1>8. CASE tx \in ToSet(sel.txs)
  BY <1>1, <1>4, <1>8, RetainHolds
<1>9. CASE Len(sel.txs) # MaxTxs /\ tx \notin ToSet(sel.txs)
  <2>1. ~ Applies(sel.st, tx)
    BY <1>2, <1>9 DEF SelectionExhausts
  <2>2. CASE tx.nonce > sel.st.nonce[tx.from] + 1
    BY <1>1, <1>4, <2>2, RetainHolds
  <2>3. CASE ~(tx.nonce > sel.st.nonce[tx.from] + 1)
    <3>1. tx.nonce <= sel.st.nonce[tx.from] + 1
      BY <1>6, <2>3
    <3>2. QED
      BY <2>1, <3>1
  <2>4. QED
    BY <2>2, <2>3
<1>10. QED
  BY <1>7, <1>8, <1>9

(* The state of the chain after a step. *)
LEMMA StatePrimed == State(chain)' = State(chain')
  BY DEF State, Genesis, Last

(* A block produced: what was selected is on the chain, the rest is pending  *)
(* or does not execute.                                                      *)
LEMMA ProduceSpares ==
  ASSUME PoolInv, Produce, ~FullBlock
  PROVE  SparesTx
<1> DEFINE new == AddBlock(chain, Selected.txs)
<1>1. chain' = new /\ pool' = Prune(Kept(Selected), State(chain'))
  BY DEF Produce
<1>2. Selected.txs \in Seq(Tx) /\ chain \in Seq(Block)
  BY ChosenIsValid, PoolFits
<1>3. Kept(Selected) \in Seq(Tx)
  BY KeptFits
<1>4. TxIndex(chain) \subseteq TxIndex(chain')
  BY <1>1, <1>2, IndexGrows
<1>5. ASSUME NEW tx \in ToSet(pool)
      PROVE  tx \in ToSet(pool') \/ Excused(tx)
  <2>1. CASE tx \in ToSet(Kept(Selected))
    <3>1. tx \in ToSet(pool') \/ Consumed(State(chain'), tx) \/ Expired(tx)
      BY <1>1, <1>3, <2>1, PruneHolds
    <3>2. QED
      BY <3>1, StatePrimed DEF Excused
  <2>2. CASE tx.nonce <= Selected.st.nonce[tx.from] + 1 /\ ~ Applies(Selected.st, tx)
    BY <2>2 DEF Excused
  <2>3. QED
    BY <2>1, <2>2, KeptHolds
<1>6. QED
  BY <1>4, <1>5 DEF SparesTx

(* A production that fails after the selection has pruned. *)
LEMMA ProduceFailsSpares ==
  ASSUME PoolInv, ProduceFails, ~FullBlock
  PROVE  SparesTx
<1>1. chain' = chain /\ pool' = Kept(Selected)
  BY DEF ProduceFails
<1>2. ASSUME NEW tx \in ToSet(pool)
      PROVE  tx \in ToSet(pool') \/ Excused(tx)
  BY <1>1, KeptHolds DEF Excused
<1>3. QED
  BY <1>1, <1>2 DEF SparesTx

(* A block received. *)
LEMMA ReceiveSpares ==
  ASSUME PoolInv, NEW txs \in ValidBlocks(chain), NEW slot, Receive(txs, slot)
  PROVE  SparesTx
<1>1. chain' = AddBlock(chain, txs) /\ pool' = Prune(pool, State(chain'))
  BY DEF Receive
<1>2. pool \in Seq(Tx) /\ Good(chain) /\ chain \in Seq(Block)
  BY PoolFits
<1>3. txs \in Seq(Tx)
  BY <1>2, ValidBlocksFacts
<1>4. TxIndex(chain) \subseteq TxIndex(chain')
  BY <1>1, <1>2, <1>3, IndexGrows
<1>5. ASSUME NEW tx \in ToSet(pool)
      PROVE  tx \in ToSet(pool') \/ Excused(tx)
  <2>1. tx \in ToSet(pool') \/ Consumed(State(chain'), tx) \/ Expired(tx)
    BY <1>1, <1>2, PruneHolds
  <2>2. QED
    BY <2>1, StatePrimed DEF Excused
<1>6. QED
  BY <1>4, <1>5 DEF SparesTx

(* A reorg: the common blocks stay, what was pending is pruned, and each     *)
(* transaction of an abandoned block is on the new chain or is handed back.  *)
LEMMA ReorgSpares ==
  ASSUME PoolInv, NEW common \in 0..(Len(chain) - 1), NEW k \in Nat,
         NEW new \in Branches(SubSeq(chain, 1, common), k), NEW slot, Reorg(common, new, slot)
  PROVE  SparesTx
<1> DEFINE base == SubSeq(chain, 1, common)
           pruned == Prune(pool, State(new))
           orphans == Orphans(common, new)
<1>1. pool \in Seq(Tx) /\ Good(chain) /\ chain \in Seq(Block) /\ Distinct(pool) /\ Len(pool) <= MaxPool
  BY PoolFits DEF Fit
<1>2. common \in 0..Len(chain) /\ Len(chain) \in Nat /\ common \in Nat
  BY <1>1
<1>3. chain' = new /\ pool' = Resubmitted(pruned, new, orphans)
  BY DEF Reorg
<1>4. Good(base)
  BY <1>1, <1>2, PrefixGood
<1>5. Good(new) /\ new \in Seq(Block) /\ TxIndex(base) \subseteq TxIndex(new)
  BY <1>4, BranchesGood DEF Good
<1>6. pruned \in Seq(Tx) /\ Fit(pruned, State(new))
  BY <1>1, PruneFits
<1>7. orphans \in Seq(Tx)
  BY <1>1, <1>2, OrphansTyped
<1>8. /\ ToSet(pruned) \subseteq ToSet(pool')
      /\ \A tx \in ToSet(orphans) : Handled(pool', new, tx)
  <2> HIDE DEF pruned, orphans
  <2>1. QED
    BY <1>3, <1>5, <1>6, <1>7, ResubmittedHolds
<1>9. pool' \in Seq(Tx) /\ Len(pool') <= MaxPool
  <2> HIDE DEF pruned, orphans
  <2>1. Resubmitted(pruned, new, orphans) \in Seq(Tx)
        /\ Fit(Resubmitted(pruned, new, orphans), State(new))
    BY <1>5, <1>6, <1>7, ResubmittedFits
  <2>2. QED
    BY <1>3, <2>1 DEF Fit
<1>10. ASSUME NEW tx \in ToSet(pool)
       PROVE  tx \in ToSet(pool') \/ Excused(tx)
  <2>1. tx \in ToSet(pruned) \/ Consumed(State(new), tx) \/ Expired(tx)
    BY <1>1, PruneHolds
  <2>2. QED
    BY <1>3, <1>8, <2>1, StatePrimed DEF Excused
<1>11. ASSUME NEW tx \in TxIndex(chain)
       PROVE  tx \in ToSet(pool') \union TxIndex(chain') \/ Excused(tx)
  <2>1. PICK g \in 1..Len(chain) : \E i \in 1..Len(chain[g].txs) : tx = chain[g].txs[i]
    BY <1>1, TxIndexFacts
  <2>2. tx \in ToSet(chain[g].txs) /\ tx \in Tx
    <3>1. chain[g] \in Block
      BY <1>1
    <3>2. chain[g].txs \in Seq(Tx)
      BY <3>1 DEF Block
    <3>3. DOMAIN chain[g].txs = 1..Len(chain[g].txs)
      BY <3>2
    <3>4. QED
      BY <2>1, <3>2, <3>3 DEF ToSet
  <2>3. CASE g <= common
    <3>1. g \in DOMAIN base /\ base[g] = chain[g]
      BY <1>1, <1>2, <2>3
    <3>2. tx \in TxIndex(base)
      BY <2>2, <3>1 DEF TxIndex
    <3>3. QED
      BY <1>3, <1>5, <3>2
  <2>4. CASE g > common
    <3>1. g \in (common + 1)..Len(chain)
      BY <1>2, <2>4
    <3>2. tx \in ToSet(orphans) \/ tx \in TxIndex(new)
      BY <1>1, <1>2, <2>2, <3>1, OrphansHold
    <3>3. CASE tx \in TxIndex(new)
      BY <1>3, <3>3
    <3>4. CASE tx \in ToSet(orphans)
      <4>1. Handled(pool', new, tx)
        BY <1>8, <3>4
      <4>2. ~(Len(pool') < MaxPool) => Len(pool') = MaxPool
        BY <1>9, MempoolAssumption
      <4>3. State(new) \in St /\ tx.nonce \in Nat /\ tx.from \in Account /\ MaxGap \in Nat
        BY <1>5, <2>2, StateTyped, MempoolAssumption
      <4>4. State(new).nonce[tx.from] \in Nat
        BY <4>3 DEF St
      <4>5. ~(tx.nonce <= State(new).nonce[tx.from] + MaxGap)
              => tx.nonce > State(new).nonce[tx.from] + MaxGap
        BY <4>3, <4>4
      <4>6. QED
        BY <1>3, <4>1, <4>2, <4>5, StatePrimed DEF Handled, Excused
    <3>5. QED
      BY <3>2, <3>3, <3>4
  <2>5. QED
    BY <1>2, <2>3, <2>4
<1>12. QED
  BY <1>10, <1>11 DEF SparesTx

(* Every step, but the production of a full block, spares what it may not    *)
(* lose.                                                                     *)
LEMMA StepSpares ==
  ASSUME PoolInv, [Next]_vars
  PROVE  SparesTx \/ ((Produce \/ ProduceFails) /\ FullBlock)
<1>1. ASSUME pool' = pool, chain' = chain PROVE SparesTx
  BY <1>1 DEF SparesTx
<1>2. CASE UNCHANGED vars
  BY <1>1, <1>2 DEF vars
<1>3. CASE Tick
  BY <1>1, <1>3 DEF Tick
<1>4. ASSUME NEW tx \in Tx, Submit(tx) PROVE SparesTx
  <2>1. pool' = Submitted(pool, chain, tx) /\ chain' = chain /\ pool \in Seq(Tx)
    BY <1>4, PoolFits DEF Submit
  <2>2. ToSet(pool) \subseteq ToSet(pool')
    BY <2>1, SubmittedHolds
  <2>3. QED
    BY <2>1, <2>2 DEF SparesTx
<1>5. CASE Produce
  BY <1>5, ProduceSpares
<1>6. CASE ProduceFails
  BY <1>6, ProduceFailsSpares
<1>7. ASSUME NEW txs \in ValidBlocks(chain), NEW slot \in (filled + 1)..now, Receive(txs, slot)
      PROVE  SparesTx
  BY <1>7, ReceiveSpares
<1>8. ASSUME NEW common \in 0..(Len(chain) - 1), NEW k \in 1..MaxReorg,
             NEW slot \in (common + k)..now,
             NEW new \in Branches(SubSeq(chain, 1, common), k), Reorg(common, new, slot)
      PROVE  SparesTx
  <2>1. k \in Nat
    BY MempoolAssumption
  <2>2. QED
    BY <1>8, <2>1, ReorgSpares
<1>9. CASE Reorgs
  BY <1>8, <1>9 DEF Reorgs
<1>10. QED
  BY <1>2, <1>3, <1>4, <1>5, <1>6, <1>7, <1>9 DEF Next

(* No legitimate transaction is thrown away by any step, but by the          *)
(* production of a block that is full while more is pending: there           *)
(* select_executable drops what would have run next (the run mempool_full    *)
(* shows such a step).                                                       *)
THEOREM OnlyFullBlocksLose ==
  Spec => [][SparesTx \/ ((Produce \/ ProduceFails) /\ FullBlock)]_vars
<1>1. PoolInv /\ [Next]_vars => [SparesTx \/ ((Produce \/ ProduceFails) /\ FullBlock)]_vars
  BY StepSpares
<1>2. QED
  BY <1>1, PoolInvAlways, PTL DEF Spec

(* So as long as no block is full while more is pending, nothing is lost:    *)
(* what was pending, or stood on a block that a reorg abandons, is pending   *)
(* or on the chain after every step, or there is a reason against it         *)
(* (select_executable, prune, submit_transaction and the orphans of a        *)
(* reorg).                                                                   *)
THEOREM NothingLostUntilFull == Spec /\ []~FullBlock => NothingLost
<1>1. PoolInv /\ ~FullBlock /\ [Next]_vars => [SparesTx]_vars
  BY StepSpares
<1>2. Spec /\ []~FullBlock => [][SparesTx]_vars
  BY <1>1, PoolInvAlways, PTL DEF Spec
<1>3. QED
  BY <1>2 DEF NothingLost, SparesTx

=============================================================================
