------------------------- MODULE Governance_proofs -------------------------
(***************************************************************************)
(* Proofs about Governance, for any keys, weights, scopes, delays, changes *)
(* and proposals.  First the permission of an account: the timelock, the   *)
(* veto, the weights of what is pending and the rail against a locked      *)
(* account.  Then the tick of a block: whatever matures together, a        *)
(* validator remains and nothing that was due is left.                     *)
(*                                                                         *)
(* None of them is inductive alone.  That a change stays authorised needs  *)
(* that no operation replaces a permission of the second form, which needs *)
(* that none such is pending when that form comes; that more approvals     *)
(* still authorise needs that there is a first active; and that no weight  *)
(* is stale needs that nothing is pending when a permission is installed.  *)
(* The proposals of a tick are walked in the order of their ids; what      *)
(* holds along the walk is shown by induction on the ids passed.           *)
(***************************************************************************)
EXTENDS Governance, Lemmas

(* What the steps keep: the account is well formed, a change is pending only
   under a permission of the second form, and no operation that would replace
   such a permission survives its coming. *)
PermTyped == perm \in Permissao /\ height \in Nat
PendTyped == pend = <<>> \/ \E p \in Pedidos : pend = <<p>> /\ p.proposedAt <= height
OpsTyped == /\ ops = [id \in DOMAIN ops |-> ops[id]]
            /\ \A id \in DOMAIN ops : ops[id] \in Pendentes
PendUnderV2 == pend # <<>> => EV2(perm)
NoChangeUnderV2 == EV2(perm) => \A id \in DOMAIN ops : ops[id].op.tipo # "PERMISSION_CHANGE"

IInv == /\ PermTyped /\ PendTyped /\ OpsTyped
        /\ PendUnderV2 /\ NoChangeUnderV2
        /\ StartedAuthorised /\ VetoesShort /\ WeightsCurrent /\ NeverLocked

(* The parts of a permission say which form it is. *)
LEMMA FormOf ==
  ASSUME NEW p \in Permissao
  PROVE  /\ p.v \in {0, 1, 2} /\ (p.v = 0 <=> p = Nenhuma) /\ (EV2(p) <=> p \in PermV2)
         /\ (EV2(p) => p.delay \in Nat /\ p.delay > 0)
  BY DEF Permissao, Nenhuma, PermV1, PermV2, EV2

(* Removing, replacing or adding an active leaves a sequence of actives. *)
LEMMA ComActiveTyped ==
  ASSUME NEW s \in Seq(Active), NEW id \in Nat, NEW valor \in Seq(Active)
  PROVE  ComActive(s, id, valor) \in Seq(Active)
<1>1. CASE id < Len(s) /\ valor = <<>>
  <2>. DEFINE r == [n \in 1..(Len(s) - 1) |-> s[IF n <= id THEN n ELSE n + 1]]
  <2>1. \A n \in 1..(Len(s) - 1) : s[IF n <= id THEN n ELSE n + 1] \in Active
    BY <1>1
  <2>2. Len(s) - 1 \in Nat
    BY <1>1
  <2>3. r \in Seq(Active)
    BY <2>1, <2>2
  <2>. QED BY <1>1, <2>3 DEF ComActive
<1>2. CASE id < Len(s) /\ valor # <<>>
  <2>1. valor[1] \in Active
    BY <1>2
  <2>2. [s EXCEPT ![id + 1] = valor[1]] \in Seq(Active)
    BY <1>2, <2>1
  <2>. QED BY <1>2, <2>2 DEF ComActive
<1>3. CASE ~(id < Len(s))
  BY <1>3 DEF ComActive
<1>. QED BY <1>1, <1>2, <1>3

(* A change keeps the second form. *)
LEMMA MudadaTyped ==
  ASSUME NEW p \in PermV2, NEW m \in Mudanca
  PROVE  Mudada(p, m) \in PermV2
<1>1. CASE m \in [nivel : {"owner"}, valor : Nivel]
  BY <1>1 DEF Mudada, PermV2
<1>2. CASE m \in [nivel : {"active"}, id : Nat, valor : Seq(Active)]
  <2>1. ComActive(p.actives, m.id, m.valor) \in Seq(Active)
    BY <1>2, ComActiveTyped DEF PermV2
  <2>2. Mudada(p, m) = [p EXCEPT !.actives = ComActive(p.actives, m.id, m.valor)]
    BY <1>2 DEF Mudada, PermV2
  <2>. QED BY <2>1, <2>2 DEF PermV2
<1>3. CASE m \in [nivel : {"witness", "recovery"}, valor : SUBSET Key]
  BY <1>3 DEF Mudada, PermV2
<1>4. CASE m \in [nivel : {"delay"}, valor : Nat \ {0}]
  BY <1>4 DEF Mudada, PermV2
<1>. QED BY <1>1, <1>2, <1>3, <1>4 DEF Mudanca

-----------------------------------------------------------------------------
(* Steps that leave the account alone keep all of it. *)
LEMMA AccountUntouched ==
  ASSUME IInv, perm' = perm, pend' = pend, ops' = ops, height' = height
  PROVE  IInv'
  BY DEF IInv, PermTyped, PendTyped, OpsTyped, PendUnderV2, NoChangeUnderV2,
         StartedAuthorised, VetoesShort, WeightsCurrent, NeverLocked

(* A step that only touches the pending operations keeps the rest. *)
LEMMA OnlyOps ==
  ASSUME IInv, perm' = perm, pend' = pend, height' = height,
         OpsTyped', NoChangeUnderV2', WeightsCurrent'
  PROVE  IInv'
  BY DEF IInv, PermTyped, PendTyped, PendUnderV2, StartedAuthorised, VetoesShort, NeverLocked

(* A step that only touches the pending change keeps the rest. *)
LEMMA OnlyPend ==
  ASSUME IInv, perm' = perm, ops' = ops, height' = height,
         PendTyped', PendUnderV2', StartedAuthorised', VetoesShort'
  PROVE  IInv'
  BY DEF IInv, PermTyped, OpsTyped, NoChangeUnderV2, WeightsCurrent, NeverLocked

(* Restricting the operations keeps them well formed, and adds none. *)
LEMMA RestrictedOps ==
  ASSUME IInv, NEW S, S \subseteq DOMAIN ops, ops' = Restrict(ops, S), perm' = perm
  PROVE  OpsTyped' /\ NoChangeUnderV2' /\ WeightsCurrent'
  BY DEF IInv, OpsTyped, NoChangeUnderV2, WeightsCurrent, Restrict

(* What the account does by an operation: nothing to itself, or its permission of
   the first form is replaced and the operations are discarded. *)
LEMMA OpEffect ==
  ASSUME NEW s, NEW op, NEW id, s.perm \in Permissao, op \in Ops,
         s = [perm |-> s.perm, pend |-> s.pend, ops |-> s.ops, proposals |-> s.proposals,
              params |-> s.params, treasury |-> s.treasury, stake |-> s.stake]
  PROVE  LET t == AplicaOp(s, op, id)
         IN /\ t.pend = s.pend
            /\ op.tipo # "PERMISSION_CHANGE" => t.perm = s.perm /\ t.ops = s.ops
            /\ op.tipo = "PERMISSION_CHANGE" => t.ops = <<>> /\ t.perm = op.perm
<1>1. CASE op.tipo = "UNSTAKE"
  BY <1>1 DEF AplicaOp, Sacado
<1>2. CASE op.tipo = "PERMISSION_CHANGE"
  <2>1. AplicaOp(s, op, id) = [s EXCEPT !.perm = op.perm, !.ops = <<>>]
    BY <1>2 DEF AplicaOp
  <2>. QED BY <1>2, <2>1
<1>3. CASE op.tipo = "GOV_PROPOSE"
  BY <1>3 DEF AplicaOp, Propoe
<1>4. CASE op.tipo = "GOV_VOTE"
  BY <1>4 DEF AplicaOp, Vota
<1>5. CASE op.tipo = "TRANSFER"
  BY <1>5 DEF AplicaOp
<1>. QED BY <1>1, <1>2, <1>3, <1>4, <1>5 DEF Ops

(* The account after an operation, executed once some operations S are left. *)
LEMMA ExecutedEffect ==
  ASSUME IInv, NEW s, NEW op \in Ops, NEW id, NEW S,
         s = [State EXCEPT !.ops = Restrict(ops, S)], Becomes(AplicaOp(s, op, id))
  PROVE  /\ pend' = pend
         /\ op.tipo # "PERMISSION_CHANGE" => perm' = perm /\ ops' = Restrict(ops, S)
         /\ op.tipo = "PERMISSION_CHANGE" => ops' = <<>> /\ perm' = op.perm
<1>1. /\ s.perm = perm /\ s.pend = pend /\ s.ops = Restrict(ops, S)
      /\ s = [perm |-> s.perm, pend |-> s.pend, ops |-> s.ops, proposals |-> s.proposals,
              params |-> s.params, treasury |-> s.treasury, stake |-> s.stake]
  BY DEF State
<1>2. perm \in Permissao
  BY DEF IInv, PermTyped
<1>. QED BY <1>1, <1>2, OpEffect DEF Becomes

(* An executed operation keeps the invariant: it is not one that replaces a
   permission of the second form. *)
LEMMA Executed ==
  ASSUME IInv, NEW s, NEW op \in Ops, NEW id, NEW S,
         s = [State EXCEPT !.ops = Restrict(ops, S)], S \subseteq DOMAIN ops,
         op.tipo = "PERMISSION_CHANGE" => ~EV2(perm),
         Becomes(AplicaOp(s, op, id)), height' = height
  PROVE  IInv' /\ (EV2(perm) => perm' = perm)
<1>1. /\ pend' = pend
      /\ op.tipo # "PERMISSION_CHANGE" => perm' = perm /\ ops' = Restrict(ops, S)
      /\ op.tipo = "PERMISSION_CHANGE" => ops' = <<>> /\ perm' = op.perm
  BY ExecutedEffect
<1>2. CASE op.tipo # "PERMISSION_CHANGE"
  BY <1>1, <1>2, RestrictedOps, OnlyOps
<1>3. CASE op.tipo = "PERMISSION_CHANGE"
  <2>1. op.perm \in Permissao /\ ~EV2(op.perm) /\ (op.perm.v = 1 => Alcancavel(op.perm.nivel))
    BY <1>3, GovAssumption DEF Ops
  <2>2. pend = <<>> /\ pend' = <<>>
    BY <1>1, <1>3 DEF IInv, PendUnderV2
  <2>3. PermTyped' /\ PendTyped' /\ PendUnderV2'
    BY <1>1, <1>3, <2>1, <2>2 DEF IInv, PermTyped, PendTyped, PendUnderV2
  <2>4. OpsTyped' /\ NoChangeUnderV2' /\ WeightsCurrent'
    BY <1>1, <1>3 DEF OpsTyped, NoChangeUnderV2, WeightsCurrent
  <2>5. StartedAuthorised' /\ VetoesShort'
    BY <2>2 DEF StartedAuthorised, VetoesShort
  <2>6. NeverLocked'
    BY <1>1, <1>3, <2>1 DEF NeverLocked
  <2>. QED BY <1>3, <2>3, <2>4, <2>5, <2>6 DEF IInv
<1>. QED BY <1>2, <1>3

-----------------------------------------------------------------------------
(* Proposals, their votes and withdrawals leave permissions alone. *)
LEMMA KeptByGov ==
  ASSUME IInv, NEW a, NEW id, NEW v, GovPropose(a, id, v) \/ GovVote(a, id) \/ Unstake(a)
  PROVE  IInv'
<1>1. CASE GovPropose(a, id, v)
  <2>1. perm' = perm /\ pend' = pend /\ ops' = ops /\ height' = height
    BY <1>1 DEF GovPropose, Becomes, Propoe, State
  <2>. QED BY <2>1, AccountUntouched
<1>2. CASE GovVote(a, id)
  <2>1. perm' = perm /\ pend' = pend /\ ops' = ops /\ height' = height
    BY <1>2 DEF GovVote, Becomes, Vota, State
  <2>. QED BY <2>1, AccountUntouched
<1>3. CASE Unstake(a)
  <2>1. perm' = perm /\ pend' = pend /\ ops' = ops /\ height' = height
    BY <1>3 DEF Unstake, Becomes, Sacado, State
  <2>. QED BY <2>1, AccountUntouched
<1>. QED BY <1>1, <1>2, <1>3

(* A permission is installed at once only where there was none. *)
LEMMA KeptByUpdate ==
  ASSUME IInv, NEW p \in Permissoes, PermissionUpdate(p)
  PROVE  IInv'
<1>1. perm.v = 0 /\ DOMAIN ops = {} /\ ops' = ops /\ height' = height
  <2>1. perm.v = 0 /\ ops' = ops /\ height' = height
    BY DEF PermissionUpdate, Nenhuma
  <2>2. Niveis(perm) = {}
    BY <2>1 DEF Niveis
  <2>. QED BY <2>1, <2>2 DEF IInv, WeightsCurrent
<1>2. pend = <<>> /\ pend' = <<>>
  BY <1>1 DEF PermissionUpdate, IInv, PendUnderV2, EV2
<1>3. PermTyped' /\ PendTyped' /\ PendUnderV2'
  BY <1>1, <1>2, GovAssumption DEF PermissionUpdate, IInv, PermTyped, PendTyped, PendUnderV2
<1>4. OpsTyped' /\ NoChangeUnderV2' /\ WeightsCurrent'
  BY <1>1 DEF IInv, OpsTyped, NoChangeUnderV2, WeightsCurrent
<1>5. StartedAuthorised' /\ VetoesShort'
  BY <1>2 DEF StartedAuthorised, VetoesShort
<1>6. NeverLocked'
  BY GovAssumption DEF PermissionUpdate, NeverLocked, Operavel, EV2
<1>. QED BY <1>3, <1>4, <1>5, <1>6 DEF IInv

(* The timelock starts at a height at which the approvals authorise. *)
LEMMA StartsAuthorised ==
  ASSUME NEW m, NEW signers, height \in Nat, perm.delay \in Nat, perm.delay > 0
  PROVE  /\ IniciaEm(m, signers) \in Nat
         /\ IniciaEm(m, signers) # 0 => /\ AutorizaMudanca(perm, m, signers)
                                        /\ IniciaEm(m, signers) = height + perm.delay
  BY DEF IniciaEm

(* The votes of some of the keys are finitely many, and those of nobody none. *)
LEMMA VotosFinitos ==
  ASSUME NEW nivel \in Nivel, NEW S \in SUBSET Key
  PROVE  /\ IsFiniteSet(Votos(nivel, S)) /\ PesoDe(nivel, S) \in Nat
         /\ PesoDe(nivel, {}) = 0
<1>. DEFINE V == {{k} \X (1..nivel.peso[k]) : k \in S}
            f == [k \in S |-> {k} \X (1..nivel.peso[k])]
<1>1. IsFiniteSet(S)
  BY GovAssumption, FS_Subset
<1>2. f \in Surjection(S, V)
  BY DEF Surjection
<1>3. IsFiniteSet(V)
  BY <1>1, <1>2, FS_Surjection
<1>4. ASSUME NEW T \in V PROVE IsFiniteSet(T)
  <2>1. PICK k \in S : T = {k} \X (1..nivel.peso[k])
    OBVIOUS
  <2>2. IsFiniteSet({k})
    BY FS_Singleton
  <2>3. nivel.peso[k] \in Int /\ 1 \in Int
    BY DEF Nivel
  <2>4. IsFiniteSet(1..nivel.peso[k])
    BY <2>3, FS_Interval
  <2>. QED BY <2>1, <2>2, <2>4, FS_Product
<1>5. IsFiniteSet(Votos(nivel, S))
  BY <1>3, <1>4, FS_UNION DEF Votos
<1>6. Votos(nivel, {}) = {}
  BY DEF Votos
<1>. QED BY <1>5, <1>6, FS_CardinalityType, FS_EmptySet DEF PesoDe

(* Nobody is short of every threshold. *)
LEMMA NobodyIsShort ==
  ASSUME NEW nivel \in Nivel
  PROVE  ~AtingeLimiar(nivel, {})
<1>1. PesoDe(nivel, {}) = 0
  BY VotosFinitos
<1>2. nivel.threshold \in Nat /\ nivel.threshold > 0
  BY DEF Nivel
<1>. QED BY <1>1, <1>2 DEF AtingeLimiar

(* A new signer adds its weight. *)
LEMMA SomaPeso ==
  ASSUME NEW nivel \in Nivel, NEW S \in SUBSET Key, NEW k \in Key \ S
  PROVE  PesoDe(nivel, S \cup {k}) = PesoDe(nivel, S) + nivel.peso[k]
<1>. DEFINE dele == {k} \X (1..nivel.peso[k])
<1>1. nivel.peso[k] \in Nat /\ nivel.peso[k] \in Int /\ 1 \in Int
  BY DEF Nivel
<1>2. IsFiniteSet({k}) /\ Cardinality({k}) = 1
  BY FS_Singleton
<1>3. IsFiniteSet(1..nivel.peso[k]) /\ Cardinality(1..nivel.peso[k]) = nivel.peso[k]
  <2>1. /\ IsFiniteSet(1..nivel.peso[k])
        /\ Cardinality(1..nivel.peso[k]) = IF 1 > nivel.peso[k] THEN 0 ELSE nivel.peso[k] - 1 + 1
    BY <1>1, FS_Interval
  <2>. QED BY <1>1, <2>1
<1>4. IsFiniteSet(dele) /\ Cardinality(dele) = nivel.peso[k]
  BY <1>1, <1>2, <1>3, FS_Product
<1>5. Votos(nivel, S \cup {k}) = Votos(nivel, S) \cup dele
  BY DEF Votos
<1>6. Votos(nivel, S) \cap dele = {}
  BY DEF Votos
<1>7. IsFiniteSet(Votos(nivel, S)) /\ Cardinality(Votos(nivel, S)) \in Nat
  BY VotosFinitos DEF PesoDe
<1>. HIDE DEF dele
<1>8. Cardinality(Votos(nivel, S) \cup dele)
        = Cardinality(Votos(nivel, S)) + Cardinality(dele) - Cardinality({})
  BY <1>4, <1>6, <1>7, FS_Union
<1>9. Cardinality({}) = 0
  BY FS_EmptySet
<1>10. PesoDe(nivel, S \cup {k}) = Cardinality(Votos(nivel, S) \cup dele)
  BY <1>5 DEF PesoDe
<1>11. PesoDe(nivel, S) = Cardinality(Votos(nivel, S))
  BY DEF PesoDe
<1>. QED BY <1>1, <1>4, <1>7, <1>8, <1>9, <1>10, <1>11

(* More signers do not reach less. *)
LEMMA MaisAssinaturas ==
  ASSUME NEW nivel \in Nivel, NEW S \in SUBSET Key, NEW T \in SUBSET S, AtingeLimiar(nivel, T)
  PROVE  AtingeLimiar(nivel, S)
<1>1. Votos(nivel, T) \in SUBSET Votos(nivel, S)
  BY DEF Votos
<1>2. IsFiniteSet(Votos(nivel, S)) /\ PesoDe(nivel, S) \in Nat /\ PesoDe(nivel, T) \in Nat
  BY VotosFinitos
<1>3. PesoDe(nivel, T) <= PesoDe(nivel, S)
  BY <1>1, <1>2, FS_Subset DEF PesoDe
<1>4. nivel.threshold \in Nat
  BY DEF Nivel
<1>. QED BY <1>2, <1>3, <1>4 DEF AtingeLimiar

(* What some signers authorise, more signers do: the first active exists. *)
LEMMA MaisAprovacoes ==
  ASSUME NEW p \in PermV2, p.actives # <<>>, NEW m,
         NEW S \in SUBSET Key, NEW T \in SUBSET S, AutorizaMudanca(p, m, T)
  PROVE  AutorizaMudanca(p, m, S)
<1>1. p.owner \in Nivel /\ p.actives[1].nivel \in Nivel
  <2>1. p.owner \in Nivel /\ p.actives \in Seq(Active)
    BY DEF PermV2
  <2>2. p.actives[1] \in Active
    BY <2>1
  <2>. QED BY <2>1, <2>2 DEF Active
<1>2. /\ AtingeLimiar(p.owner, T) => AtingeLimiar(p.owner, S)
      /\ AtingeLimiar(p.actives[1].nivel, T) => AtingeLimiar(p.actives[1].nivel, S)
  BY <1>1, MaisAssinaturas
<1>. QED BY <1>2 DEF AutorizaMudanca

(* A change proposed starts its timelock only when it is authorised. *)
LEMMA KeptByPropose ==
  ASSUME IInv, NEW k \in Key, NEW m \in Mudancas, PermissionPropose(k, m)
  PROVE  IInv'
<1>. DEFINE p == [change |-> m, approvals |-> {k}, vetoes |-> {}, executeAt |-> IniciaEm(m, {k}),
                  proposedAt |-> height]
<1>1. /\ EV2(perm) /\ pend' = <<p>>
      /\ perm' = perm /\ ops' = ops /\ height' = height
  BY DEF PermissionPropose
<1>2. perm \in PermV2 /\ height \in Nat /\ perm.delay \in Nat /\ perm.delay > 0
  BY <1>1, FormOf DEF IInv, PermTyped
<1>3. /\ IniciaEm(m, {k}) \in Nat
      /\ IniciaEm(m, {k}) # 0 => AutorizaMudanca(perm, m, {k}) /\ IniciaEm(m, {k}) = height + perm.delay
  BY <1>2, StartsAuthorised
<1>4. p \in Pedidos
  BY <1>2, <1>3 DEF Pedidos
<1>5. PendTyped' /\ PendUnderV2'
  BY <1>1, <1>2, <1>4 DEF PendTyped, PendUnderV2
<1>6. StartedAuthorised'
  <2>1. /\ pend'[1].change = m /\ pend'[1].approvals = {k} /\ pend'[1].executeAt = IniciaEm(m, {k})
        /\ pend'[1].proposedAt = height
    BY <1>1
  <2>. HIDE DEF p
  <2>2. IniciaEm(m, {k}) # 0 => IniciaEm(m, {k}) - perm.delay \in height..height
    BY <1>2, <1>3
  <2>. QED BY <1>1, <1>3, <2>1, <2>2 DEF StartedAuthorised
<1>7. VetoesShort'
  <2>1. perm.owner \in Nivel
    BY <1>2 DEF PermV2
  <2>2. pend'[1].vetoes = {}
    BY <1>1
  <2>. QED BY <1>1, <2>1, <2>2, NobodyIsShort DEF VetoesShort
<1>. QED BY <1>1, <1>5, <1>6, <1>7, OnlyPend

(* Nor does an approval start it earlier. *)
LEMMA KeptByApprove ==
  ASSUME IInv, NEW k \in Key, PermissionApprove(k)
  PROVE  IInv'
<1>. DEFINE signers == pend[1].approvals \cup {k}
            p == [pend[1] EXCEPT !.approvals = signers,
                    !.executeAt = IF @ = 0 THEN IniciaEm(pend[1].change, signers) ELSE @]
<1>1. /\ pend # <<>> /\ EV2(perm) /\ pend' = <<p>>
      /\ perm' = perm /\ ops' = ops /\ height' = height
  BY DEF PermissionApprove
<1>2. perm \in PermV2 /\ height \in Nat /\ perm.delay \in Nat /\ perm.delay > 0
  BY <1>1, FormOf DEF IInv, PermTyped
<1>3. pend[1] \in Pedidos /\ pend[1].proposedAt <= height
  BY <1>1 DEF IInv, PendTyped
<1>4. /\ IniciaEm(pend[1].change, signers) \in Nat
      /\ IniciaEm(pend[1].change, signers) # 0 =>
           /\ AutorizaMudanca(perm, pend[1].change, signers)
           /\ IniciaEm(pend[1].change, signers) = height + perm.delay
  BY <1>2, StartsAuthorised
<1>5. p \in Pedidos
  BY <1>3, <1>4 DEF Pedidos
<1>6. /\ p.change = pend[1].change /\ p.approvals = signers /\ p.vetoes = pend[1].vetoes
      /\ p.proposedAt = pend[1].proposedAt
      /\ p.executeAt = IF pend[1].executeAt = 0 THEN IniciaEm(pend[1].change, signers)
                       ELSE pend[1].executeAt
  BY <1>3 DEF Pedidos
<1>. HIDE DEF p
<1>7. PendTyped' /\ PendUnderV2'
  BY <1>1, <1>3, <1>5, <1>6 DEF PendTyped, PendUnderV2
<1>8. perm.actives # <<>>
  BY <1>1 DEF IInv, NeverLocked
<1>9. StartedAuthorised'
  <2>1. /\ pend'[1].change = pend[1].change /\ pend'[1].approvals = signers
        /\ pend'[1].executeAt = p.executeAt /\ pend'[1].proposedAt = pend[1].proposedAt
    BY <1>1, <1>6
  <2>2. CASE pend[1].executeAt = 0
    <3>1. p.executeAt # 0 => p.executeAt - perm.delay = height
      BY <1>2, <1>4, <1>6, <2>2
    <3>2. p.executeAt # 0 => p.executeAt - perm.delay \in pend[1].proposedAt..height
      BY <1>2, <1>3, <3>1 DEF Pedidos
    <3>. QED BY <1>1, <1>4, <1>6, <2>1, <2>2, <3>2 DEF StartedAuthorised
  <2>3. CASE pend[1].executeAt # 0
    <3>1. /\ AutorizaMudanca(perm, pend[1].change, pend[1].approvals)
          /\ pend[1].executeAt - perm.delay \in pend[1].proposedAt..height
      BY <1>1, <2>3 DEF IInv, StartedAuthorised
    <3>2. signers \in SUBSET Key /\ pend[1].approvals \in SUBSET signers
      BY <1>3 DEF Pedidos
    <3>3. AutorizaMudanca(perm, pend[1].change, signers)
      BY <1>2, <1>8, <3>1, <3>2, MaisAprovacoes
    <3>. QED BY <1>1, <1>6, <2>1, <2>3, <3>1, <3>3 DEF StartedAuthorised
  <2>. QED BY <2>2, <2>3
<1>10. VetoesShort'
  BY <1>1, <1>6 DEF IInv, VetoesShort
<1>. QED BY <1>1, <1>7, <1>9, <1>10, OnlyPend

(* Vetoes that reach the threshold remove the change. *)
LEMMA KeptByVeto ==
  ASSUME IInv, NEW k \in Key, PermissionVeto(k)
  PROVE  IInv'
<1>. DEFINE vetoes == pend[1].vetoes \cup {k}
            p == [pend[1] EXCEPT !.vetoes = vetoes]
<1>1. /\ pend # <<>> /\ EV2(perm)
      /\ pend' = IF AtingeLimiar(perm.owner, vetoes) THEN <<>> ELSE <<p>>
      /\ perm' = perm /\ ops' = ops /\ height' = height
  BY DEF PermissionVeto
<1>2. pend[1] \in Pedidos /\ pend[1].proposedAt <= height
  BY <1>1 DEF IInv, PendTyped
<1>3. /\ p \in Pedidos /\ p.vetoes = vetoes /\ p.executeAt = pend[1].executeAt
      /\ p.change = pend[1].change /\ p.approvals = pend[1].approvals
      /\ p.proposedAt = pend[1].proposedAt
  BY <1>2 DEF Pedidos
<1>. HIDE DEF p
<1>4. PendTyped' /\ PendUnderV2'
  BY <1>1, <1>2, <1>3 DEF PendTyped, PendUnderV2
<1>5. StartedAuthorised'
  BY <1>1, <1>3 DEF IInv, StartedAuthorised
<1>6. VetoesShort'
  BY <1>1, <1>3 DEF VetoesShort
<1>. QED BY <1>1, <1>4, <1>5, <1>6, OnlyPend

(* A level that exists is a level. *)
LEMMA GastoTyped ==
  ASSUME NEW p \in Permissao, NEW n \in Niveis(p)
  PROVE  n \in Int /\ NivelDeGasto(p, n) \in Nivel
<1>1. CASE p.v = 0
  BY <1>1 DEF Niveis
<1>2. CASE p.v = 1
  BY <1>2 DEF Niveis, NivelDeGasto, Permissao, Nenhuma, PermV1, PermV2
<1>3. CASE p.v = 2
  <2>1. p \in PermV2 /\ p.owner \in Nivel /\ p.actives \in Seq(Active)
    BY <1>3, FormOf DEF EV2, PermV2
  <2>2. n = -1 \/ n \in 0..(Len(p.actives) - 1)
    BY <1>3 DEF Niveis
  <2>3. CASE n = -1
    BY <1>3, <2>1, <2>3 DEF NivelDeGasto, OwnerId
  <2>4. CASE n \in 0..(Len(p.actives) - 1)
    <3>1. n \in Int /\ n # -1 /\ n + 1 \in 1..Len(p.actives)
      BY <2>1, <2>4
    <3>2. p.actives[n + 1] \in Active
      BY <2>1, <3>1
    <3>. QED BY <1>3, <3>1, <3>2 DEF NivelDeGasto, OwnerId, Active
  <2>. QED BY <2>2, <2>3, <2>4
<1>. QED BY <1>1, <1>2, <1>3, FormOf

(* A first approval either executes the operation or waits with its         *)
(* weight.                                                                  *)
LEMMA KeptByMultisigPropose ==
  ASSUME IInv, NEW k \in Key, NEW op \in Ops, NEW n, MultisigPropose(k, op, n)
  PROVE  IInv' /\ (EV2(perm) => perm' = perm)
<1>. DEFINE id == Min(fresh)
            gasto == NivelDeGasto(perm, n)
            nova == [op |-> op, approvals |-> {k}, weight |-> gasto.peso[k], nivel |-> n,
                     deadline |-> height + Ttl]
<1>1. /\ n \in Niveis(perm) /\ height' = height
      /\ op.tipo = "PERMISSION_CHANGE" => ~EV2(perm)
  BY DEF MultisigPropose, Permitida
<1>2. \/ Becomes(AplicaOp(State, op, id))
      \/ gasto.peso[k] < gasto.threshold /\ Becomes([State EXCEPT !.ops = Com(@, id, nova)])
  BY DEF MultisigPropose
<1>3. CASE Becomes(AplicaOp(State, op, id))
  <2>1. Restrict(ops, DOMAIN ops) = ops
    BY DEF IInv, OpsTyped, Restrict
  <2>2. State = [State EXCEPT !.ops = Restrict(ops, DOMAIN ops)]
    BY <2>1 DEF State
  <2>. HIDE DEF id
  <2>. QED BY <1>1, <1>3, <2>2, Executed
<1>4. CASE gasto.peso[k] < gasto.threshold /\ Becomes([State EXCEPT !.ops = Com(@, id, nova)])
  <2>1. perm' = perm /\ pend' = pend /\ ops' = Com(ops, id, nova)
    BY <1>4 DEF Becomes, State
  <2>2. perm \in Permissao /\ height \in Nat /\ Ttl \in Nat
    BY GovAssumption DEF IInv, PermTyped
  <2>3. n \in Int /\ gasto \in Nivel
    BY <1>1, <2>2, GastoTyped
  <2>4. gasto.peso[k] \in Nat
    BY <2>3 DEF Nivel
  <2>5. gasto.peso[k] = PesoDe(gasto, {k})
    <3>1. PesoDe(gasto, {} \cup {k}) = PesoDe(gasto, {}) + gasto.peso[k]
      BY <2>3, SomaPeso
    <3>2. PesoDe(gasto, {}) = 0
      BY <2>3, VotosFinitos
    <3>3. {} \cup {k} = {k}
      OBVIOUS
    <3>. HIDE DEF gasto
    <3>. QED BY <2>4, <3>1, <3>2, <3>3
  <2>6. nova \in Pendentes
    BY <2>2, <2>3, <2>4 DEF Pendentes
  <2>7. /\ DOMAIN ops' = DOMAIN ops \cup {id} /\ ops' = [x \in DOMAIN ops' |-> ops'[x]]
        /\ ops'[id] = nova /\ \A x \in DOMAIN ops \ {id} : ops'[x] = ops[x]
    BY <2>1 DEF Com
  <2>8. nova.op = op /\ nova.nivel = n /\ nova.weight = gasto.peso[k] /\ nova.approvals = {k}
    OBVIOUS
  <2>. HIDE DEF nova, id
  <2>9. OpsTyped'
    BY <2>6, <2>7 DEF IInv, OpsTyped
  <2>10. NoChangeUnderV2'
    BY <1>1, <2>1, <2>7, <2>8 DEF IInv, NoChangeUnderV2
  <2>11. WeightsCurrent'
    BY <1>1, <1>4, <2>1, <2>5, <2>7, <2>8 DEF IInv, WeightsCurrent
  <2>. QED BY <1>1, <2>1, <2>9, <2>10, <2>11, OnlyOps
<1>. QED BY <1>2, <1>3, <1>4

(* So does a further one. *)
LEMMA KeptByMultisigApprove ==
  ASSUME IInv, NEW k \in Key, NEW id, MultisigApprove(k, id)
  PROVE  IInv' /\ (EV2(perm) => perm' = perm)
<1>. DEFINE n == ops[id].nivel
            gasto == NivelDeGasto(perm, n)
            peso == ops[id].weight + gasto.peso[k]
            nova == [ops[id] EXCEPT !.weight = peso, !.approvals = @ \cup {k}]
<1>1. /\ id \in DOMAIN ops /\ ops[id] \in Pendentes /\ height' = height
      /\ n \in Niveis(perm) /\ k \notin ops[id].approvals
  BY DEF MultisigApprove, IInv, OpsTyped
<1>2. \/ Becomes(AplicaOp(SemOp(State, id), ops[id].op, id))
      \/ /\ peso < gasto.threshold
         /\ Becomes([State EXCEPT !.ops[id].weight = peso, !.ops[id].approvals = @ \cup {k}])
  BY DEF MultisigApprove
<1>3. CASE Becomes(AplicaOp(SemOp(State, id), ops[id].op, id))
  <2>1. SemOp(State, id) = [State EXCEPT !.ops = Restrict(ops, DOMAIN ops \ {id})]
    BY DEF SemOp, State
  <2>2. /\ ops[id].op \in Ops
        /\ ops[id].op.tipo = "PERMISSION_CHANGE" => ~EV2(perm)
    BY <1>1 DEF Pendentes, IInv, NoChangeUnderV2
  <2>. QED BY <1>1, <1>3, <2>1, <2>2, Executed
<1>4. CASE /\ peso < gasto.threshold
           /\ Becomes([State EXCEPT !.ops[id].weight = peso, !.ops[id].approvals = @ \cup {k}])
  <2>1. perm' = perm /\ pend' = pend /\ ops' = [ops EXCEPT ![id] = nova]
    BY <1>1, <1>4 DEF Becomes, State
  <2>2. perm \in Permissao
    BY DEF IInv, PermTyped
  <2>3. gasto \in Nivel
    BY <1>1, <2>2, GastoTyped
  <2>4. gasto.peso[k] \in Nat
    BY <2>3 DEF Nivel
  <2>5. peso = PesoDe(gasto, ops[id].approvals \cup {k})
    <3>1. ops[id].weight = PesoDe(gasto, ops[id].approvals)
      BY <1>1 DEF IInv, WeightsCurrent
    <3>2. ops[id].approvals \in SUBSET Key
      BY <1>1 DEF Pendentes
    <3>. QED BY <1>1, <2>3, <3>1, <3>2, SomaPeso
  <2>6. nova \in Pendentes
    <3>1. peso \in Nat /\ ops[id].approvals \cup {k} \in SUBSET Key
      BY <1>1, <2>4 DEF Pendentes
    <3>. HIDE DEF peso
    <3>. QED BY <1>1, <3>1 DEF Pendentes
  <2>7. /\ DOMAIN ops' = DOMAIN ops /\ ops' = [x \in DOMAIN ops' |-> ops'[x]]
        /\ ops'[id] = nova /\ \A x \in DOMAIN ops \ {id} : ops'[x] = ops[x]
    BY <1>1, <2>1 DEF IInv, OpsTyped
  <2>8. /\ nova.op = ops[id].op /\ nova.nivel = n /\ nova.weight = peso
        /\ nova.approvals = ops[id].approvals \cup {k}
    BY <1>1 DEF Pendentes
  <2>. HIDE DEF nova, peso
  <2>9. OpsTyped'
    BY <2>6, <2>7 DEF IInv, OpsTyped
  <2>10. NoChangeUnderV2'
    BY <1>1, <2>1, <2>7, <2>8 DEF IInv, NoChangeUnderV2
  <2>11. WeightsCurrent'
    BY <1>1, <1>4, <2>1, <2>5, <2>7, <2>8 DEF IInv, WeightsCurrent
  <2>. QED BY <1>1, <2>1, <2>9, <2>10, <2>11, OnlyOps
<1>. QED BY <1>2, <1>3, <1>4

(* What the tick does to the account: operations expire, and a due change is
   dropped, or executed with every operation discarded. *)
LEMMA TickEffect ==
  ASSUME BlockTick
  PROVE  /\ height' = height + 1
         /\ \E S \in SUBSET DOMAIN ops :
              \/ /\ perm' = perm /\ pend' = pend /\ ops' = Restrict(ops, S)
              \/ /\ perm' = perm /\ pend' = <<>> /\ ops' = Restrict(ops, S)
              \/ /\ EV2(perm) /\ pend # <<>> /\ pend[1].executeAt # 0
                 /\ ~(height < pend[1].executeAt)
                 /\ Simula(perm, pend[1].change)
                 /\ perm' = Mudada(perm, pend[1].change) /\ pend' = <<>> /\ ops' = <<>>
<1>. DEFINE s == MaturaPropostas(State)
            S == {id \in DOMAIN ops : height <= ops[id].deadline}
            t == ExpiraOps(s)
            m == pend[1].change
            r == [t EXCEPT !.pend = <<>>]
<1>1. /\ s.perm = perm /\ s.pend = pend /\ s.ops = ops
      /\ s = [perm |-> s.perm, pend |-> s.pend, ops |-> s.ops, proposals |-> s.proposals,
              params |-> s.params, treasury |-> s.treasury, stake |-> s.stake]
  BY DEF MaturaPropostas, State
<1>. HIDE DEF s
<1>2. /\ t.perm = perm /\ t.pend = pend /\ t.ops = Restrict(ops, S)
      /\ t = [perm |-> t.perm, pend |-> t.pend, ops |-> t.ops, proposals |-> t.proposals,
              params |-> t.params, treasury |-> t.treasury, stake |-> t.stake]
  BY <1>1 DEF ExpiraOps
<1>3. height' = height + 1 /\ Becomes(MaturaPermissoes(t))
  BY DEF BlockTick, s
<1>. HIDE DEF t
<1>4. S \in SUBSET DOMAIN ops
  OBVIOUS
<1>. HIDE DEF S
<1>5. CASE pend = <<>> \/ pend[1].executeAt = 0 \/ height < pend[1].executeAt
  <2>1. MaturaPermissoes(t) = t
    BY <1>2, <1>5 DEF MaturaPermissoes
  <2>. QED BY <1>2, <1>3, <1>4, <2>1 DEF Becomes
<1>6. CASE ~(pend = <<>> \/ pend[1].executeAt = 0 \/ height < pend[1].executeAt)
  <2>1. CASE EV2(perm) /\ AutorizaMudanca(perm, m, pend[1].approvals) /\ Simula(perm, m)
    <3>1. MaturaPermissoes(t) = [r EXCEPT !.perm = Mudada(perm, m), !.ops = <<>>]
      BY <1>2, <1>6, <2>1 DEF MaturaPermissoes
    <3>2. /\ MaturaPermissoes(t).perm = Mudada(perm, m) /\ MaturaPermissoes(t).pend = <<>>
          /\ MaturaPermissoes(t).ops = <<>>
      BY <1>2, <3>1
    <3>. QED BY <1>3, <1>4, <1>6, <2>1, <3>2 DEF Becomes
  <2>2. CASE ~(EV2(perm) /\ AutorizaMudanca(perm, m, pend[1].approvals) /\ Simula(perm, m))
    <3>1. MaturaPermissoes(t) = r
      BY <1>2, <1>6, <2>2 DEF MaturaPermissoes
    <3>2. r.perm = perm /\ r.pend = <<>> /\ r.ops = Restrict(ops, S)
      BY <1>2
    <3>. QED BY <1>3, <1>4, <3>1, <3>2 DEF Becomes
  <2>. QED BY <2>1, <2>2
<1>. QED BY <1>5, <1>6

(* A change that passes the rail leaves levels that can be reached. *)
LEMMA MudadaUsable ==
  ASSUME NEW p \in PermV2, NEW m \in Mudancas, Simula(p, m), Alcancavel(p.owner),
         \A n \in DOMAIN p.actives : Alcancavel(p.actives[n].nivel)
  PROVE  LET q == Mudada(p, m)
         IN /\ q.actives # <<>> /\ Alcancavel(q.owner)
            /\ \A n \in DOMAIN q.actives : Alcancavel(q.actives[n].nivel)
<1>. DEFINE q == Mudada(p, m)
<1>1. q.actives # <<>>
  BY DEF Simula, Operavel
<1>2. m \in Mudanca /\ (m.nivel = "owner" => Alcancavel(m.valor))
  BY GovAssumption
<1>3. CASE m \in [nivel : {"owner"}, valor : Nivel]
  <2>1. q.owner = m.valor /\ q.actives = p.actives
    BY <1>3 DEF Mudada, PermV2
  <2>2. Alcancavel(m.valor)
    BY <1>2, <1>3
  <2>. HIDE DEF q
  <2>3. Alcancavel(q.owner) /\ \A n \in DOMAIN q.actives : Alcancavel(q.actives[n].nivel)
    BY <2>1, <2>2
  <2>. QED BY <1>1, <2>3 DEF q
<1>4. CASE m \in [nivel : {"witness", "recovery"}, valor : SUBSET Key]
           \/ m \in [nivel : {"delay"}, valor : Nat \ {0}]
  <2>1. q.owner = p.owner /\ q.actives = p.actives
    BY <1>4 DEF Mudada, PermV2
  <2>. HIDE DEF q
  <2>2. Alcancavel(q.owner) /\ \A n \in DOMAIN q.actives : Alcancavel(q.actives[n].nivel)
    BY <2>1
  <2>. QED BY <1>1, <2>2 DEF q
<1>5. CASE m \in [nivel : {"active"}, id : Nat, valor : Seq(Active)]
  <2>. DEFINE s == p.actives
              u == ComActive(s, m.id, m.valor)
  <2>1. q.owner = p.owner /\ q.actives = u
    BY <1>5 DEF Mudada, PermV2
  <2>2. /\ s \in Seq(Active) /\ m.valor \in Seq(Active) /\ m.id \in Nat
        /\ \A n \in DOMAIN m.valor : Alcancavel(m.valor[n].nivel)
    BY <1>5, GovAssumption DEF PermV2
  <2>. HIDE DEF s
  <2>3. \A n \in DOMAIN u : \/ \E i \in DOMAIN s : u[n] = s[i]
                            \/ \E i \in DOMAIN m.valor : u[n] = m.valor[i]
    <3>1. CASE m.id < Len(s) /\ m.valor = <<>>
      <4>1. u = [n \in 1..(Len(s) - 1) |-> s[IF n <= m.id THEN n ELSE n + 1]]
        BY <3>1 DEF ComActive
      <4>. QED BY <2>2, <4>1
    <3>2. CASE m.id < Len(s) /\ m.valor # <<>>
      <4>1. u = [s EXCEPT ![m.id + 1] = m.valor[1]] /\ 1 \in DOMAIN m.valor
        BY <2>2, <3>2 DEF ComActive
      <4>. QED BY <2>2, <4>1
    <3>3. CASE ~(m.id < Len(s))
      <4>1. u = s \o m.valor
        BY <3>3 DEF ComActive
      <4>. QED BY <2>2, <4>1
    <3>. QED BY <3>1, <3>2, <3>3
  <2>. HIDE DEF u, q
  <2>4. \A n \in DOMAIN s : Alcancavel(s[n].nivel)
    BY DEF s
  <2>5. Alcancavel(q.owner) /\ \A n \in DOMAIN q.actives : Alcancavel(q.actives[n].nivel)
    BY <2>1, <2>2, <2>3, <2>4
  <2>. QED BY <1>1, <2>5 DEF q
<1>. QED BY <1>2, <1>3, <1>4, <1>5 DEF Mudanca

(* A matured change takes itself and all pending operations away. *)
LEMMA KeptByTick ==
  ASSUME IInv, BlockTick
  PROVE  IInv'
<1>1. PICK S \in SUBSET DOMAIN ops :
        \/ /\ perm' = perm /\ pend' = pend /\ ops' = Restrict(ops, S)
        \/ /\ perm' = perm /\ pend' = <<>> /\ ops' = Restrict(ops, S)
        \/ /\ EV2(perm) /\ pend # <<>> /\ Simula(perm, pend[1].change)
           /\ perm' = Mudada(perm, pend[1].change) /\ pend' = <<>> /\ ops' = <<>>
  BY TickEffect
<1>2. height \in Nat /\ height' = height + 1 /\ height' \in Nat
  BY TickEffect DEF IInv, PermTyped
<1>3. CASE perm' = perm /\ pend' = pend /\ ops' = Restrict(ops, S)
  <2>1. OpsTyped' /\ NoChangeUnderV2' /\ WeightsCurrent'
    BY <1>3, RestrictedOps
  <2>2. PermTyped' /\ PendUnderV2' /\ VetoesShort' /\ NeverLocked'
    BY <1>2, <1>3 DEF IInv, PermTyped, PendUnderV2, VetoesShort, NeverLocked
  <2>3. PendTyped'
    BY <1>2, <1>3 DEF IInv, PendTyped, Pedidos
  <2>4. StartedAuthorised'
    <3>1. CASE pend = <<>>
      BY <1>3, <3>1 DEF StartedAuthorised
    <3>2. CASE pend # <<>>
      <4>1. pend[1].executeAt \in Nat /\ pend[1].proposedAt \in Nat
        BY <3>2 DEF IInv, PendTyped, Pedidos
      <4>2. perm.delay \in Nat
        BY <3>2, FormOf DEF IInv, PermTyped, PendUnderV2
      <4>. QED BY <1>2, <1>3, <3>2, <4>1, <4>2 DEF IInv, StartedAuthorised
    <3>. QED BY <3>1, <3>2
  <2>. QED BY <2>1, <2>2, <2>3, <2>4 DEF IInv
<1>4. CASE perm' = perm /\ pend' = <<>> /\ ops' = Restrict(ops, S)
  <2>1. OpsTyped' /\ NoChangeUnderV2' /\ WeightsCurrent'
    BY <1>4, RestrictedOps
  <2>2. PermTyped' /\ PendTyped' /\ PendUnderV2' /\ NeverLocked'
    BY <1>2, <1>4 DEF IInv, PermTyped, PendTyped, PendUnderV2, NeverLocked
  <2>3. StartedAuthorised' /\ VetoesShort'
    BY <1>4 DEF StartedAuthorised, VetoesShort
  <2>. QED BY <2>1, <2>2, <2>3 DEF IInv
<1>5. CASE /\ EV2(perm) /\ pend # <<>> /\ Simula(perm, pend[1].change)
           /\ perm' = Mudada(perm, pend[1].change) /\ pend' = <<>> /\ ops' = <<>>
  <2>. DEFINE m == pend[1].change
  <2>1. perm \in PermV2 /\ m \in Mudancas /\ m \in Mudanca
    BY <1>5, FormOf, GovAssumption DEF IInv, PermTyped, PendTyped, Pedidos
  <2>2. perm' \in PermV2
    BY <1>5, <2>1, MudadaTyped
  <2>3. perm' \in Permissao /\ EV2(perm')
    BY <2>2 DEF Permissao, PermV2, EV2
  <2>4. PermTyped' /\ PendTyped' /\ PendUnderV2'
    BY <1>2, <1>5, <2>3 DEF PermTyped, PendTyped, PendUnderV2
  <2>5. OpsTyped' /\ NoChangeUnderV2' /\ WeightsCurrent'
    BY <1>5 DEF OpsTyped, NoChangeUnderV2, WeightsCurrent
  <2>6. StartedAuthorised' /\ VetoesShort'
    BY <1>5 DEF StartedAuthorised, VetoesShort
  <2>7. /\ Alcancavel(perm.owner)
        /\ \A n \in DOMAIN perm.actives : Alcancavel(perm.actives[n].nivel)
    BY <1>5 DEF IInv, NeverLocked
  <2>8. /\ perm'.actives # <<>> /\ Alcancavel(perm'.owner)
        /\ \A n \in DOMAIN perm'.actives : Alcancavel(perm'.actives[n].nivel)
    BY <1>5, <2>1, <2>7, MudadaUsable
  <2>9. NeverLocked'
    BY <2>2, <2>8 DEF NeverLocked, PermV2
  <2>. QED BY <2>4, <2>5, <2>6, <2>9 DEF IInv
<1>. QED BY <1>1, <1>3, <1>4, <1>5

-----------------------------------------------------------------------------
(* Nothing is pending under the first permission. *)
LEMMA InitIInv == Init => IInv
<1>. SUFFICES ASSUME Init PROVE IInv
  OBVIOUS
<1>1. PermTyped /\ PendTyped /\ PendUnderV2 /\ StartedAuthorised /\ VetoesShort
  BY GovAssumption DEF Init, PermTyped, PendTyped, PendUnderV2, StartedAuthorised, VetoesShort
<1>2. OpsTyped /\ NoChangeUnderV2 /\ WeightsCurrent
  BY DEF Init, OpsTyped, NoChangeUnderV2, WeightsCurrent
<1>3. NeverLocked
  BY GovAssumption DEF Init, NeverLocked, Operavel, EV2
<1>. QED BY <1>1, <1>2, <1>3 DEF IInv

(* Every step keeps the invariant. *)
LEMMA StepIInv == IInv /\ [Next]_vars => IInv'
<1>. SUFFICES ASSUME IInv, [Next]_vars PROVE IInv'
  OBVIOUS
<1>1. CASE UNCHANGED vars
  BY <1>1, AccountUntouched DEF vars
<1>2. CASE BlockTick
  BY <1>2, KeptByTick
<1>3. CASE Transacao
  <2>1. CASE \E a \in Contas, id \in Ids, v \in Valores : GovPropose(a, id, v)
    BY <2>1, KeptByGov
  <2>2. CASE \E a \in Contas, id \in Ids : GovVote(a, id)
    BY <2>2, KeptByGov
  <2>3. CASE \E a \in Contas : Unstake(a)
    BY <2>3, KeptByGov
  <2>4. CASE \E p \in Permissoes : PermissionUpdate(p)
    BY <2>4, KeptByUpdate
  <2>5. CASE \E k \in Key, m \in Mudancas : PermissionPropose(k, m)
    BY <2>5, KeptByPropose
  <2>6. CASE \E k \in Key : PermissionApprove(k) \/ PermissionVeto(k)
    BY <2>6, KeptByApprove, KeptByVeto
  <2>7. CASE \E k \in Key, op \in Ops, n \in -1..MaxActives : MultisigPropose(k, op, n)
    BY <2>7, KeptByMultisigPropose
  <2>8. CASE \E k \in Key, id \in Ids : MultisigApprove(k, id)
    BY <2>8, KeptByMultisigApprove
  <2>. QED BY <1>3, <2>1, <2>2, <2>3, <2>4, <2>5, <2>6, <2>7, <2>8 DEF Transacao
<1>. QED BY <1>1, <1>2, <1>3 DEF Next

(* IInv holds in every state. *)
LEMMA Always == Spec => []IInv
<1>. QED BY InitIInv, StepIInv, PTL DEF Spec

(* A change of the permission that runs its timelock is authorised by its
   approvals under the permission in force, since a whole delay before it takes
   effect (permission_propose, permission_approve, matura_permissoes). *)
THEOREM TimelockAuthorised == Spec => []StartedAuthorised
<1>1. IInv => StartedAuthorised
  BY DEF IInv
<1>. QED BY <1>1, Always, PTL

(* No change stays pending that the owners have vetoed (permission_veto). *)
THEOREM VetoStops == Spec => []VetoesShort
<1>1. IInv => VetoesShort
  BY DEF IInv
<1>. QED BY <1>1, Always, PTL

(* The weight of a pending operation is that of its approvals under the
   permission in force (multisig_propose, multisig_approve, matura_permissoes). *)
THEOREM WeightsAreCurrent == Spec => []WeightsCurrent
<1>1. IInv => WeightsCurrent
  BY DEF IInv
<1>. QED BY <1>1, Always, PTL

(* No sequence of changes locks the account (simular_mudanca). *)
THEOREM AccountUsable == Spec => []NeverLocked
<1>1. IInv => NeverLocked
  BY DEF IInv
<1>. QED BY <1>1, Always, PTL

(* A permission of the second form changes only to what was pending and due:
   by matura_permissoes, and by no transaction. *)
THEOREM ChangesTimelocked == Spec => OnlyTimelocked
<1>. DEFINE Prazo == EV2(perm) /\ perm' # perm =>
                       /\ EV2(perm') /\ pend # <<>> /\ pend' = <<>>
                       /\ perm' = Mudada(perm, pend[1].change)
                       /\ pend[1].executeAt \in 1..height
<1>1. ASSUME IInv, EV2(perm), Transacao PROVE perm' = perm
  <2>1. CASE \E a \in Contas, id \in Ids, v \in Valores : GovPropose(a, id, v)
    BY <2>1 DEF GovPropose, Becomes, Propoe, State
  <2>2. CASE \E a \in Contas, id \in Ids : GovVote(a, id)
    BY <2>2 DEF GovVote, Becomes, Vota, State
  <2>3. CASE \E a \in Contas : Unstake(a)
    BY <2>3 DEF Unstake, Becomes, Sacado, State
  <2>4. CASE \E p \in Permissoes : PermissionUpdate(p)
    BY <1>1, <2>4 DEF PermissionUpdate, EV2, Nenhuma
  <2>5. CASE \E k \in Key, m \in Mudancas : PermissionPropose(k, m)
    BY <2>5 DEF PermissionPropose
  <2>6. CASE \E k \in Key : PermissionApprove(k) \/ PermissionVeto(k)
    BY <2>6 DEF PermissionApprove, PermissionVeto
  <2>7. CASE \E k \in Key, op \in Ops, n \in -1..MaxActives : MultisigPropose(k, op, n)
    BY <1>1, <2>7, KeptByMultisigPropose
  <2>8. CASE \E k \in Key, id \in Ids : MultisigApprove(k, id)
    BY <1>1, <2>8, KeptByMultisigApprove
  <2>. QED BY <1>1, <2>1, <2>2, <2>3, <2>4, <2>5, <2>6, <2>7, <2>8 DEF Transacao
<1>2. ASSUME IInv, EV2(perm), perm' # perm, BlockTick PROVE Prazo
  <2>. DEFINE m == pend[1].change
  <2>1. /\ pend # <<>> /\ pend[1].executeAt # 0 /\ ~(height < pend[1].executeAt)
        /\ perm' = Mudada(perm, m) /\ pend' = <<>>
    BY <1>2, TickEffect
  <2>2. perm \in PermV2 /\ m \in Mudanca /\ pend[1].executeAt \in Nat /\ height \in Nat
    BY <1>2, <2>1, FormOf, GovAssumption DEF IInv, PermTyped, PendTyped, Pedidos
  <2>3. perm' \in PermV2
    BY <2>1, <2>2, MudadaTyped
  <2>4. EV2(perm')
    BY <2>3 DEF PermV2, EV2
  <2>. QED BY <2>1, <2>2, <2>4
<1>3. IInv /\ [Next]_vars => [Prazo]_vars
  BY <1>1, <1>2 DEF Next, vars
<1>. QED BY <1>3, Always, PTL DEF Spec, OnlyTimelocked

-----------------------------------------------------------------------------
(* Proposals and validators.  matura_propostas walks the proposals in the order
   of their ids; what it leaves is stated for the whole walk by induction on the
   id, and rests on what one proposal does (Maturada). *)

Params == [min : Nat, max : Nat, comite : Nat]
Proposta == [valor : Valores, votes : SUBSET Contas, deadline : Nat, executeAt : Nat]

(* The equation of the walk up to id k. *)
AteEquation(s, k, f) == f = [n \in 0..k |-> IF n = 0 THEN s ELSE Maturada(f[n - 1], n)]

Ate(s) == CHOOSE f : AteEquation(s, MaxIds, f)

(* The walk over the proposals, by the ids passed so far. *)
LEMMA MaturadasIsAte ==
  ASSUME NEW s
  PROVE  Maturadas(s) = Ate(s)[MaxIds]
  BY DEF Maturadas, Ate, AteEquation

(* The walk is defined, id by id. *)
LEMMA AteDefined ==
  ASSUME NEW s
  PROVE  /\ Ate(s)[0] = s
         /\ \A n \in 1..MaxIds : Ate(s)[n] = Maturada(Ate(s)[n - 1], n)
<1> DEFINE T == {k \in Nat : \E f : AteEquation(s, k, f)}
<1>1. 0 \in T
  <2> DEFINE f == [n \in 0..0 |-> s]
  <2>1. f = [n \in 0..0 |-> IF n = 0 THEN s ELSE Maturada(f[n - 1], n)]
    OBVIOUS
  <2>2. AteEquation(s, 0, f)
    BY <2>1 DEF AteEquation
  <2>3. QED
    BY <2>2
<1>2. ASSUME NEW k \in Nat, k \in T
      PROVE  k + 1 \in T
  <2>1. PICK f : AteEquation(s, k, f)
    BY <1>2
  <2> DEFINE g == [n \in 0..(k + 1) |-> IF n = 0 THEN s ELSE Maturada(f[n - 1], n)]
  <2>2. \A n \in 0..k : f[n] = IF n = 0 THEN s ELSE Maturada(f[n - 1], n)
    BY <2>1 DEF AteEquation
  <2>3. \A n \in 0..k : n \in 0..(k + 1)
    OBVIOUS
  <2>4. \A n \in 0..k : g[n] = f[n]
    BY <2>2, <2>3
  <2>5. \A n \in 0..(k + 1) : n # 0 => n - 1 \in 0..k
    OBVIOUS
  <2>6. \A n \in 0..(k + 1) : g[n] = IF n = 0 THEN s ELSE Maturada(g[n - 1], n)
    BY <2>4, <2>5
  <2>7. g = [n \in 0..(k + 1) |-> g[n]]
    OBVIOUS
  <2> HIDE DEF g
  <2>8. AteEquation(s, k + 1, g)
    BY <2>6, <2>7 DEF AteEquation
  <2>9. QED
    BY <2>8
<1>3. Nat \subseteq T
  <2> HIDE DEF T
  <2>1. QED
    BY <1>1, <1>2, SetInduction
<1>4. MaxIds \in Nat
  BY GovAssumption
<1>5. AteEquation(s, MaxIds, Ate(s))
  BY <1>3, <1>4 DEF Ate
<1> DEFINE a == Ate(s)
<1> HIDE DEF a
<1>6. \A n \in 0..MaxIds : a[n] = IF n = 0 THEN s ELSE Maturada(a[n - 1], n)
  BY <1>5 DEF AteEquation, a
<1>7. 0 \in 0..MaxIds /\ \A n \in 1..MaxIds : n \in 0..MaxIds /\ n # 0
  BY <1>4
<1>8. a[0] = s /\ \A n \in 1..MaxIds : a[n] = Maturada(a[n - 1], n)
  BY <1>6, <1>7
<1>9. QED
  BY <1>8 DEF a

(* Who validates depends on the stakes and the parameters alone. *)
LEMMA SameValidadores ==
  ASSUME NEW s, NEW t, t.stake = s.stake, t.params.min = s.params.min, t.params.max = s.params.max
  PROVE  Validadores(t) = Validadores(s)
  BY DEF Validadores

(* A state of governance with a validator. *)
Viva(t) == /\ t = [proposals |-> t.proposals, params |-> t.params, treasury |-> t.treasury,
                   stake |-> t.stake]
           /\ t.params \in Params
           /\ Validadores(t) # {}

(* Whatever a mature proposal sets, there is a validator after it. *)
LEMMA AplicaKeeps ==
  ASSUME NEW t, Viva(t), NEW v \in Valores
  PROVE  /\ Viva(Aplica(t, v))
         /\ Aplica(t, v).proposals = t.proposals /\ Aplica(t, v).stake = t.stake
<1>1. v.param \in {"MIN", "MAX", "COMITE", "GASTO"} /\ v.valor \in Nat
  BY GovAssumption
<1> DEFINE Formada(r) == /\ r = [proposals |-> r.proposals, params |-> r.params,
                                 treasury |-> r.treasury, stake |-> r.stake]
                         /\ r.params \in Params
                         /\ r.proposals = t.proposals /\ r.stake = t.stake
<1>2. Formada(t)
  BY DEF Viva
<1>3. ASSUME NEW r, Formada(r)
      PROVE  Viva(SemTrava(t, r)) /\ Formada(SemTrava(t, r))
  BY <1>2, <1>3 DEF SemTrava, Viva
<1>4. CASE v.param = "MIN"
  <2> DEFINE r == [t EXCEPT !.params.min = v.valor]
  <2>1. Formada(r)
    BY <1>1, <1>2 DEF Params
  <2>2. Aplica(t, v) = SemTrava(t, r)
    BY <1>4 DEF Aplica
  <2> HIDE DEF r
  <2>3. QED
    BY <1>3, <2>1, <2>2
<1>5. CASE v.param = "MAX"
  <2> DEFINE r == [t EXCEPT !.params.max = v.valor]
  <2>1. Formada(r)
    BY <1>1, <1>2 DEF Params
  <2>2. Aplica(t, v) = SemTrava(t, r)
    BY <1>5 DEF Aplica
  <2> HIDE DEF r
  <2>3. QED
    BY <1>3, <2>1, <2>2
<1>6. CASE v.param = "COMITE"
  <2> DEFINE r == [t EXCEPT !.params.comite = IF @ = 0 THEN v.valor ELSE @]
  <2>1. Formada(r) /\ r.params.min = t.params.min /\ r.params.max = t.params.max
    BY <1>1, <1>2 DEF Params
  <2>2. Aplica(t, v) = r
    BY <1>6 DEF Aplica
  <2> HIDE DEF r
  <2>3. Validadores(r) = Validadores(t)
    BY <2>1, SameValidadores
  <2>4. QED
    BY <2>1, <2>2, <2>3 DEF Viva
<1>7. CASE v.param = "GASTO"
  <2>1. /\ Formada(Pago(t, v.valor))
        /\ Pago(t, v.valor).params = t.params
    BY <1>2 DEF Pago
  <2>2. Aplica(t, v) = Pago(t, v.valor)
    BY <1>7 DEF Aplica
  <2>3. Validadores(Pago(t, v.valor)) = Validadores(t)
    BY <2>1, SameValidadores
  <2>4. QED
    BY <2>1, <2>2, <2>3 DEF Viva
<1>8. QED
  BY <1>1, <1>4, <1>5, <1>6, <1>7

(* What one proposal leaves: the proposals of before but for itself when it is
   due or expired, and a validator. *)
LEMMA MaturadaKeeps ==
  ASSUME NEW t, Viva(t), NEW n, n \in DOMAIN t.proposals => t.proposals[n].valor \in Valores
  PROVE  LET r == Maturada(t, n)
         IN /\ Viva(r) /\ r.stake = t.stake
            /\ \A x \in DOMAIN r.proposals : x \in DOMAIN t.proposals /\ r.proposals[x] = t.proposals[x]
            /\ n \in DOMAIN r.proposals => ~Madura(r.proposals[n]) /\ ~Expirada(r.proposals[n])
<1> DEFINE r == Maturada(t, n)
<1>1. ASSUME NEW u, Viva(u), u.proposals = t.proposals, u.stake = t.stake
      PROVE  LET w == SemProposta(u, n)
             IN /\ Viva(w) /\ w.stake = t.stake
                /\ \A x \in DOMAIN w.proposals : x \in DOMAIN t.proposals /\ w.proposals[x] = t.proposals[x]
                /\ n \notin DOMAIN w.proposals
  <2> DEFINE w == SemProposta(u, n)
  <2>1. /\ w = [proposals |-> Restrict(t.proposals, DOMAIN t.proposals \ {n}), params |-> u.params,
                treasury |-> u.treasury, stake |-> u.stake]
    BY <1>1 DEF SemProposta, Viva
  <2>2. w.params = u.params /\ w.stake = u.stake
        /\ w.proposals = Restrict(t.proposals, DOMAIN t.proposals \ {n})
        /\ w = [proposals |-> w.proposals, params |-> w.params, treasury |-> w.treasury,
                stake |-> w.stake]
    BY <2>1
  <2> HIDE DEF w
  <2>3. Validadores(w) = Validadores(u)
    BY <2>2, SameValidadores
  <2>4. Viva(w)
    BY <1>1, <2>2, <2>3 DEF Viva
  <2>5. /\ DOMAIN w.proposals = DOMAIN t.proposals \ {n}
        /\ \A x \in DOMAIN t.proposals \ {n} : w.proposals[x] = t.proposals[x]
    BY <2>2 DEF Restrict
  <2>6. QED
    BY <1>1, <2>2, <2>4, <2>5 DEF w
<1>2. CASE n \notin DOMAIN t.proposals
  BY <1>2 DEF Maturada
<1>3. CASE n \in DOMAIN t.proposals /\ Madura(t.proposals[n])
  <2> DEFINE u == Aplica(t, t.proposals[n].valor)
  <2>1. Viva(u) /\ u.proposals = t.proposals /\ u.stake = t.stake
    BY <1>3, AplicaKeeps
  <2>2. r = SemProposta(u, n)
    BY <1>3 DEF Maturada
  <2> HIDE DEF u, r
  <2>3. QED
    BY <1>1, <2>1, <2>2 DEF r
<1>4. CASE n \in DOMAIN t.proposals /\ ~Madura(t.proposals[n]) /\ Expirada(t.proposals[n])
  <2>1. r = SemProposta(t, n)
    BY <1>4 DEF Maturada
  <2> HIDE DEF r
  <2>2. QED
    BY <1>1, <2>1 DEF r
<1>5. CASE n \in DOMAIN t.proposals /\ ~Madura(t.proposals[n]) /\ ~Expirada(t.proposals[n])
  BY <1>5 DEF Maturada
<1>6. QED
  BY <1>2, <1>3, <1>4, <1>5

(* What the walk leaves: proposals of before, none of them due or expired. *)
LEMMA MaturadasKeeps ==
  ASSUME NEW s, Viva(s), \A x \in DOMAIN s.proposals : x \in Ids /\ s.proposals[x].valor \in Valores
  PROVE  LET r == Maturadas(s)
         IN /\ Viva(r) /\ r.stake = s.stake
            /\ \A x \in DOMAIN r.proposals :
                 /\ x \in DOMAIN s.proposals /\ r.proposals[x] = s.proposals[x]
                 /\ ~Madura(r.proposals[x]) /\ ~Expirada(r.proposals[x])
<1> DEFINE f == Ate(s)
           Feito(n, t) == /\ Viva(t) /\ t.stake = s.stake
                          /\ \A x \in DOMAIN t.proposals :
                               /\ x \in DOMAIN s.proposals /\ t.proposals[x] = s.proposals[x]
                               /\ x <= n => ~Madura(t.proposals[x]) /\ ~Expirada(t.proposals[x])
           N == {n \in Nat : n <= MaxIds => Feito(n, f[n])}
<1>1. f[0] = s /\ \A n \in 1..MaxIds : f[n] = Maturada(f[n - 1], n)
  BY AteDefined
<1>2. Maturadas(s) = f[MaxIds]
  BY MaturadasIsAte
<1>3. MaxIds \in Nat
  BY GovAssumption
<1> HIDE DEF f
<1>4. 0 \in N
  <2>1. \A x \in DOMAIN s.proposals : ~(x <= 0)
    BY <1>3 DEF Ids
  <2>2. Feito(0, s)
    BY <2>1
  <2>3. QED
    BY <1>1, <2>2
<1>5. ASSUME NEW n \in Nat, n \in N
      PROVE  n + 1 \in N
  <2>1. SUFFICES ASSUME n + 1 <= MaxIds
                 PROVE  Feito(n + 1, f[n + 1])
    OBVIOUS
  <2> DEFINE t == f[n]
             r == f[n + 1]
  <2>2. Feito(n, t)
    BY <1>3, <1>5, <2>1
  <2>3. r = Maturada(t, n + 1)
    <3>1. n + 1 \in 1..MaxIds /\ (n + 1) - 1 = n
      BY <1>3, <2>1
    <3>2. QED
      BY <1>1, <3>1
  <2> HIDE DEF t, r
  <2>4. n + 1 \in DOMAIN t.proposals => t.proposals[n + 1].valor \in Valores
    BY <2>2
  <2>5. /\ Viva(r) /\ r.stake = t.stake
        /\ \A x \in DOMAIN r.proposals : x \in DOMAIN t.proposals /\ r.proposals[x] = t.proposals[x]
        /\ n + 1 \in DOMAIN r.proposals =>
             ~Madura(r.proposals[n + 1]) /\ ~Expirada(r.proposals[n + 1])
    BY <2>2, <2>3, <2>4, MaturadaKeeps
  <2>6. ASSUME NEW x \in DOMAIN r.proposals, x <= n + 1
        PROVE  ~Madura(r.proposals[x]) /\ ~Expirada(r.proposals[x])
    <3>1. x \in DOMAIN t.proposals /\ r.proposals[x] = t.proposals[x] /\ x \in Ids
      BY <2>2, <2>5, <2>6
    <3>2. x <= n \/ x = n + 1
      BY <2>6, <3>1, <1>3 DEF Ids
    <3>3. QED
      BY <2>2, <2>5, <3>1, <3>2
  <2>7. Feito(n + 1, r)
    BY <2>2, <2>5, <2>6
  <2>8. QED
    BY <2>7 DEF r
<1>6. Nat \subseteq N
  <2> HIDE DEF N
  <2>1. QED
    BY <1>4, <1>5, SetInduction
<1>7. Feito(MaxIds, f[MaxIds])
  BY <1>3, <1>6
<1>8. \A x \in DOMAIN s.proposals : x <= MaxIds
  BY <1>3 DEF Ids
<1>9. QED
  BY <1>2, <1>7, <1>8

-----------------------------------------------------------------------------
(* Two steps of the tick on a state given by its parts. *)

Estado(p, d, o, q, c, y, k) == [perm |-> p, pend |-> d, ops |-> o, proposals |-> q,
                                params |-> c, treasury |-> y, stake |-> k]

Vivas(o) == Restrict(o, {id \in DOMAIN o : height <= o[id].deadline})

Parada(d) == d = <<>> \/ d[1].executeAt = 0 \/ height < d[1].executeAt
Vale(p, d) == EV2(p) /\ AutorizaMudanca(p, d[1].change, d[1].approvals) /\ Simula(p, d[1].change)

(* The expiry of operations touches the operations. *)
LEMMA ExpiraOpsOn ==
  ASSUME NEW p, NEW d, NEW o, NEW q, NEW c, NEW y, NEW k
  PROVE  ExpiraOps(Estado(p, d, o, q, c, y, k)) = Estado(p, d, Vivas(o), q, c, y, k)
  BY DEF ExpiraOps, Estado, Vivas

(* The maturity of a change touches the permission and what is pending. *)
LEMMA MaturaPermissoesOn ==
  ASSUME NEW p, NEW d, NEW o, NEW q, NEW c, NEW y, NEW k
  PROVE  LET s == Estado(p, d, o, q, c, y, k)
         IN /\ Parada(d) => MaturaPermissoes(s) = s
            /\ ~Parada(d) /\ Vale(p, d) =>
                 MaturaPermissoes(s) = Estado(Mudada(p, d[1].change), <<>>, <<>>, q, c, y, k)
            /\ ~Parada(d) /\ ~Vale(p, d) => MaturaPermissoes(s) = Estado(p, <<>>, o, q, c, y, k)
<1> DEFINE s == Estado(p, d, o, q, c, y, k)
           t == [s EXCEPT !.pend = <<>>]
<1>1. s.perm = p /\ s.pend = d
  BY DEF Estado
<1>2. t = Estado(p, <<>>, o, q, c, y, k)
  BY DEF Estado
<1>3. ASSUME NEW r
      PROVE  [Estado(p, <<>>, o, q, c, y, k) EXCEPT !.perm = r, !.ops = <<>>]
               = Estado(r, <<>>, <<>>, q, c, y, k)
  <2> DEFINE e == Estado(p, <<>>, o, q, c, y, k)
             u == [e EXCEPT !.perm = r, !.ops = <<>>]
  <2>1. /\ u = [x \in DOMAIN e |-> u[x]]
        /\ \A x \in DOMAIN e : u[x] = IF x = "ops" THEN <<>> ELSE IF x = "perm" THEN r ELSE e[x]
    OBVIOUS
  <2>2. /\ DOMAIN e = {"perm", "pend", "ops", "proposals", "params", "treasury", "stake"}
        /\ e["pend"] = <<>> /\ e["proposals"] = q /\ e["params"] = c /\ e["treasury"] = y /\ e["stake"] = k
    BY DEF Estado
  <2> HIDE DEF e, u
  <2>3. u = Estado(r, <<>>, <<>>, q, c, y, k)
    BY <2>1, <2>2 DEF Estado
  <2>4. QED
    BY <2>3 DEF u, e
<1>4. MaturaPermissoes(s) = IF Parada(d) THEN s
                            ELSE IF Vale(p, d) THEN [t EXCEPT !.perm = Mudada(p, d[1].change), !.ops = <<>>]
                            ELSE t
  BY <1>1 DEF MaturaPermissoes, Parada, Vale
<1> HIDE DEF s, t
<1>5. QED
  BY <1>2, <1>3, <1>4 DEF s

-----------------------------------------------------------------------------
(* Validators and due dates.  A proposal that voting queues is due a Timelock
   after a height at which it could still be voted on, and one that it does not
   queue is still open: Aberta says it of the proposals of a state at a height. *)

Aberta(p, h) == /\ IF p.executeAt = 0 THEN h <= p.deadline + 1 ELSE h <= p.executeAt
                /\ p.executeAt # 0 => p.executeAt - Timelock <= p.deadline

PropTyped == /\ \A id \in DOMAIN proposals : id \in Ids /\ proposals[id] \in Proposta
             /\ params \in Params
             /\ fresh \subseteq Ids

GovInv == /\ IInv /\ PropTyped
          /\ \A id \in DOMAIN proposals : Aberta(proposals[id], height)
          /\ ValidatorsRemain

(* The best placed of the eligible accounts validates. *)
LEMMA SomeoneValidates ==
  ASSUME NEW s, s.stake \in [Contas -> Nat], s.params.max \in Nat \ {0},
         \E a \in Contas : s.stake[a] >= s.params.min
  PROVE  Validadores(s) # {}
<1> DEFINE E == {a \in Contas : s.stake[a] >= s.params.min}
           Acima(a) == {b \in E : s.stake[b] > s.stake[a] \/ (s.stake[b] = s.stake[a] /\ b < a)}
           T == {Cardinality(Acima(a)) : a \in E}
<1>1. IsFiniteSet(Contas) /\ Contas \subseteq Nat
  BY GovAssumption
<1>2. E \subseteq Contas /\ E # {} /\ IsFiniteSet(E)
  BY <1>1, FS_Subset
<1>3. \A a \in E : Acima(a) \subseteq E
  OBVIOUS
<1>4. \A a \in E : IsFiniteSet(Acima(a)) /\ Cardinality(Acima(a)) \in Nat
  <2>1. TAKE a \in E
  <2> HIDE DEF E, Acima
  <2>2. IsFiniteSet(Acima(a))
    BY <1>2, <1>3, FS_Subset
  <2>3. QED
    BY <2>2, FS_CardinalityType
<1>5. ASSUME NEW a \in E, NEW b \in Acima(a)
      PROVE  Acima(b) \subseteq Acima(a) /\ b \notin Acima(b)
  <2>1. \A x \in E : x \in Nat /\ s.stake[x] \in Nat
    BY <1>1
  <2>2. b \in E /\ (s.stake[b] > s.stake[a] \/ (s.stake[b] = s.stake[a] /\ b < a))
    OBVIOUS
  <2>3. \A x \in E : x \in Acima(b) <=> s.stake[x] > s.stake[b] \/ (s.stake[x] = s.stake[b] /\ x < b)
    BY <2>2
  <2>4. \A x \in E : x \in Acima(a) <=> s.stake[x] > s.stake[a] \/ (s.stake[x] = s.stake[a] /\ x < a)
    OBVIOUS
  <2>5. Acima(b) \subseteq E
    OBVIOUS
  <2> HIDE DEF E, Acima
  <2>6. ASSUME NEW x \in Acima(b)
        PROVE  x \in Acima(a)
    <3>1. x \in E
      BY <2>5, <2>6
    <3>2. QED
      BY <2>1, <2>2, <2>3, <2>4, <3>1
  <2>7. b \notin Acima(b)
    BY <2>1, <2>2, <2>3
  <2>8. QED
    BY <2>6, <2>7
<1> HIDE DEF Acima
<1>6. T \in SUBSET Nat /\ T # {}
  BY <1>2, <1>4
<1>7. PICK m \in T : \A y \in T : m <= y
  BY <1>6, LeastElement
<1>8. PICK a \in E : m = Cardinality(Acima(a))
  BY <1>7
<1>9. Acima(a) = {}
  <2>1. SUFFICES ASSUME NEW b \in Acima(a) PROVE FALSE
    OBVIOUS
  <2>2. b \in E /\ Acima(b) \subseteq Acima(a) /\ b \notin Acima(b)
    BY <1>3, <1>5
  <2>3. Acima(b) \subseteq Acima(a) \ {b} /\ IsFiniteSet(Acima(a) \ {b})
    BY <2>2, <1>4, FS_RemoveElement
  <2>4. Cardinality(Acima(b)) <= Cardinality(Acima(a) \ {b})
    BY <2>3, FS_Subset
  <2>5. Cardinality(Acima(a) \ {b}) = Cardinality(Acima(a)) - 1
    BY <1>4, FS_RemoveElement
  <2>6. m <= Cardinality(Acima(b))
    BY <1>7, <2>2
  <2>7. QED
    BY <1>4, <1>8, <2>2, <2>4, <2>5, <2>6
<1>10. Cardinality(Acima(a)) = 0 /\ a \in E
  BY <1>9, FS_EmptySet
<1>11. a \in Validadores(s)
  <2>1. Cardinality(Acima(a)) < s.params.max
    BY <1>10
  <2>2. QED
    BY <2>1, <1>10 DEF Validadores, Acima, E
<1>12. QED
  BY <1>11

(* The tally gives a date a Timelock from now, or none. *)
LEMMA ApurarFacts ==
  ASSUME NEW s, NEW votos
  PROVE  Apurar(s, votos) \in {0, height + Timelock}
  BY DEF Apurar

(* A proposal that a step writes: open for votes now, and queued by this step or
   not at all. *)
Escrita(p) == /\ p \in Proposta
              /\ p.executeAt \in {0, height + Timelock}
              /\ height <= p.deadline

(* The initial state has a validator. *)
LEMMA InitGov == Init => GovInv
<1> SUFFICES ASSUME Init PROVE GovInv
  OBVIOUS
<1>1. IInv
  BY InitIInv
<1>2. PropTyped /\ proposals = <<>>
  BY GovAssumption DEF Init, PropTyped, Params
<1>3. State.stake = StakeInicial /\ State.params.min = MinInicial /\ State.params.max = MaxInicial
  BY DEF Init, State
<1>4. Validadores(State) # {}
  BY <1>3, GovAssumption, SomeoneValidates
<1>5. QED
  BY <1>1, <1>2, <1>4 DEF GovInv, ValidatorsRemain

(* A transaction that writes no proposal, or one as it should be, and leaves a
   validator, keeps the invariant. *)
LEMMA GovKept ==
  ASSUME GovInv, IInv', height' = height, params' = params, fresh' \subseteq fresh,
         \/ proposals' = proposals
         \/ \E id \in Ids : \E p : Escrita(p) /\ proposals' = Com(proposals, id, p),
         stake' = stake \/ ValidatorsRemain'
  PROVE  GovInv'
<1>1. ValidatorsRemain'
  <2>1. CASE stake' = stake
    BY <2>1, SameValidadores DEF GovInv, ValidatorsRemain, State, Validadores
  <2>2. QED
    BY <2>1
<1>2. height \in Nat /\ Timelock \in Nat /\ Timelock > 0
  BY GovAssumption DEF GovInv, IInv, PermTyped
<1>3. CASE proposals' = proposals
  BY <1>1, <1>3 DEF GovInv, PropTyped
<1>4. ASSUME NEW id \in Ids, NEW p, Escrita(p), proposals' = Com(proposals, id, p)
      PROVE  GovInv'
  <2>1. Aberta(p, height) /\ p \in Proposta
    BY <1>2, <1>4 DEF Escrita, Aberta, Proposta
  <2>2. /\ DOMAIN proposals' = DOMAIN proposals \cup {id}
        /\ \A x \in DOMAIN proposals' : proposals'[x] = IF x = id THEN p ELSE proposals[x]
    BY <1>4 DEF Com
  <2>3. PropTyped'
    BY <2>1, <2>2 DEF GovInv, PropTyped
  <2>4. \A x \in DOMAIN proposals' : Aberta(proposals'[x], height)
    BY <2>1, <2>2 DEF GovInv
  <2>5. QED
    BY <1>1, <2>3, <2>4 DEF GovInv
<1>5. QED
  BY <1>3, <1>4

(* What gov_propose and gov_vote write. *)
LEMMA PropoeEscreve ==
  ASSUME GovInv, NEW s, s.proposals = proposals, NEW a \in Contas, NEW id, NEW v \in Valores,
         s = Estado(s.perm, s.pend, s.ops, s.proposals, s.params, s.treasury, s.stake)
  PROVE  \E p : /\ Escrita(p)
                /\ Propoe(s, a, id, v) = Estado(s.perm, s.pend, s.ops, Com(proposals, id, p),
                                                s.params, s.treasury, s.stake)
<1> DEFINE p == [valor |-> v, votes |-> {a}, deadline |-> height + VotingBlocks,
                 executeAt |-> Apurar(s, {a})]
<1>1. height \in Nat /\ VotingBlocks \in Nat /\ Timelock \in Nat
  BY GovAssumption DEF GovInv, IInv, PermTyped
<1>2. Apurar(s, {a}) \in {0, height + Timelock}
  BY ApurarFacts
<1>3. Escrita(p)
  <2>1. p \in Proposta
    BY <1>1, <1>2 DEF Proposta
  <2>2. QED
    BY <1>1, <1>2, <2>1 DEF Escrita
<1>4. Propoe(s, a, id, v) = [s EXCEPT !.proposals = Com(proposals, id, p)]
  BY DEF Propoe
<1> HIDE DEF p
<1>5. [s EXCEPT !.proposals = Com(proposals, id, p)]
        = Estado(s.perm, s.pend, s.ops, Com(proposals, id, p), s.params, s.treasury, s.stake)
  BY DEF Estado
<1>6. QED
  BY <1>3, <1>4, <1>5

(* A vote writes one proposal, with the vote or queued for execution. *)
LEMMA VotaEscreve ==
  ASSUME GovInv, NEW s, s.proposals = proposals, NEW a \in Contas, NEW id, PodeVotar(s, a, id),
         s = Estado(s.perm, s.pend, s.ops, s.proposals, s.params, s.treasury, s.stake)
  PROVE  \E p : /\ Escrita(p) /\ id \in Ids
                /\ Vota(s, a, id) = Estado(s.perm, s.pend, s.ops, Com(proposals, id, p),
                                           s.params, s.treasury, s.stake)
<1> DEFINE votos == s.proposals[id].votes \cup {a}
           p == [proposals[id] EXCEPT !.votes = votos, !.executeAt = Apurar(s, votos)]
<1>1. id \in DOMAIN proposals /\ proposals[id] \in Proposta /\ height <= proposals[id].deadline
      /\ id \in Ids
  BY DEF PodeVotar, GovInv, PropTyped
<1>2. Apurar(s, votos) \in {0, height + Timelock} /\ height \in Nat /\ Timelock \in Nat
  BY ApurarFacts, GovAssumption DEF GovInv, IInv, PermTyped
<1>3. votos \in SUBSET Contas
  BY <1>1 DEF Proposta
<1>4. Escrita(p)
  <2>1. p \in Proposta /\ p.executeAt = Apurar(s, votos) /\ p.deadline = proposals[id].deadline
    <3>1. PICK q \in Proposta : q = proposals[id]
      BY <1>1
    <3>2. PICK e \in Nat : e = Apurar(s, votos)
      BY <1>2
    <3>3. PICK vs \in SUBSET Contas : vs = votos
      BY <1>3
    <3>4. p = [q EXCEPT !.votes = vs, !.executeAt = e]
      BY <3>1, <3>2, <3>3
    <3> HIDE DEF votos, p
    <3>5. p \in Proposta /\ p.executeAt = e /\ p.deadline = q.deadline
      BY <3>4 DEF Proposta
    <3>6. QED
      BY <3>1, <3>2, <3>5
  <2>2. QED
    BY <1>1, <1>2, <2>1 DEF Escrita
<1>5. Vota(s, a, id) = [s EXCEPT !.proposals[id].votes = votos, !.proposals[id].executeAt = Apurar(s, votos)]
  BY DEF Vota
<1> HIDE DEF votos
<1>6. [proposals EXCEPT ![id] = p] = Com(proposals, id, p)
  BY <1>1 DEF Com
<1>7. [s EXCEPT !.proposals[id].votes = votos, !.proposals[id].executeAt = Apurar(s, votos)]
        = [s EXCEPT !.proposals = [proposals EXCEPT ![id] = p]]
  BY <1>1 DEF Estado
<1> HIDE DEF p
<1>8. [s EXCEPT !.proposals = Com(proposals, id, p)]
        = Estado(s.perm, s.pend, s.ops, Com(proposals, id, p), s.params, s.treasury, s.stake)
  BY DEF Estado
<1>9. QED
  BY <1>1, <1>4, <1>5, <1>6, <1>7, <1>8

(* What an operation of the account does to governance, before or after the
   operation itself is taken off the list. *)
LEMMA OpGoverns ==
  ASSUME GovInv, NEW o, NEW op \in Ops, NEW id \in Ids, ValidaOp(State, op)
  PROVE  LET t == AplicaOp(Estado(perm, pend, o, proposals, params, treasury, stake), op, id)
         IN /\ t.params = params
            /\ \/ t.proposals = proposals
               \/ \E x \in Ids : \E p : Escrita(p) /\ t.proposals = Com(proposals, x, p)
            /\ t.stake = stake \/ Validadores(t) # {}
<1> DEFINE s == Estado(perm, pend, o, proposals, params, treasury, stake)
           t == AplicaOp(s, op, id)
<1>1. /\ s.perm = perm /\ s.pend = pend /\ s.ops = o /\ s.proposals = proposals
      /\ s.params = params /\ s.treasury = treasury /\ s.stake = stake
      /\ s = Estado(s.perm, s.pend, s.ops, s.proposals, s.params, s.treasury, s.stake)
  BY DEF Estado
<1>2. State.proposals = proposals /\ State.params = params /\ State.stake = stake
  BY DEF State
<1>3. Validadores(s) = Validadores(State)
  BY <1>1, <1>2, SameValidadores
<1>4. Conta \in Contas
  BY DEF Contas
<1>5. /\ op.tipo \in {"TRANSFER", "UNSTAKE", "PERMISSION_CHANGE", "GOV_PROPOSE", "GOV_VOTE"}
      /\ op.tipo = "GOV_PROPOSE" => op.valor \in Valores
  BY DEF Ops
<1> HIDE DEF s
<1>6. CASE op.tipo = "TRANSFER"
  <2>1. t = s
    BY <1>6 DEF AplicaOp
  <2>2. QED
    BY <1>1, <2>1 DEF s
<1>7. CASE op.tipo = "UNSTAKE"
  <2>1. t = Sacado(s, Conta) /\ PodeSacar(State, Conta)
    BY <1>7 DEF AplicaOp, ValidaOp
  <2>2. /\ Sacado(s, Conta).params = params /\ Sacado(s, Conta).proposals = proposals
        /\ Sacado(s, Conta).stake = [stake EXCEPT ![Conta] = @ - 1]
    BY <1>1 DEF Sacado, Estado
  <2>3. /\ Sacado(State, Conta).params = params
        /\ Sacado(State, Conta).stake = [stake EXCEPT ![Conta] = @ - 1]
    BY DEF Sacado, State
  <2>4. Validadores(t) = Validadores(Sacado(State, Conta))
    BY <2>1, <2>2, <2>3, SameValidadores
  <2>5. QED
    BY <2>1, <2>2, <2>4 DEF s, PodeSacar
<1>8. CASE op.tipo = "PERMISSION_CHANGE"
  <2>1. t = [s EXCEPT !.perm = op.perm, !.ops = <<>>]
    BY <1>8 DEF AplicaOp
  <2>2. t.params = params /\ t.proposals = proposals /\ t.stake = stake
    BY <1>1, <2>1 DEF Estado
  <2>3. QED
    BY <2>2 DEF s
<1>9. CASE op.tipo = "GOV_PROPOSE"
  <2>1. t = Propoe(s, Conta, id, op.valor)
    BY <1>9 DEF AplicaOp
  <2>2. PICK p : /\ Escrita(p)
                 /\ t = Estado(s.perm, s.pend, s.ops, Com(proposals, id, p),
                               s.params, s.treasury, s.stake)
    BY <1>1, <1>4, <1>5, <1>9, <2>1, PropoeEscreve
  <2>3. t.params = params /\ t.stake = stake /\ t.proposals = Com(proposals, id, p)
    BY <1>1, <2>2 DEF Estado
  <2>4. QED
    BY <2>2, <2>3 DEF s
<1>10. CASE op.tipo = "GOV_VOTE"
  <2>1. t = Vota(s, Conta, op.id) /\ PodeVotar(State, Conta, op.id)
    BY <1>10 DEF AplicaOp, ValidaOp
  <2>2. PodeVotar(s, Conta, op.id)
    BY <1>1, <1>2, <1>3, <2>1 DEF PodeVotar
  <2>3. PICK p : /\ Escrita(p) /\ op.id \in Ids
                 /\ t = Estado(s.perm, s.pend, s.ops, Com(proposals, op.id, p),
                               s.params, s.treasury, s.stake)
    BY <1>1, <1>4, <2>1, <2>2, VotaEscreve
  <2>4. t.params = params /\ t.stake = stake /\ t.proposals = Com(proposals, op.id, p)
    BY <1>1, <2>3 DEF Estado
  <2>5. QED
    BY <2>3, <2>4 DEF s
<1>11. QED
  BY <1>5, <1>6, <1>7, <1>8, <1>9, <1>10

(* The state is given by its parts. *)
LEMMA StateParts ==
  /\ State = Estado(perm, pend, ops, proposals, params, treasury, stake)
  /\ State.perm = perm /\ State.pend = pend /\ State.ops = ops /\ State.proposals = proposals
  /\ State.params = params /\ State.treasury = treasury /\ State.stake = stake
  BY DEF State, Estado

(* A state that becomes the state has its validators. *)
LEMMA BecomesValidadores ==
  ASSUME NEW t, Becomes(t)
  PROVE  Validadores(State)' = Validadores(t)
<1>1. stake' = t.stake /\ params' = t.params
  BY DEF Becomes
<1>2. QED
  BY <1>1 DEF State, Validadores

(* gov_propose, gov_vote and unstake by an account itself. *)
LEMMA GovKeptDirect ==
  ASSUME GovInv, IInv', NEW a \in Contas, NEW id \in Ids, NEW v \in Valores,
         GovPropose(a, id, v) \/ GovVote(a, id) \/ Unstake(a)
  PROVE  GovInv'
<1>1. CASE GovPropose(a, id, v)
  <2>1. PICK p : /\ Escrita(p)
                 /\ Propoe(State, a, id, v) = Estado(State.perm, State.pend, State.ops,
                      Com(proposals, id, p), State.params, State.treasury, State.stake)
    BY StateParts, PropoeEscreve
  <2>2. Becomes(Propoe(State, a, id, v)) /\ height' = height /\ fresh' \subseteq fresh
    BY <1>1 DEF GovPropose
  <2>3. params' = params /\ stake' = stake /\ proposals' = Com(proposals, id, p)
    BY <2>1, <2>2, StateParts DEF Becomes, Estado
  <2>4. QED
    BY <2>1, <2>2, <2>3, GovKept
<1>2. CASE GovVote(a, id)
  <2>1. PICK p : /\ Escrita(p)
                 /\ Vota(State, a, id) = Estado(State.perm, State.pend, State.ops,
                      Com(proposals, id, p), State.params, State.treasury, State.stake)
    BY <1>2, StateParts, VotaEscreve DEF GovVote
  <2>2. Becomes(Vota(State, a, id)) /\ height' = height /\ fresh' \subseteq fresh
    BY <1>2 DEF GovVote
  <2>3. params' = params /\ stake' = stake /\ proposals' = Com(proposals, id, p)
    BY <2>1, <2>2, StateParts DEF Becomes, Estado
  <2>4. QED
    BY <2>1, <2>2, <2>3, GovKept
<1>3. CASE Unstake(a)
  <2>1. Becomes(Sacado(State, a)) /\ height' = height /\ fresh' \subseteq fresh
        /\ Validadores(Sacado(State, a)) # {}
    BY <1>3 DEF Unstake, PodeSacar
  <2>2. params' = params /\ proposals' = proposals
    BY <2>1 DEF Becomes, Sacado, State
  <2>3. ValidatorsRemain'
    BY <2>1, BecomesValidadores DEF ValidatorsRemain
  <2>4. QED
    BY <2>1, <2>2, <2>3, GovKept
<1>4. QED
  BY <1>1, <1>2, <1>3

(* multisig_propose and multisig_approve. *)
LEMMA GovKeptMultisig ==
  ASSUME GovInv, IInv', NEW k \in Key, NEW op \in Ops, NEW n, NEW id \in Ids,
         MultisigPropose(k, op, n) \/ MultisigApprove(k, id)
  PROVE  GovInv'
<1>1. height' = height /\ fresh' \subseteq fresh
  BY DEF MultisigPropose, MultisigApprove
<1>2. ASSUME NEW o, NEW q \in Ops, NEW x \in Ids, ValidaOp(State, q),
             Becomes(AplicaOp(Estado(perm, pend, o, proposals, params, treasury, stake), q, x))
      PROVE  GovInv'
  <2> DEFINE t == AplicaOp(Estado(perm, pend, o, proposals, params, treasury, stake), q, x)
  <2>1. /\ t.params = params
        /\ \/ t.proposals = proposals
           \/ \E y \in Ids : \E p : Escrita(p) /\ t.proposals = Com(proposals, y, p)
        /\ t.stake = stake \/ Validadores(t) # {}
    BY <1>2, OpGoverns
  <2>2. Becomes(t)
    BY <1>2
  <2> HIDE DEF t
  <2>3. params' = t.params /\ proposals' = t.proposals /\ stake' = t.stake
    BY <2>2 DEF Becomes
  <2>4. stake' = stake \/ ValidatorsRemain'
    BY <2>1, <2>2, <2>3, BecomesValidadores DEF ValidatorsRemain
  <2>5. QED
    BY <1>1, <2>1, <2>3, <2>4, GovKept
<1>3. ASSUME NEW o, Becomes([State EXCEPT !.ops = o])
      PROVE  GovInv'
  <2>1. proposals' = proposals /\ params' = params /\ stake' = stake
    BY <1>3 DEF Becomes, State
  <2>2. QED
    BY <1>1, <2>1, GovKept
<1>4. CASE MultisigPropose(k, op, n)
  <2> DEFINE x == Min(fresh)
             gasto == NivelDeGasto(perm, n)
             nova == [op |-> op, approvals |-> {k}, weight |-> gasto.peso[k], nivel |-> n,
                      deadline |-> height + Ttl]
  <2>1. x \in Ids
    <3>1. fresh \in SUBSET Nat /\ fresh # {} /\ fresh \subseteq Ids
      BY <1>4 DEF MultisigPropose, GovInv, PropTyped, Ids
    <3>2. QED
      BY <3>1, MinFacts
  <2>2. \/ ValidaOp(State, op) /\ Becomes(AplicaOp(State, op, x))
        \/ Becomes([State EXCEPT !.ops = Com(@, x, nova)])
    BY <1>4 DEF MultisigPropose
  <2> HIDE DEF x, nova
  <2>3. CASE ValidaOp(State, op) /\ Becomes(AplicaOp(State, op, x))
    BY <1>2, <2>1, <2>3, StateParts
  <2>4. CASE Becomes([State EXCEPT !.ops = Com(@, x, nova)])
    <3>1. Becomes([State EXCEPT !.ops = Com(State.ops, x, nova)])
      BY <2>4
    <3>2. QED
      BY <1>3, <3>1
  <2>5. QED
    BY <2>2, <2>3, <2>4
<1>5. CASE MultisigApprove(k, id)
  <2> DEFINE gasto == NivelDeGasto(perm, ops[id].nivel)
             peso == ops[id].weight + gasto.peso[k]
  <2>1. \/ ValidaOp(State, ops[id].op) /\ Becomes(AplicaOp(SemOp(State, id), ops[id].op, id))
        \/ Becomes([State EXCEPT !.ops[id].weight = peso, !.ops[id].approvals = @ \cup {k}])
    BY <1>5 DEF MultisigApprove
  <2>2. ops[id].op \in Ops
    BY <1>5 DEF MultisigApprove, GovInv, IInv, OpsTyped, Pendentes
  <2>3. SemOp(State, id) = Estado(perm, pend, Restrict(ops, DOMAIN ops \ {id}), proposals, params,
                                  treasury, stake)
    BY DEF SemOp, State, Estado
  <2>4. CASE ValidaOp(State, ops[id].op) /\ Becomes(AplicaOp(SemOp(State, id), ops[id].op, id))
    BY <1>2, <2>2, <2>3, <2>4
  <2>5. CASE Becomes([State EXCEPT !.ops[id].weight = peso, !.ops[id].approvals = @ \cup {k}])
    <3>1. proposals' = proposals /\ params' = params /\ stake' = stake
      BY <2>5 DEF Becomes, State
    <3>2. QED
      BY <1>1, <3>1, GovKept
  <2>6. QED
    BY <2>1, <2>4, <2>5
<1>6. QED
  BY <1>4, <1>5

(* The tick: what it leaves is neither due nor expired, and a validator is left. *)
LEMMA GovKeptTick ==
  ASSUME GovInv, IInv', BlockTick
  PROVE  GovInv'
<1> DEFINE g == Governado(State)
           r == Maturadas(g)
           s == MaturaPropostas(State)
           t == ExpiraOps(s)
           u == MaturaPermissoes(t)
<1>1. /\ g.proposals = proposals /\ g.params = params /\ g.stake = stake
      /\ g = [proposals |-> g.proposals, params |-> g.params, treasury |-> g.treasury, stake |-> g.stake]
  BY DEF Governado, State
<1> HIDE DEF g
<1>2. Validadores(g) = Validadores(State)
  BY <1>1, StateParts, SameValidadores
<1>3. Viva(g)
  BY <1>1, <1>2 DEF Viva, GovInv, PropTyped, ValidatorsRemain
<1>4. \A x \in DOMAIN g.proposals : x \in Ids /\ g.proposals[x].valor \in Valores
  BY <1>1 DEF GovInv, PropTyped, Proposta
<1>5. /\ Viva(r) /\ r.stake = stake
      /\ \A x \in DOMAIN r.proposals :
           /\ x \in DOMAIN proposals /\ r.proposals[x] = proposals[x]
           /\ ~Madura(r.proposals[x]) /\ ~Expirada(r.proposals[x])
  BY <1>1, <1>3, <1>4, MaturadasKeeps
<1>6. s = Estado(perm, pend, ops, r.proposals, r.params, r.treasury, stake)
  BY StateParts DEF MaturaPropostas, Estado, g
<1> HIDE DEF r, s
<1>7. t = Estado(perm, pend, Vivas(ops), r.proposals, r.params, r.treasury, stake)
  BY <1>6, ExpiraOpsOn
<1> HIDE DEF t
<1>8. u.proposals = r.proposals /\ u.params = r.params /\ u.stake = stake
  <2>1. \/ u = t
        \/ \E p, o : u = Estado(p, <<>>, o, r.proposals, r.params, r.treasury, stake)
    BY <1>7, MaturaPermissoesOn
  <2>2. ASSUME NEW p, NEW d, NEW o,
               u = Estado(p, d, o, r.proposals, r.params, r.treasury, stake)
        PROVE  u.proposals = r.proposals /\ u.params = r.params /\ u.stake = stake
    <3> HIDE DEF u
    <3>1. QED
      BY <2>2 DEF Estado
  <2> HIDE DEF u
  <2>3. QED
    BY <1>7, <2>1, <2>2
<1>9. height' = height + 1 /\ Becomes(u) /\ fresh' = fresh
  BY DEF BlockTick, t, s
<1> HIDE DEF u
<1>10. proposals' = r.proposals /\ params' = r.params
  BY <1>8, <1>9 DEF Becomes
<1>11. Validadores(u) = Validadores(r)
  BY <1>5, <1>8, SameValidadores
<1>12. ValidatorsRemain'
  BY <1>5, <1>9, <1>11, BecomesValidadores DEF ValidatorsRemain, Viva
<1>13. PropTyped'
  BY <1>5, <1>9, <1>10 DEF GovInv, PropTyped, Viva
<1>14. ASSUME NEW x \in DOMAIN proposals'
       PROVE  Aberta(proposals'[x], height')
  <2>1. /\ x \in DOMAIN proposals /\ proposals'[x] = proposals[x]
        /\ ~Madura(proposals[x]) /\ ~Expirada(proposals[x])
    BY <1>5, <1>10
  <2>2. proposals[x] \in Proposta /\ Aberta(proposals[x], height) /\ height \in Nat
    BY <2>1 DEF GovInv, PropTyped, IInv, PermTyped
  <2>3. proposals[x].executeAt \in Nat /\ proposals[x].deadline \in Nat
    BY <2>2 DEF Proposta
  <2>4. QED
    BY <1>9, <2>1, <2>2, <2>3 DEF Aberta, Madura, Expirada
<1>15. QED
  BY <1>12, <1>13, <1>14 DEF GovInv

(* Operations and the pending change are not overdue either. *)
OpsDue == \A id \in DOMAIN ops : height <= ops[id].deadline + 1
PendDue == pend # <<>> /\ pend[1].executeAt # 0 => height <= pend[1].executeAt

DueInv == GovInv /\ OpsDue /\ PendDue

(* What is left of the operations is not overdue if all were not. *)
LEMMA FewerDue ==
  ASSUME OpsDue, NEW S, S \subseteq DOMAIN ops, ops' = Restrict(ops, S) \/ ops' = <<>>,
         height' = height
  PROVE  OpsDue'
<1>1. CASE ops' = Restrict(ops, S)
  <2>1. DOMAIN ops' = S /\ \A x \in S : ops'[x] = ops[x]
    BY <1>1 DEF Restrict
  <2>2. QED
    BY <2>1 DEF OpsDue
<1>2. CASE ops' = <<>>
  BY <1>2 DEF OpsDue
<1>3. QED
  BY <1>1, <1>2

(* A new operation has its whole window before it. *)
LEMMA DueMultisigPropose ==
  ASSUME IInv, OpsDue, NEW k \in Key, NEW op \in Ops, NEW n, MultisigPropose(k, op, n)
  PROVE  OpsDue' /\ pend' = pend
<1> DEFINE id == Min(fresh)
           gasto == NivelDeGasto(perm, n)
           nova == [op |-> op, approvals |-> {k}, weight |-> gasto.peso[k], nivel |-> n,
                    deadline |-> height + Ttl]
<1>1. /\ height' = height
      /\ \/ Becomes(AplicaOp(State, op, id))
         \/ Becomes([State EXCEPT !.ops = Com(@, id, nova)])
  BY DEF MultisigPropose
<1> HIDE DEF id
<1>2. CASE Becomes(AplicaOp(State, op, id))
  <2>1. Restrict(ops, DOMAIN ops) = ops
    BY DEF IInv, OpsTyped, Restrict
  <2>2. State = [State EXCEPT !.ops = Restrict(ops, DOMAIN ops)]
    BY <2>1 DEF State
  <2>3. pend' = pend /\ (ops' = Restrict(ops, DOMAIN ops) \/ ops' = <<>>)
    BY <1>2, <2>2, ExecutedEffect
  <2>4. QED
    BY <1>1, <2>3, FewerDue
<1>3. CASE Becomes([State EXCEPT !.ops = Com(@, id, nova)])
  <2>1. pend' = pend /\ ops' = Com(ops, id, nova)
    BY <1>3 DEF Becomes, State
  <2>2. height \in Nat /\ Ttl \in Nat /\ nova.deadline = height + Ttl
    BY GovAssumption DEF IInv, PermTyped
  <2> HIDE DEF nova
  <2>3. /\ DOMAIN ops' = DOMAIN ops \cup {id}
        /\ \A x \in DOMAIN ops' : ops'[x] = IF x = id THEN nova ELSE ops[x]
    BY <2>1 DEF Com
  <2>4. height <= nova.deadline + 1
    BY <2>2
  <2>5. \A x \in DOMAIN ops' : height' <= ops'[x].deadline + 1
    BY <1>1, <2>3, <2>4 DEF OpsDue
  <2>6. QED
    BY <2>1, <2>5 DEF OpsDue
<1>4. QED
  BY <1>1, <1>2, <1>3

(* An approval moves no deadline. *)
LEMMA DueMultisigApprove ==
  ASSUME IInv, OpsDue, NEW k \in Key, NEW id, MultisigApprove(k, id)
  PROVE  OpsDue' /\ pend' = pend
<1> DEFINE gasto == NivelDeGasto(perm, ops[id].nivel)
           peso == ops[id].weight + gasto.peso[k]
           nova == [ops[id] EXCEPT !.weight = peso, !.approvals = @ \cup {k}]
<1>1. /\ id \in DOMAIN ops /\ ops[id] \in Pendentes /\ height' = height
      /\ \/ Becomes(AplicaOp(SemOp(State, id), ops[id].op, id))
         \/ Becomes([State EXCEPT !.ops[id].weight = peso, !.ops[id].approvals = @ \cup {k}])
  BY DEF MultisigApprove, IInv, OpsTyped
<1>2. CASE Becomes(AplicaOp(SemOp(State, id), ops[id].op, id))
  <2>1. SemOp(State, id) = [State EXCEPT !.ops = Restrict(ops, DOMAIN ops \ {id})]
    BY DEF SemOp, State
  <2>2. ops[id].op \in Ops
    BY <1>1 DEF Pendentes
  <2>3. pend' = pend /\ (ops' = Restrict(ops, DOMAIN ops \ {id}) \/ ops' = <<>>)
    BY <1>2, <2>1, <2>2, ExecutedEffect
  <2>4. QED
    BY <1>1, <2>3, FewerDue
<1>3. CASE Becomes([State EXCEPT !.ops[id].weight = peso, !.ops[id].approvals = @ \cup {k}])
  <2>1. pend' = pend /\ ops' = [ops EXCEPT ![id] = nova]
    BY <1>1, <1>3 DEF Becomes, State
  <2>2. nova.deadline = ops[id].deadline
    BY <1>1 DEF Pendentes
  <2> HIDE DEF nova
  <2>3. /\ DOMAIN ops' = DOMAIN ops
        /\ \A x \in DOMAIN ops' : ops'[x] = IF x = id THEN nova ELSE ops[x]
    BY <1>1, <2>1
  <2>4. \A x \in DOMAIN ops' : ops'[x].deadline = ops[x].deadline
    BY <2>2, <2>3
  <2>5. QED
    BY <1>1, <2>1, <2>3, <2>4 DEF OpsDue
<1>4. QED
  BY <1>1, <1>2, <1>3

(* The timelock of a change starts in the future. *)
LEMMA DuePermission ==
  ASSUME IInv, PendDue, NEW k \in Key, NEW m \in Mudancas,
         PermissionPropose(k, m) \/ PermissionApprove(k) \/ PermissionVeto(k)
  PROVE  PendDue'
<1>1. height \in Nat /\ (EV2(perm) => perm.delay \in Nat) /\ height' = height
  BY FormOf DEF IInv, PermTyped, PermissionPropose, PermissionApprove, PermissionVeto
<1>2. \A c, s : EV2(perm) /\ IniciaEm(c, s) # 0 => height <= IniciaEm(c, s)
  BY <1>1 DEF IniciaEm
<1>3. pend # <<>> => pend[1] \in Pedidos
  BY DEF IInv, PendTyped
<1>4. CASE PermissionPropose(k, m)
  <2> DEFINE p == [change |-> m, approvals |-> {k}, vetoes |-> {}, executeAt |-> IniciaEm(m, {k}),
                   proposedAt |-> height]
  <2>1. pend' = <<p>> /\ EV2(perm)
    BY <1>4 DEF PermissionPropose
  <2>2. pend'[1].executeAt = IniciaEm(m, {k})
    BY <2>1
  <2>3. QED
    BY <1>1, <1>2, <2>1, <2>2 DEF PendDue
<1>5. CASE PermissionApprove(k)
  <2> DEFINE signers == pend[1].approvals \cup {k}
             e == IF pend[1].executeAt = 0 THEN IniciaEm(pend[1].change, signers) ELSE pend[1].executeAt
             p == [pend[1] EXCEPT !.approvals = signers, !.executeAt = e]
  <2>1. pend # <<>> /\ EV2(perm)
    BY <1>5 DEF PermissionApprove
  <2>2. pend' = <<p>>
    BY <1>3, <1>5, <2>1 DEF PermissionApprove, Pedidos
  <2>3. p.executeAt = e
    BY <1>3, <2>1 DEF Pedidos
  <2>4. e # 0 => height <= e
    BY <1>2, <2>1 DEF PendDue
  <2> HIDE DEF e, p
  <2>5. pend'[1].executeAt = e
    BY <2>2, <2>3
  <2>6. QED
    BY <1>1, <2>4, <2>5 DEF PendDue
<1>6. CASE PermissionVeto(k)
  <2> DEFINE vetoes == pend[1].vetoes \cup {k}
             p == [pend[1] EXCEPT !.vetoes = vetoes]
  <2>1. pend # <<>> /\ (pend' = <<>> \/ pend' = <<p>>)
    BY <1>6 DEF PermissionVeto
  <2>2. p.executeAt = pend[1].executeAt
    BY <1>3, <2>1 DEF Pedidos
  <2> HIDE DEF p
  <2>3. CASE pend' = <<>>
    BY <2>3 DEF PendDue
  <2>4. CASE pend' = <<p>>
    <3>1. pend'[1].executeAt = pend[1].executeAt
      BY <2>2, <2>4
    <3>2. QED
      BY <1>1, <2>1, <3>1 DEF PendDue
  <2>5. QED
    BY <2>1, <2>3, <2>4
<1>7. QED
  BY <1>4, <1>5, <1>6

(* The tick leaves nothing behind that was due at its height. *)
LEMMA DueTick ==
  ASSUME IInv, BlockTick
  PROVE  OpsDue' /\ PendDue'
<1> DEFINE r == Maturadas(Governado(State))
           t == Estado(perm, pend, Vivas(ops), r.proposals, r.params, r.treasury, stake)
<1>1. MaturaPropostas(State) = Estado(perm, pend, ops, r.proposals, r.params, r.treasury, stake)
  BY StateParts DEF MaturaPropostas, Estado
<1> HIDE DEF r
<1>2. height' = height + 1 /\ Becomes(MaturaPermissoes(t))
  BY <1>1, ExpiraOpsOn DEF BlockTick
<1>3. height \in Nat
  BY DEF IInv, PermTyped
<1>4. \/ Parada(pend) /\ pend' = pend /\ ops' = Vivas(ops)
      \/ pend' = <<>> /\ (ops' = Vivas(ops) \/ ops' = <<>>)
  <2>1. \/ Parada(pend) /\ MaturaPermissoes(t) = t
        \/ \E p : MaturaPermissoes(t) = Estado(p, <<>>, <<>>, r.proposals, r.params, r.treasury, stake)
        \/ \E p : MaturaPermissoes(t) = Estado(p, <<>>, Vivas(ops), r.proposals, r.params, r.treasury, stake)
    BY MaturaPermissoesOn
  <2>2. \A p, d, o : Becomes(Estado(p, d, o, r.proposals, r.params, r.treasury, stake)) => pend' = d /\ ops' = o
    BY DEF Becomes, Estado
  <2>3. QED
    BY <1>2, <2>1, <2>2
<1>5. ASSUME NEW id \in DOMAIN ops'
      PROVE  height' <= ops'[id].deadline + 1
  <2>1. CASE ops' = Vivas(ops)
    <3>1. id \in DOMAIN ops /\ ops'[id] = ops[id] /\ height <= ops[id].deadline
      BY <2>1, <1>5 DEF Vivas, Restrict
    <3>2. ops[id].deadline \in Nat
      BY <3>1 DEF IInv, OpsTyped, Pendentes
    <3>3. QED
      BY <1>2, <1>3, <3>1, <3>2
  <2>2. CASE ops' = <<>>
    BY <1>5, <2>2
  <2>3. QED
    BY <1>4, <2>1, <2>2
<1>6. PendDue'
  <2>1. CASE pend' = <<>>
    BY <2>1 DEF PendDue
  <2>2. CASE Parada(pend) /\ pend' = pend
    <3>1. pend # <<>> => pend[1].executeAt \in Nat
      BY DEF IInv, PendTyped, Pedidos
    <3>2. QED
      BY <1>2, <1>3, <2>2, <3>1 DEF PendDue, Parada
  <2>3. QED
    BY <1>4, <2>1, <2>2
<1>7. QED
  BY <1>5, <1>6 DEF OpsDue

(* Nothing is due before the first tick. *)
LEMMA InitDue == Init => DueInv
<1>1. ASSUME Init PROVE OpsDue /\ PendDue
  BY <1>1 DEF Init, OpsDue, PendDue
<1>2. QED
  BY <1>1, InitGov DEF DueInv

(* Steps that touch neither proposals nor stakes, and the account as they may. *)
LEMMA StepDue == DueInv /\ [Next]_vars => DueInv'
<1> SUFFICES ASSUME DueInv, [Next]_vars PROVE DueInv'
  OBVIOUS
<1>1. IInv /\ IInv' /\ GovInv /\ OpsDue /\ PendDue
  BY StepIInv DEF DueInv, GovInv
<1>2. ASSUME ops' = ops, pend' = pend, height' = height
      PROVE  OpsDue' /\ PendDue'
  BY <1>1, <1>2 DEF OpsDue, PendDue
<1>3. ASSUME UNCHANGED <<height, proposals, params, stake>>, fresh' \subseteq fresh
      PROVE  GovInv'
  BY <1>1, <1>3, GovKept
<1>4. CASE UNCHANGED vars
  <2>1. UNCHANGED <<height, proposals, params, stake, ops, pend>> /\ fresh' \subseteq fresh
    BY <1>4 DEF vars
  <2>2. QED
    BY <1>2, <1>3, <2>1 DEF DueInv
<1>5. CASE BlockTick
  BY <1>1, <1>5, GovKeptTick, DueTick DEF DueInv
<1>6. ASSUME NEW a \in Contas, NEW id \in Ids, NEW v \in Valores, GovPropose(a, id, v)
      PROVE  DueInv'
  <2>1. pend' = pend /\ ops' = ops /\ height' = height
    BY <1>6 DEF GovPropose, Becomes, Propoe, State
  <2>2. QED
    BY <1>1, <1>2, <1>6, <2>1, GovKeptDirect DEF DueInv
<1>7. ASSUME NEW a \in Contas, NEW id \in Ids, GovVote(a, id)
      PROVE  DueInv'
  <2>1. pend' = pend /\ ops' = ops /\ height' = height
    BY <1>7 DEF GovVote, Becomes, Vota, State
  <2>2. PICK v \in Valores : TRUE
    <3>1. id \in DOMAIN proposals
      BY <1>7, StateParts DEF GovVote, PodeVotar
    <3>2. proposals[id].valor \in Valores
      BY <1>1, <3>1 DEF GovInv, PropTyped, Proposta
    <3>3. QED
      BY <3>2
  <2>3. QED
    BY <1>1, <1>2, <1>7, <2>1, <2>2, GovKeptDirect DEF DueInv
<1>8. ASSUME NEW a \in Contas, Unstake(a)
      PROVE  DueInv'
  <2>1. pend' = pend /\ ops' = ops /\ height' = height /\ fresh' = fresh
    BY <1>8 DEF Unstake, Becomes, Sacado, State
  <2>2. params' = params /\ proposals' = proposals
    BY <1>8 DEF Unstake, Becomes, Sacado, State
  <2>3. ValidatorsRemain'
    BY <1>8, BecomesValidadores DEF Unstake, PodeSacar, ValidatorsRemain
  <2>4. GovInv'
    BY <1>1, <2>1, <2>2, <2>3, GovKept
  <2>5. QED
    BY <1>2, <2>1, <2>4 DEF DueInv
<1>9. ASSUME NEW p \in Permissoes, PermissionUpdate(p)
      PROVE  DueInv'
  <2>1. UNCHANGED <<height, proposals, params, stake, ops, pend>> /\ fresh' \subseteq fresh
    BY <1>9 DEF PermissionUpdate
  <2>2. QED
    BY <1>2, <1>3, <2>1 DEF DueInv
<1>10. ASSUME NEW k \in Key, NEW m \in Mudancas, PermissionPropose(k, m)
       PROVE  DueInv'
  <2>1. UNCHANGED <<height, proposals, params, stake, ops>> /\ fresh' \subseteq fresh
    BY <1>10 DEF PermissionPropose
  <2>2. PendDue'
    BY <1>1, <1>10, DuePermission
  <2>3. OpsDue'
    BY <1>1, <2>1 DEF OpsDue
  <2>4. QED
    BY <1>3, <2>1, <2>2, <2>3 DEF DueInv
<1>11. ASSUME NEW k \in Key, PermissionApprove(k) \/ PermissionVeto(k)
       PROVE  DueInv'
  <2>1. UNCHANGED <<height, proposals, params, stake, ops>> /\ fresh' \subseteq fresh
    BY <1>11 DEF PermissionApprove, PermissionVeto
  <2>2. pend # <<>>
    BY <1>11 DEF PermissionApprove, PermissionVeto
  <2>3. pend[1].change \in Mudancas
    BY <1>1, <2>2 DEF IInv, PendTyped, Pedidos
  <2>4. PendDue'
    BY <1>1, <1>11, <2>3, DuePermission
  <2>5. OpsDue'
    BY <1>1, <2>1 DEF OpsDue
  <2>6. QED
    BY <1>3, <2>1, <2>4, <2>5 DEF DueInv
<1>12. ASSUME NEW k \in Key, NEW op \in Ops, NEW n, MultisigPropose(k, op, n)
       PROVE  DueInv'
  <2>1. OpsDue' /\ pend' = pend /\ height' = height
    BY <1>1, <1>12, DueMultisigPropose DEF MultisigPropose
  <2>2. PICK id \in Ids : TRUE
    BY <1>1, <1>12 DEF MultisigPropose, GovInv, PropTyped
  <2>3. GovInv'
    BY <1>1, <1>12, <2>2, GovKeptMultisig
  <2>4. PendDue'
    BY <1>1, <2>1 DEF PendDue
  <2>5. QED
    BY <2>1, <2>3, <2>4 DEF DueInv
<1>13. ASSUME NEW k \in Key, NEW id \in Ids, MultisigApprove(k, id)
       PROVE  DueInv'
  <2>1. OpsDue' /\ pend' = pend /\ height' = height
    BY <1>1, <1>13, DueMultisigApprove DEF MultisigApprove
  <2>2. PICK op \in Ops : TRUE
    BY <1>1, <1>13 DEF MultisigApprove, IInv, OpsTyped, Pendentes
  <2>3. GovInv'
    BY <1>1, <1>13, <2>2, GovKeptMultisig
  <2>4. PendDue'
    BY <1>1, <2>1 DEF PendDue
  <2>5. QED
    BY <2>1, <2>3, <2>4 DEF DueInv
<1>14. CASE Transacao
  BY <1>6, <1>7, <1>8, <1>9, <1>10, <1>11, <1>12, <1>13, <1>14 DEF Transacao
<1>15. QED
  BY <1>4, <1>5, <1>14 DEF Next

(* DueInv holds in every state. *)
LEMMA AlwaysDue == Spec => []DueInv
<1>1. QED
  BY InitDue, StepDue, PTL DEF Spec

(* Whatever proposals mature in one tick, in whatever order their ids put them,
   and whoever unstakes, alone or by multisig, there is a validator for the next
   block (matura_propostas, unstake). *)
THEOREM SomeValidatorRemains == Spec => []ValidatorsRemain
<1>1. DueInv => ValidatorsRemain
  BY DEF DueInv, GovInv
<1>2. QED
  BY <1>1, AlwaysDue, PTL

(* A tick leaves no operation, proposal or change that was due or had expired, and
   no proposal is queued by a vote after its voting window. *)
THEOREM TickLeavesNothingDue == Spec => []NothingOverdue
<1>1. DueInv => NothingOverdue
  <2>1. ASSUME DueInv PROVE NothingOverdue
    BY <2>1 DEF DueInv, GovInv, OpsDue, PendDue, Aberta, NothingOverdue
  <2>2. QED
    BY <2>1
<1>2. QED
  BY <1>1, AlwaysDue, PTL

=============================================================================
