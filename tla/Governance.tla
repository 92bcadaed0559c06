----------------------------- MODULE Governance -----------------------------
(***************************************************************************)
(* Governance, permissions and multisig (state/gov.rs) and their steps of  *)
(* block_tick (blockchain.rs): one account that may be under a permission, *)
(* its keys, and the validators, of which that account may be one.         *)
(*                                                                         *)
(* A transaction that fails changes nothing, so it is not a step.  Fees,   *)
(* balances and what an operation does in another component (transfers,    *)
(* tokens, stakes and votes for validators, commissions) are left out:     *)
(* "TRANSFER" stands for them.  Ids are hashes, so an id is any fresh one.*)
(* A timelock that has not started is 0; heights start at 1.               *)
(***************************************************************************)
EXTENDS Permissions

CONSTANTS Conta,       \* the account with a permission
          Outras,      \* the other accounts: with Conta, natural numbers, in address order
          StakeInicial,
          MinInicial, MaxInicial, TesouroInicial,
          Permissoes,  \* what PERMISSION_UPDATE and PERMISSION_CHANGE install
          Mudancas,    \* what PERMISSION_PROPOSE asks for, normalised
          Valores,     \* what GOV_PROPOSE asks for: records of a param and a value
          Ttl, Timelock, VotingBlocks,
          MaxIds,      \* bound: operations and proposals
          MaxTx,       \* bound: transactions
          MaxHeight    \* bound: blocks

Contas == Outras \cup {Conta}
Ids == 1..MaxIds

(* PERMISSION_CHANGE knows the first form only. *)
Ops == [tipo : {"TRANSFER", "UNSTAKE"}] \cup [tipo : {"PERMISSION_CHANGE"}, perm : {p \in Permissoes : ~EV2(p)}]
         \cup [tipo : {"GOV_PROPOSE"}, valor : Valores] \cup [tipo : {"GOV_VOTE"}, id : Ids]

(* Some account can validate from the start: GENESIS_STAKE is above MIN_VALIDATOR_STAKE. *)
ASSUME GovAssumption ==
  /\ IsFiniteSet(Key) /\ Contas \subseteq Nat /\ IsFiniteSet(Contas) /\ Conta \notin Outras
  /\ StakeInicial \in [Contas -> Nat] /\ \E a \in Contas : StakeInicial[a] >= MinInicial
  /\ Valores \subseteq [param : {"MIN", "MAX", "COMITE", "GASTO"}, valor : Nat]
  /\ {MinInicial, MaxInicial, Ttl, Timelock, VotingBlocks, MaxHeight} \subseteq Nat \ {0}
  /\ {TesouroInicial, MaxIds, MaxTx} \subseteq Nat
  /\ Nenhuma \in Permissoes /\ Permissoes \subseteq Permissao /\ Mudancas \subseteq Mudanca
  /\ \A p \in Permissoes : /\ p.v = 1 => Alcancavel(p.nivel)
                           /\ p.v = 2 => /\ Operavel(p) /\ Alcancavel(p.owner)
                                         /\ \A n \in DOMAIN p.actives : Alcancavel(p.actives[n].nivel)
  /\ \A m \in Mudancas : /\ m.nivel = "owner" => Alcancavel(m.valor)
                         /\ m.nivel = "active" => \A n \in DOMAIN m.valor : Alcancavel(m.valor[n].nivel)

VARIABLES height,     \* of the block whose transactions are applied
          perm,       \* permissions[Conta]
          pend,       \* pending_perm[Conta]: empty, or one change
          ops,        \* pending_ops
          proposals,
          params,     \* the overrides in force, and the bridge committee
          treasury,
          stake,
          fresh,      \* ids that no transaction had yet
          txs         \* transactions applied

vars == <<height, perm, pend, ops, proposals, params, treasury, stake, fresh, txs>>

(* What block_tick and the operations work on. *)
State == [perm |-> perm, pend |-> pend, ops |-> ops, proposals |-> proposals,
          params |-> params, treasury |-> treasury, stake |-> stake]

Becomes(s) == /\ perm' = s.perm /\ pend' = s.pend /\ ops' = s.ops /\ proposals' = s.proposals
              /\ params' = s.params /\ treasury' = s.treasury /\ stake' = s.stake

(* The insertion into a map. *)
Com(f, id, v) == [x \in DOMAIN f \cup {id} |-> IF x = id THEN v ELSE f[x]]

(* The account may have installed its permission in an earlier block. *)
Init == /\ height = 1
        /\ perm \in Permissoes /\ pend = <<>> /\ ops = <<>> /\ proposals = <<>>
        /\ params = [min |-> MinInicial, max |-> MaxInicial, comite |-> 0]
        /\ treasury = TesouroInicial /\ stake = StakeInicial
        /\ fresh = Ids /\ txs = 0

-----------------------------------------------------------------------------
(* Validators and proposals *)

(* ranquear_candidatos, validadores: by stake, then by address. *)
Validadores(s) ==
  LET elegiveis == {a \in Contas : s.stake[a] >= s.params.min}
      Acima(a) == {b \in elegiveis : s.stake[b] > s.stake[a] \/ (s.stake[b] = s.stake[a] /\ b < a)}
  IN {a \in elegiveis : Cardinality(Acima(a)) < s.params.max}

Quorum(n) == (2 * n) \div 3 + 1

(* apurar: the height the votes of current validators are executed at, or 0. *)
Apurar(s, votos) == LET ativos == Validadores(s)
                    IN IF ativos # {} /\ Cardinality(votos \cap ativos) >= Quorum(Cardinality(ativos))
                         THEN height + Timelock ELSE 0

(* gov_propose, gravar_proposta_gov *)
Propoe(s, a, id, valor) ==
  [s EXCEPT !.proposals = Com(@, id, [valor |-> valor, votes |-> {a}, deadline |-> height + VotingBlocks,
                                      executeAt |-> Apurar(s, {a})])]

(* gov_vote: still voting, not expired, not twice. *)
PodeVotar(s, a, id) == /\ id \in DOMAIN s.proposals /\ s.proposals[id].executeAt = 0
                       /\ height <= s.proposals[id].deadline
                       /\ a \in Validadores(s) \ s.proposals[id].votes

Vota(s, a, id) == LET votos == s.proposals[id].votes \cup {a}
                  IN [s EXCEPT !.proposals[id].votes = votos, !.proposals[id].executeAt = Apurar(s, votos)]

(* An account under a permission does not act by a signature of its own. *)
AgeSozinha(a) == a # Conta \/ perm.v = 0

GovPropose(a, id, valor) == /\ AgeSozinha(a) /\ a \in Validadores(State)
                            /\ id \in fresh /\ fresh' = fresh \ {id}
                            /\ Becomes(Propoe(State, a, id, valor))
                            /\ UNCHANGED height

GovVote(a, id) == /\ AgeSozinha(a) /\ PodeVotar(State, a, id)
                  /\ Becomes(Vota(State, a, id))
                  /\ UNCHANGED <<height, fresh>>

(* UNSTAKE, of one unit: the last validator cannot leave. *)
Sacado(s, a) == [s EXCEPT !.stake[a] = @ - 1]
PodeSacar(s, a) == s.stake[a] > 0 /\ Validadores(Sacado(s, a)) # {}

Unstake(a) == /\ AgeSozinha(a) /\ PodeSacar(State, a)
              /\ Becomes(Sacado(State, a))
              /\ UNCHANGED <<height, fresh>>

-----------------------------------------------------------------------------
(* Changes of the permission *)

PermissionUpdate(p) == /\ perm = Nenhuma /\ p # Nenhuma /\ perm' = p
                       /\ UNCHANGED <<height, pend, ops, proposals, params, treasury, stake, fresh>>

(* Mutant: it starts with the first approval. *)
IniciaJa(m, signers) == height + perm.delay

(* The timelock starts when the approvals authorise the change. *)
IniciaEm(m, signers) == IF AutorizaMudanca(perm, m, signers) THEN height + perm.delay ELSE 0

(* permission_propose: the new change replaces the pending one. *)
PermissionPropose(k, m) ==
  /\ EV2(perm) /\ k \in Participantes(perm) /\ Simula(perm, m)
  /\ pend' = <<[change |-> m, approvals |-> {k}, vetoes |-> {}, executeAt |-> IniciaEm(m, {k}),
                proposedAt |-> height]>>
  /\ UNCHANGED <<height, perm, ops, proposals, params, treasury, stake, fresh>>

PermissionApprove(k) ==
  /\ pend # <<>> /\ EV2(perm) /\ k \in Participantes(perm) \ pend[1].approvals
  /\ LET signers == pend[1].approvals \cup {k}
     IN pend' = <<[pend[1] EXCEPT !.approvals = signers,
                                  !.executeAt = IF @ = 0 THEN IniciaEm(pend[1].change, signers) ELSE @]>>
  /\ UNCHANGED <<height, perm, ops, proposals, params, treasury, stake, fresh>>

(* Mutant: the threshold has to be exceeded. *)
PermissionVetoDemais(k) ==
  /\ pend # <<>> /\ EV2(perm) /\ k \in Chaves(perm.owner) \ pend[1].vetoes
  /\ LET vetoes == pend[1].vetoes \cup {k}
     IN pend' = IF PesoDe(perm.owner, vetoes) > perm.owner.threshold THEN <<>>
                ELSE <<[pend[1] EXCEPT !.vetoes = vetoes]>>
  /\ UNCHANGED <<height, perm, ops, proposals, params, treasury, stake, fresh>>

PermissionVeto(k) ==
  /\ pend # <<>> /\ EV2(perm) /\ k \in Chaves(perm.owner) \ pend[1].vetoes
  /\ LET vetoes == pend[1].vetoes \cup {k}
     IN pend' = IF AtingeLimiar(perm.owner, vetoes) THEN <<>> ELSE <<[pend[1] EXCEPT !.vetoes = vetoes]>>
  /\ UNCHANGED <<height, perm, ops, proposals, params, treasury, stake, fresh>>

-----------------------------------------------------------------------------
(* Operations of the account *)

ExigeOwner(tipo) == tipo \in {"GOV_PROPOSE", "GOV_VOTE"}

(* validar_op *)
ValidaOp(s, op) == CASE op.tipo = "UNSTAKE"     -> PodeSacar(s, Conta)
                     [] op.tipo = "GOV_PROPOSE" -> Conta \in Validadores(s)
                     [] op.tipo = "GOV_VOTE"    -> PodeVotar(s, Conta, op.id)
                     [] OTHER                   -> TRUE

(* aplicar_op: what was approved under the old permission is discarded. *)
AplicaOp(s, op, id) == CASE op.tipo = "UNSTAKE"     -> Sacado(s, Conta)
                         [] op.tipo = "PERMISSION_CHANGE" -> [s EXCEPT !.perm = op.perm, !.ops = <<>>]
                         [] op.tipo = "GOV_PROPOSE" -> Propoe(s, Conta, id, op.valor)
                         [] op.tipo = "GOV_VOTE"    -> Vota(s, Conta, op.id)
                         [] OTHER                   -> s

(* Mutant: the operation is open to both forms. *)
PermitidaSempre(op) == TRUE

(* The first form only: the second changes under its timelock. *)
Permitida(op) == op.tipo = "PERMISSION_CHANGE" => ~EV2(perm)

(* Operations are not ordered by their ids, so the smallest one will do. *)
MultisigPropose(k, op, nivel) ==
  LET id == Min(fresh)
      gasto == NivelDeGasto(perm, nivel)
      peso == gasto.peso[k]
  IN /\ nivel \in Niveis(perm) /\ (ExigeOwner(op.tipo) => nivel = OwnerId)
     /\ k \in Chaves(gasto)
     /\ Permitida(op) /\ ~ForaDoEscopo(perm, nivel, op.tipo)
     /\ fresh # {} /\ fresh' = fresh \ {id}
     /\ \/ /\ peso >= gasto.threshold /\ ValidaOp(State, op)
           /\ Becomes(AplicaOp(State, op, id))
        \/ /\ peso < gasto.threshold
           /\ Becomes([State EXCEPT !.ops =
                Com(@, id, [op |-> op, approvals |-> {k}, weight |-> peso, nivel |-> nivel,
                            deadline |-> height + Ttl])])
     /\ UNCHANGED height

SemOp(s, id) == [s EXCEPT !.ops = Restrict(@, DOMAIN @ \ {id})]

MultisigApprove(k, id) ==
  /\ id \in DOMAIN ops
  /\ ops[id].nivel \in Niveis(perm)
  /\ LET gasto == NivelDeGasto(perm, ops[id].nivel)
         peso == ops[id].weight + gasto.peso[k]
     IN /\ k \in Chaves(gasto) \ ops[id].approvals
        /\ \/ /\ peso >= gasto.threshold /\ ~ForaDoEscopo(perm, ops[id].nivel, ops[id].op.tipo)
              /\ ValidaOp(State, ops[id].op)
              /\ Becomes(AplicaOp(SemOp(State, id), ops[id].op, id))
           \/ /\ peso < gasto.threshold
              /\ Becomes([State EXCEPT !.ops[id].weight = peso, !.ops[id].approvals = @ \cup {k}])
  /\ UNCHANGED <<height, fresh>>

-----------------------------------------------------------------------------
(* block_tick *)

(* Mutant: the rail looks at the validators before the override. *)
SemTravaAntes(s, t) == IF Validadores(s) = {} THEN s ELSE t

(* An override that would leave no validator is undone. *)
SemTrava(s, t) == IF Validadores(t) = {} THEN s ELSE t

(* The treasury pays what it has. *)
Pago(s, valor) == IF s.treasury >= valor THEN [s EXCEPT !.treasury = @ - valor] ELSE s

(* aplica_proposta_madura: a committee is only ever the first one. *)
Aplica(s, v) ==
  CASE v.param = "MIN"    -> SemTrava(s, [s EXCEPT !.params.min = v.valor])
    [] v.param = "MAX"    -> SemTrava(s, [s EXCEPT !.params.max = v.valor])
    [] v.param = "COMITE" -> [s EXCEPT !.params.comite = IF @ = 0 THEN v.valor ELSE @]
    [] v.param = "GASTO"  -> Pago(s, v.valor)

(* Mutant: a proposal waits one block more. *)
MaduraDepois(p) == p.executeAt # 0 /\ height > p.executeAt

Madura(p) == p.executeAt # 0 /\ height >= p.executeAt
Expirada(p) == p.executeAt = 0 /\ height > p.deadline

SemProposta(s, id) == [s EXCEPT !.proposals = Restrict(@, DOMAIN @ \ {id})]

(* One proposal of matura_propostas *)
Maturada(t, n) ==
  IF n \notin DOMAIN t.proposals THEN t
  ELSE IF Madura(t.proposals[n]) THEN SemProposta(Aplica(t, t.proposals[n].valor), n)
  ELSE IF Expirada(t.proposals[n]) THEN SemProposta(t, n) ELSE t

(* matura_propostas, in the order of the ids, and what it reads *)
Maturadas(s) == LET ate[n \in 0..MaxIds] == IF n = 0 THEN s ELSE Maturada(ate[n - 1], n)
                IN ate[MaxIds]

Governado(s) == [proposals |-> s.proposals, params |-> s.params, treasury |-> s.treasury,
                 stake |-> s.stake]

MaturaPropostas(s) == LET fim == Maturadas(Governado(s))
                      IN [perm |-> s.perm, pend |-> s.pend, ops |-> s.ops, stake |-> s.stake,
                          proposals |-> fim.proposals, params |-> fim.params, treasury |-> fim.treasury]

(* expira_ops_multisig *)
ExpiraOps(s) == [s EXCEPT !.ops = Restrict(@, {id \in DOMAIN @ : height <= @[id].deadline})]

(* Mutant: the operations pending outlive the permission. *)
MaturaPermissoesComOps(s) ==
  IF s.pend = <<>> \/ s.pend[1].executeAt = 0 \/ height < s.pend[1].executeAt THEN s
  ELSE LET m == s.pend[1].change
           t == [s EXCEPT !.pend = <<>>]
       IN IF EV2(s.perm) /\ AutorizaMudanca(s.perm, m, s.pend[1].approvals) /\ Simula(s.perm, m)
            THEN [t EXCEPT !.perm = Mudada(s.perm, m)] ELSE t

(* matura_permissoes: the authorisation and the rail are looked at again. *)
MaturaPermissoes(s) ==
  IF s.pend = <<>> \/ s.pend[1].executeAt = 0 \/ height < s.pend[1].executeAt THEN s
  ELSE LET m == s.pend[1].change
           t == [s EXCEPT !.pend = <<>>]
       IN IF EV2(s.perm) /\ AutorizaMudanca(s.perm, m, s.pend[1].approvals) /\ Simula(s.perm, m)
            THEN [t EXCEPT !.perm = Mudada(s.perm, m), !.ops = <<>>] ELSE t

BlockTick == /\ height < MaxHeight /\ height' = height + 1
             /\ Becomes(MaturaPermissoes(ExpiraOps(MaturaPropostas(State))))
             /\ UNCHANGED fresh

-----------------------------------------------------------------------------
Transacao ==
        \/ \E a \in Contas, id \in Ids, v \in Valores : GovPropose(a, id, v)
        \/ \E a \in Contas, id \in Ids : GovVote(a, id)
        \/ \E a \in Contas : Unstake(a)
        \/ \E p \in Permissoes : PermissionUpdate(p)
        \/ \E k \in Key, m \in Mudancas : PermissionPropose(k, m)
        \/ \E k \in Key : PermissionApprove(k) \/ PermissionVeto(k)
        \/ \E k \in Key, op \in Ops, n \in -1..MaxActives : MultisigPropose(k, op, n)
        \/ \E k \in Key, id \in Ids : MultisigApprove(k, id)

Next == \/ txs < MaxTx /\ txs' = txs + 1 /\ Transacao
        \/ BlockTick /\ UNCHANGED txs

Spec == Init /\ [][Next]_vars

-----------------------------------------------------------------------------
(* What is pending: an operation, a change. *)
Pendentes == [op : Ops, approvals : SUBSET Key, weight : Nat, nivel : Int, deadline : Nat]
Pedidos == [change : Mudancas, approvals : SUBSET Key, vetoes : SUBSET Key,
            executeAt : Nat, proposedAt : Nat]

(* A change whose timelock runs is authorised by its approvals under the
   permission in force, and was so for the whole delay in force: no other
   change or operation can take the permission away under it. *)
StartedAuthorised ==
  pend # <<>> /\ pend[1].executeAt # 0 =>
    /\ EV2(perm) /\ AutorizaMudanca(perm, pend[1].change, pend[1].approvals)
    /\ pend[1].executeAt - perm.delay \in pend[1].proposedAt..height

(* Owners that together reach their threshold have vetoed no pending change. *)
VetoesShort == pend # <<>> => EV2(perm) /\ ~AtingeLimiar(perm.owner, pend[1].vetoes)

(* The weight of a pending operation is that of its approvals under the
   permission in force, at a level that exists, and short of its threshold:
   approvals never survive the permission they were given under. *)
WeightsCurrent == \A id \in DOMAIN ops :
  /\ ops[id].nivel \in Niveis(perm)
  /\ LET gasto == NivelDeGasto(perm, ops[id].nivel)
     IN ops[id].weight = PesoDe(gasto, ops[id].approvals) /\ ops[id].weight < gasto.threshold

(* The keys of every level can reach its threshold, and there is an owner and an
   active: no sequence of changes locks the account. *)
NeverLocked == /\ perm.v = 1 => Alcancavel(perm.nivel)
               /\ EV2(perm) => /\ perm.actives # <<>> /\ Alcancavel(perm.owner)
                               /\ \A n \in DOMAIN perm.actives : Alcancavel(perm.actives[n].nivel)

(* Nothing that is due is left over by the tick of a block, and a proposal is
   only queued by a vote in its voting window. *)
NothingOverdue ==
  /\ \A id \in DOMAIN ops : height <= ops[id].deadline + 1
  /\ \A id \in DOMAIN proposals : IF proposals[id].executeAt = 0
                                   THEN height <= proposals[id].deadline + 1
                                   ELSE height <= proposals[id].executeAt
  /\ \A id \in DOMAIN proposals : proposals[id].executeAt # 0 =>
        proposals[id].executeAt - Timelock <= proposals[id].deadline
  /\ pend # <<>> /\ pend[1].executeAt # 0 => height <= pend[1].executeAt

(* Whatever proposals mature, alone or together, and whoever withdraws, there is
   a validator left to produce the next block. *)
ValidatorsRemain == Validadores(State) # {}

(* A permission of the second form is never removed, never goes back to the
   first form, and only changes to what was pending and due. *)
OnlyTimelocked == [][EV2(perm) /\ perm' # perm =>
                       /\ EV2(perm') /\ pend # <<>> /\ pend' = <<>>
                       /\ perm' = Mudada(perm, pend[1].change)
                       /\ pend[1].executeAt \in 1..height]_vars
=============================================================================
