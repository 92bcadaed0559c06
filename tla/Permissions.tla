---------------------------- MODULE Permissions ----------------------------
(***************************************************************************)
(* What a permission of an account is and decides (state/gov.rs): the first *)
(* form is one set of weighted keys with a threshold; the second has an    *)
(* owner, one or more actives with a scope, a witness, a recovery key and  *)
(* the delay of its own changes.  Optional keys are sets of at most one.   *)
(* Names, schemes and encodings are left out.                              *)
(***************************************************************************)
EXTENDS Integers, Sequences, FiniteSets, FiniteSetsExt

CONSTANTS Key,          \* addresses that sign for the account
          MaxActives    \* MAX_ACTIVE_PERMISSIONS

(* MULTISIG_OPS, as far as they are told apart. *)
Tipos == {"TRANSFER", "UNSTAKE", "PERMISSION_CHANGE", "GOV_PROPOSE", "GOV_VOTE"}

(* A key that is not in the set weighs nothing. *)
Nivel == [threshold : Nat \ {0}, peso : [Key -> Nat]]
Active == [nivel : Nivel, escopo : SUBSET Tipos]

Nenhuma == [v |-> 0]
PermV1 == [v : {1}, nivel : Nivel]
PermV2 == [v : {2}, owner : Nivel, actives : Seq(Active), witness : SUBSET Key,
           recovery : SUBSET Key, delay : Nat \ {0}]
Permissao == {Nenhuma} \cup PermV1 \cup PermV2

Mudanca == [nivel : {"owner"}, valor : Nivel]
             \cup [nivel : {"active"}, id : Nat, valor : Seq(Active)]
             \cup [nivel : {"witness", "recovery"}, valor : SUBSET Key]
             \cup [nivel : {"delay"}, valor : Nat \ {0}]

(* The sum of the signers' weights: a key of weight w has w votes. *)
Votos(nivel, signers) == UNION {{k} \X (1..nivel.peso[k]) : k \in signers}
PesoDe(nivel, signers) == Cardinality(Votos(nivel, signers))

Chaves(nivel) == {k \in Key : nivel.peso[k] > 0}

(* atinge_limiar *)
AtingeLimiar(nivel, signers) == PesoDe(nivel, signers) >= nivel.threshold

(* normalizar_nivel: the keys can reach the threshold together. *)
Alcancavel(nivel) == nivel.threshold > 0 /\ AtingeLimiar(nivel, Key)

EV2(perm) == perm.v = 2

(* nivel_de_gasto: level "owner", or the position of an active, from 0; the
   first form has only position 0, without a scope. *)
Niveis(perm) == CASE perm.v = 0 -> {}
                  [] perm.v = 1 -> {0}
                  [] perm.v = 2 -> {-1} \cup 0..(Len(perm.actives) - 1)
OwnerId == -1

NivelDeGasto(perm, id) == IF perm.v = 1 THEN perm.nivel
                          ELSE IF id = OwnerId THEN perm.owner ELSE perm.actives[id + 1].nivel

ForaDoEscopo(perm, id, tipo) ==
  EV2(perm) /\ id # OwnerId /\ perm.actives[id + 1].escopo # {} /\ tipo \notin perm.actives[id + 1].escopo

(* e_chave_da_permissao *)
Participantes(perm) ==
  Chaves(perm.owner) \cup UNION {Chaves(perm.actives[n].nivel) : n \in DOMAIN perm.actives}
    \cup perm.witness \cup perm.recovery

(* Mutant: an emptied list of actives is accepted. *)
OperavelSemActive(perm) == \A n \in DOMAIN perm.actives : Chaves(perm.actives[n].nivel) # {}

(* The rail of simular_mudanca against a locked account. *)
Operavel(perm) == /\ Chaves(perm.owner) # {} /\ perm.actives # <<>>
                  /\ \A n \in DOMAIN perm.actives : Chaves(perm.actives[n].nivel) # {}

(* simular_mudanca: a position past the end adds an active, or removes none. *)
ComActive(actives, id, valor) ==
  IF id < Len(actives)
    THEN IF valor = <<>> THEN [n \in 1..(Len(actives) - 1) |-> actives[IF n <= id THEN n ELSE n + 1]]
         ELSE [actives EXCEPT ![id + 1] = valor[1]]
    ELSE actives \o valor

Mudada(perm, m) == CASE m.nivel = "owner"    -> [perm EXCEPT !.owner = m.valor]
                     [] m.nivel = "active"   -> [perm EXCEPT !.actives = ComActive(@, m.id, m.valor)]
                     [] m.nivel = "witness"  -> [perm EXCEPT !.witness = m.valor]
                     [] m.nivel = "recovery" -> [perm EXCEPT !.recovery = m.valor]
                     [] m.nivel = "delay"    -> [perm EXCEPT !.delay = m.valor]

Simula(perm, m) == Operavel(Mudada(perm, m))
                   /\ (m.nivel = "active" => Len(Mudada(perm, m).actives) <= MaxActives)

(* autoriza_mudanca *)
AutorizaMudanca(perm, m, signers) ==
  LET owner == AtingeLimiar(perm.owner, signers)
      active == AtingeLimiar(perm.actives[1].nivel, signers)
      recovery == perm.recovery # {} /\ perm.recovery \subseteq signers
  IN CASE m.nivel = "owner"    -> active /\ recovery
       [] m.nivel = "recovery" -> owner /\ active
       [] OTHER                -> owner
=============================================================================
