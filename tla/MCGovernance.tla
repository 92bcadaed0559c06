---------------------------- MODULE MCGovernance ----------------------------
(* Three keys: an owner of two, and an active of two, one of them the recovery
   key, that may only transfer. *)
EXTENDS Governance
CONSTANTS k1, k2, k3

De(limiar, chaves) == [threshold |-> limiar, peso |-> [k \in Key |-> IF k \in chaves THEN 1 ELSE 0]]

MCPermissoes == { Nenhuma,
                  [v |-> 1, nivel |-> De(2, {k1, k2})],
                  [v |-> 2, owner |-> De(2, {k1, k2}),
                   actives |-> <<[nivel |-> De(2, {k1, k3}), escopo |-> {"TRANSFER"}]>>,
                   witness |-> {}, recovery |-> {k3}, delay |-> 1] }

MCMudancas == { [nivel |-> "owner", valor |-> De(1, {k3})],
                [nivel |-> "active", id |-> 0, valor |-> <<>>],
                [nivel |-> "active", id |-> 1, valor |-> <<[nivel |-> De(1, {k2}), escopo |-> {}]>>],
                [nivel |-> "delay", valor |-> 2] }

MCValores == { [param |-> "MIN", valor |-> 2], [param |-> "MAX", valor |-> 1],
               [param |-> "GASTO", valor |-> 2], [param |-> "COMITE", valor |-> 1] }
MCStake == [a \in Contas |-> a]
=============================================================================
