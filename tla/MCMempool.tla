------------------------------ MODULE MCMempool ------------------------------
(* Two accounts, the second one funded only by the first.                  *)
EXTENDS Mempool

CONSTANTS alice, bob

MCAccount == {alice, bob}

MCFunds == [a \in MCAccount |-> IF a = alice THEN 2 ELSE 0]

Pays(from, to, nonce, time) ==
  [from |-> from, to |-> to, nonce |-> nonce, time |-> time]

(* Bob's first payment sorts before the one of Alice that funds it; Alice   *)
(* signs two with one nonce, and one that waits for another.                *)
MCTx == {Pays(bob, alice, 1, 0), Pays(alice, bob, 1, 1), Pays(alice, alice, 1, 0),
         Pays(alice, bob, 2, 1), Pays(alice, alice, 3, 1)}
=============================================================================
