----------------------------- MODULE SaleVaults -----------------------------
(***************************************************************************)
(* The contracts a token sale delivers from: SaleVault.sol (mode private,  *)
(* one vested grant per buyer) and PublicVault.sol (mode public, liquid,   *)
(* what is not sold goes to the liquidity escrow), as the scripts under    *)
(* contracts/scripts set them up, fund, open and finalize them.            *)
(*                                                                         *)
(* A call that reverts changes nothing, so it is not a step.  The deadline *)
(* is a step of its own, Expire; a sale opened without one never takes it. *)
(* What a private grant has vested is any part of it.  Not modelled: the   *)
(* Merkle claims of SaleVault and the changes of its administrator.        *)
(***************************************************************************)
EXTENDS Integers, FiniteSets, FiniteSetsExt, Functions

CONSTANTS Modes,       \* the vaults there are: "private", "public"
          Buyer,
          Allocated,   \* saleAllocated, lbpAllocated
          LpSeed, Buffer

ASSUME VaultAssumption ==
  /\ Modes \subseteq {"private", "public"}
  /\ IsFiniteSet(Buyer)
  /\ Allocated \in Nat \ {0}
  /\ {LpSeed, Buffer} \subseteq Nat

VARIABLES mode,     \* SALE_MODE, which selects the vault
          phase,    \* "set" up, "open", "expired" (open, after the deadline), "final"
          paused,
          sold,     \* saleSold, lbpSold
          total,    \* what each buyer was granted
          released, \* what each buyer took
          used,     \* paymentUsed
          funded,   \* fund-public-vault.mjs was run
          balance,  \* of the vault's account
          swept     \* what sweepExcess took from a private vault

vaultVars == <<mode, phase, paused, sold, total, released, used,
               funded, balance, swept>>

Owed == SumFunctionOnSet([b \in Buyer |-> total[b] - released[b]], Buyer)

(* The state the deploy scripts leave: buckets and escrow are set. *)
VaultInit == /\ mode \in Modes
             /\ phase = "set" /\ paused = FALSE
             /\ sold = 0 /\ used = {}
             /\ total = [b \in Buyer |-> 0] /\ released = [b \in Buyer |-> 0]
             /\ funded = FALSE /\ balance = 0 /\ swept = 0

(* What the guards of PublicVault.grant and of SaleVault.grant let through. *)
PublicGrants(amount) == phase = "open" /\ sold + amount <= Allocated
PrivateGrants(buyer, amount) == /\ phase = "open" /\ ~paused
                                /\ total[buyer] = 0
                                /\ sold + amount <= Allocated

(* Mutant: paymentUsed is written and never read. *)
GrantsAgain(buyer, amount, paymentId) ==
  /\ amount > 0
  /\ IF mode = "public" THEN PublicGrants(amount) ELSE PrivateGrants(buyer, amount)

Grants(buyer, amount, paymentId) ==
  /\ amount > 0 /\ paymentId \notin used
  /\ IF mode = "public" THEN PublicGrants(amount) ELSE PrivateGrants(buyer, amount)

Grant(buyer, amount, paymentId) ==
  /\ Grants(buyer, amount, paymentId)
  /\ used' = used \cup {paymentId}
  /\ sold' = sold + amount
  /\ total' = [total EXCEPT ![buyer] = @ + amount]
  /\ UNCHANGED <<mode, phase, paused, released, funded, balance, swept>>

(* fund-public-vault.mjs: the buckets are sent once the custody can pay them.
   Nothing makes the funding come before the opening. *)
Fund == /\ ~funded /\ funded' = TRUE
        /\ balance' = balance + Allocated + IF mode = "public" THEN LpSeed + Buffer ELSE 0
        /\ UNCHANGED <<mode, phase, paused, sold, total, released, used, swept>>

(* open-public-lbp.mjs: openLbp, openSale *)
Open == /\ phase = "set" /\ phase' = "open"
        /\ UNCHANGED <<mode, paused, sold, total, released, used, funded, balance, swept>>

(* The height passes lbpDeadline or claimDeadline. *)
Expire == /\ phase = "open" /\ phase' = "expired"
          /\ UNCHANGED <<mode, paused, sold, total, released, used, funded, balance, swept>>

SetPaused == /\ mode = "private"
             /\ paused' = ~paused
             /\ UNCHANGED <<mode, phase, sold, total, released, used, funded, balance, swept>>

(* What a buyer may take now: everything, or any part that has vested. *)
Releasable(b) == LET left == total[b] - released[b]
                 IN IF mode = "public" THEN {left} \ {0} ELSE 1..left

Release(b) == /\ ~paused
              /\ \E amount \in Releasable(b) :
                    /\ balance >= amount
                    /\ released' = [released EXCEPT ![b] = @ + amount]
                    /\ balance' = balance - amount
              /\ UNCHANGED <<mode, phase, paused, sold, total, used, funded, swept>>

(* Mutant: the whole allocation goes to the escrow. *)
ToLpAll == LpSeed + Allocated

(* What finalizeToLp sends to the escrow. *)
ToLp == LpSeed + (Allocated - sold)

(* finalize-public-keeper.mjs reads that the sale is over and calls
   finalizeToLp, which checks it again. The transfer needs the money. *)
FinalizeToLp == /\ mode = "public"
                /\ phase = "expired" \/ (phase = "open" /\ sold >= Allocated)
                /\ balance >= ToLp
                /\ phase' = "final"
                /\ balance' = balance - ToLp
                /\ UNCHANGED <<mode, paused, sold, total, released, used, funded, swept>>

(* sweepExcess: after the deadline, any amount the administrator names. *)
SweepExcess == /\ mode = "private" /\ phase = "expired"
               /\ \E amount \in 1..balance :
                     balance' = balance - amount /\ swept' = swept + amount
               /\ UNCHANGED <<mode, phase, paused, sold, total, released, used, funded>>

VaultNext == \/ Fund \/ Open \/ Expire \/ SetPaused \/ FinalizeToLp \/ SweepExcess
             \/ \E b \in Buyer : Release(b)
=============================================================================
