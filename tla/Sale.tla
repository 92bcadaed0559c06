-------------------------------- MODULE Sale --------------------------------
(***************************************************************************)
(* The sale relayer (contracts/sale/relayer/index.mjs) over a vault: buyers *)
(* ask for an intent and pay the exact amount it quotes, a watcher matches  *)
(* payments by amount and grants the tokens, operators confirm by hand.     *)
(*                                                                         *)
(* The intents live in one JSON file that the relayer, its command line and *)
(* the website's server (web-next/src/lib/sale-server.ts) load, change and  *)
(* write back whole.  A load and the code up to the next await is a step;  *)
(* what a run of the code loaded before an await is kept in its record.    *)
(* The website is a process of its own, so that its load and its save are  *)
(* two steps although nothing is awaited between them.                     *)
(* loadState and saveState throw on a file that is half written; nothing    *)
(* catches that in tick, and the process ends (Crash).  A call need not     *)
(* end (tx.wait), so nothing here is fair.                                  *)
(* Intents are numbered in the order of their creation, which is their     *)
(* order in the file; what an intent says besides its status never changes *)
(* and is kept in quote.  Every intent is of one unit of money (usdAmount). *)
(***************************************************************************)
EXTENDS SaleVaults, Sequences

CONSTANTS Rails,        \* "evm" and "tron" are scanned, others are confirmed by hand
          PayAmounts,   \* the amounts the random suffix makes
          Tiers,        \* the ladder: until is the money raised where a tier ends
          RemoteRelayer, \* useRemoteRelayer: the website leaves the file to the relayer
          LogIndex,     \* position of a payment's event in its block, on an EVM rail
          MaxIntents,   \* bound: intents created or being created
          MaxFaults     \* bound: failed calls and crashes

ASSUME SaleAssumption ==
  /\ Tiers \in Seq([until : Nat, tokens : Nat \ {0}]) /\ Tiers # <<>>
  /\ {LogIndex, MaxIntents, MaxFaults} \subseteq Nat
  /\ RemoteRelayer \in BOOLEAN

Intent == 1..MaxIntents

VARIABLES disk,      \* the file: the status of each intent, "absent" if it is not there
          quote,     \* what buyers were answered: the intents in order of creation
          payments,  \* made on the other chains, in order
          web,       \* what the website loaded and has not written back: empty, or one file
          watcher,   \* a run of tick
          manual,    \* a run of confirm
          credits,   \* which payment was granted to which intent
          faults

saleVars == <<disk, quote, payments, web, watcher, manual, credits, faults>>
vars == <<vaultVars, saleVars>>

Idle == [pc |-> "idle", mem |-> [i \in Intent |-> "absent"], at |-> 0,
         pay |-> 0, log |-> 0, dirty |-> FALSE]

Init == /\ VaultInit
        /\ disk = [i \in Intent |-> "absent"]
        /\ quote = <<>> /\ payments = <<>> /\ web = <<>>
        /\ watcher = Idle /\ manual = Idle
        /\ credits = {} /\ faults = 0

-----------------------------------------------------------------------------
(* Quotes and intents *)

(* raisedUsd, raisedFromIntents: only settled intents move the ladder. *)
Raised(file) == Cardinality({i \in Intent : file[i] \in {"paid", "granted"}})

(* resolveTier: the first tier that is not filled, the last one when all are. *)
ResolveTier(raised) ==
  LET unfilled == {n \in DOMAIN Tiers : raised < Tiers[n].until}
  IN IF unfilled = {} THEN Tiers[Len(Tiers)] ELSE Tiers[Min(unfilled)]

SamePrice(i, rail, amount) == quote[i].rail = rail /\ quote[i].amount = amount

(* Mutant: an amount is free again as soon as its payment was seen. *)
TakenByPaid(file, rail, amount) ==
  \E i \in Intent : file[i] = "paid" /\ SamePrice(i, rail, amount)

(* payAmountTaken, allocateUniqueQuote *)
Taken(file, rail, amount) ==
  \E i \in Intent : file[i] \in {"pending", "paid"} /\ SamePrice(i, rail, amount)

(* The intent is quoted from a file, pushed and written with it. *)
Adds(file, b, rail) ==
  LET i == Len(quote) + 1
  IN /\ \E amount \in PayAmounts :
           /\ ~Taken(file, rail, amount)
           /\ quote' = Append(quote, [buyer |-> b, rail |-> rail, amount |-> amount,
                                      tokens |-> ResolveTier(Raised(file)).tokens])
     /\ disk' = [file EXCEPT ![i] = "pending"]

Room == Len(quote) + Len(web) < MaxIntents

CreateIntent(b, rail) == /\ Room /\ Adds(disk, b, rail)
                         /\ UNCHANGED <<vaultVars, payments, web, watcher, manual, credits, faults>>

(* createLocalIntent *)
WebLoads == /\ ~RemoteRelayer /\ web = <<>> /\ Room
            /\ web' = <<disk>>
            /\ UNCHANGED <<vaultVars, disk, quote, payments, watcher, manual, credits, faults>>

WebSaves(b, rail) == /\ web # <<>> /\ web' = <<>>
                     /\ Adds(web[1], b, rail)
                     /\ UNCHANGED <<vaultVars, payments, watcher, manual, credits, faults>>

-----------------------------------------------------------------------------
(* The other chains *)

(* A buyer pays what the intent quotes, to the address it names. *)
Pay(i) == /\ i \in DOMAIN quote
          /\ \A k \in DOMAIN payments : payments[k].by # i
          /\ payments' = Append(payments, [by |-> i, state |-> "sent"])
          /\ UNCHANGED <<vaultVars, disk, quote, web, watcher, manual, credits, faults>>

(* It gets minConfirmations (it may never: its block was orphaned), and later
   leaves the window that a scan asks for. *)
Settle(k) == /\ payments[k].state # "old"
             /\ payments' = [payments EXCEPT ![k].state = IF @ = "sent" THEN "confirmed" ELSE "old"]
             /\ UNCHANGED <<vaultVars, disk, quote, web, watcher, manual, credits, faults>>

(* Mutant: the confirmations are not counted. *)
MatchesUnconfirmed(i) == {k \in DOMAIN payments :
                            SamePrice(payments[k].by, quote[i].rail, quote[i].amount)}

Matches(i) == {k \in DOMAIN payments : /\ payments[k].state = "confirmed"
                                       /\ SamePrice(payments[k].by, quote[i].rail, quote[i].amount)}

(* scanPayment: eth_getLogs lists the oldest first, the TRON service the newest. *)
ScanPayment(i) == CASE quote[i].rail = "evm" /\ Matches(i) # {} -> Min(Matches(i))
                    [] quote[i].rail = "tron" /\ Matches(i) # {} -> Max(Matches(i))
                    [] OTHER -> 0

-----------------------------------------------------------------------------
(* submitGrant, for the intent a run is at *)

(* paymentId: the payment's transaction and a log index. *)
PaymentId(k, log) == <<k, log>>

(* The log index that the scan of i's rail names: the event's on an EVM     *)
(* rail, 0 on TRON.                                                         *)
EventLog(i) == IF quote[i].rail = "evm" THEN LogIndex ELSE 0

Refused(run) ==
  ~Grants(quote[run.at].buyer, quote[run.at].tokens, PaymentId(run.pay, run.log))

Submit(run) ==
  /\ Grant(quote[run.at].buyer, quote[run.at].tokens, PaymentId(run.pay, run.log))
  /\ credits' = credits \cup {[intent |-> run.at, pay |-> run.pay, log |-> run.log]}

Fault == faults < MaxFaults /\ faults' = faults + 1

(* The call fails: the vault reverts it, it never leaves, or it is mined and
   the answer is lost. *)
Fails(run) == \/ Refused(run) /\ UNCHANGED <<vaultVars, credits, faults>>
              \/ Fault /\ UNCHANGED <<vaultVars, credits>>
              \/ Fault /\ Submit(run)

-----------------------------------------------------------------------------
(* tick: the watcher *)

TickLoads == /\ watcher.pc = "idle"
             /\ watcher' = [Idle EXCEPT !.pc = "scan", !.mem = disk]
             /\ UNCHANGED <<vaultVars, disk, quote, payments, web, manual, credits, faults>>

(* Two pending intents of one amount cannot be told apart and are skipped. *)
Collides(file, i) == \E j \in Intent \ {i} :
  file[j] = "pending" /\ SamePrice(j, quote[i].rail, quote[i].amount)

(* The intents the loop has still to look at. *)
Waiting == {i \in Intent : i > watcher.at /\ watcher.mem[i] = "pending" /\ ~Collides(watcher.mem, i)}

(* Mutant: the intent is marked granted and due to be saved before the call. *)
TickScansEarly ==
  /\ watcher.pc = "scan" /\ Waiting # {}
  /\ LET i == Min(Waiting)
         hit == ScanPayment(i)
     IN watcher' = IF hit = 0 THEN [watcher EXCEPT !.at = i]
                   ELSE [watcher EXCEPT !.at = i, !.pc = "grant", !.pay = hit,
                                        !.log = EventLog(i), !.mem[i] = "granted", !.dirty = TRUE]
  /\ UNCHANGED <<vaultVars, disk, quote, payments, web, manual, credits, faults>>

TickScans ==
  /\ watcher.pc = "scan" /\ Waiting # {}
  /\ LET i == Min(Waiting)
         hit == ScanPayment(i)
     IN watcher' = IF hit = 0 THEN [watcher EXCEPT !.at = i]
                   ELSE [watcher EXCEPT !.at = i, !.pc = "grant", !.pay = hit,
                                        !.log = EventLog(i), !.mem[i] = "paid"]
  /\ UNCHANGED <<vaultVars, disk, quote, payments, web, manual, credits, faults>>

TickGrants == /\ watcher.pc = "grant"
              /\ Submit(watcher)
              /\ watcher' = [watcher EXCEPT !.pc = "scan", !.pay = 0, !.mem[watcher.at] = "granted", !.dirty = TRUE]
              /\ UNCHANGED <<disk, quote, payments, web, manual, faults>>

(* The error is caught per intent, which stays "paid" in memory. *)
TickFails == /\ watcher.pc = "grant"
             /\ Fails(watcher)
             /\ watcher' = [watcher EXCEPT !.pc = "scan", !.pay = 0]
             /\ UNCHANGED <<disk, quote, payments, web, manual>>

TickSaves == /\ watcher.pc = "scan" /\ Waiting = {}
             /\ disk' = IF watcher.dirty THEN watcher.mem ELSE disk
             /\ watcher' = Idle
             /\ UNCHANGED <<vaultVars, quote, payments, web, manual, credits, faults>>

-----------------------------------------------------------------------------
(* confirm: POST /confirm, which answers at once when the intent is granted,
   and the command line, which does not look.  The operator has seen the
   payment; the log index is 0 unless the request says which it is. *)

Confirm(i, k) ==
  /\ manual.pc = "idle"
  /\ disk[i] # "absent"
  /\ payments[k].by = i /\ payments[k].state \in {"confirmed", "old"}
  /\ \E log \in {0, EventLog(i)} :
       manual' = [Idle EXCEPT !.pc = "grant", !.mem = [disk EXCEPT ![i] = "paid"],
                              !.at = i, !.pay = k, !.log = log]
  /\ UNCHANGED <<vaultVars, disk, quote, payments, web, watcher, credits, faults>>

ConfirmGrants == /\ manual.pc = "grant"
                 /\ Submit(manual)
                 /\ manual' = [manual EXCEPT !.pc = "save", !.mem[manual.at] = "granted"]
                 /\ UNCHANGED <<disk, quote, payments, web, watcher, faults>>

(* The handler answers an error and forgets what it loaded. *)
ConfirmFails == /\ manual.pc = "grant"
                /\ Fails(manual)
                /\ manual' = Idle
                /\ UNCHANGED <<disk, quote, payments, web, watcher>>

ConfirmSaves == /\ manual.pc = "save"
                /\ disk' = manual.mem
                /\ manual' = Idle
                /\ UNCHANGED <<vaultVars, quote, payments, web, watcher, credits, faults>>

(* The relayer stops and starts again: only the file is left. *)
Crash == /\ Fault
         /\ watcher' = Idle /\ manual' = Idle
         /\ UNCHANGED <<vaultVars, disk, quote, payments, web, credits>>

-----------------------------------------------------------------------------
Watch == TickLoads \/ TickScans \/ TickGrants \/ TickFails \/ TickSaves
Operate == ConfirmGrants \/ ConfirmFails \/ ConfirmSaves

Next == \/ VaultNext /\ UNCHANGED saleVars
        \/ \E b \in Buyer, rail \in Rails : CreateIntent(b, rail)
        \/ WebLoads
        \/ \E b \in Buyer, rail \in Rails : WebSaves(b, rail)
        \/ \E i \in Intent : Pay(i)
        \/ \E k \in DOMAIN payments : Settle(k)
        \/ \E i \in Intent, k \in DOMAIN payments : Confirm(i, k)
        \/ Watch \/ Operate \/ Crash

Spec == Init /\ [][Next]_vars

-----------------------------------------------------------------------------
(* What SaleVault.sol keeps paymentUsed for ("anti double-credit"): a payment is
   granted once at most. *)
CreditedOnce == \A c, d \in credits : c.pay = d.pay => c = d

(* Whatever the watcher, the operators, lost answers and crashes do, a payment
   is granted twice only on an EVM rail, once under the index of its event and
   once under the 0 of a confirmation that was not told it. *)
CreditedPerIndex == \A c, d \in credits :
  c.pay = d.pay /\ c # d => /\ quote[payments[c.pay].by].rail = "evm"
                           /\ {c.log, d.log} = {0, LogIndex}

(* A grant is for a payment that was confirmed and that paid exactly the quote
   of the intent, so one sale never gets tokens without money. *)
GrantsPaid == \A c \in credits :
  /\ payments[c.pay].state \in {"confirmed", "old"}
  /\ SamePrice(payments[c.pay].by, quote[c.intent].rail, quote[c.intent].amount)

(* The file says granted only of what was granted on the chain. *)
FileTruthful == \A i \in Intent : disk[i] = "granted" => \E c \in credits : c.intent = i

(* No two open intents of the file ask for the same amount on one rail, even
   though files are overwritten whole by runs that loaded older ones: the
   watcher can always tell them apart. *)
AmountsDistinct == \A i \in Intent : disk[i] = "pending" => ~Collides(disk, i)

(* A funded vault can pay what it owes and, until it is finalized, all it may
   still sell and the escrow's part: only an administrator's sweep takes it. *)
Reserved == IF mode = "public" /\ phase # "final" THEN LpSeed + Allocated - sold ELSE 0
Solvent == funded => balance + swept >= Owed + Reserved
=============================================================================
