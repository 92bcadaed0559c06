----------------------------- MODULE Sale_proofs -----------------------------
(***************************************************************************)
(* Proofs about Sale for every number of intents, buyers, payments, faults *)
(* and crashes, every ladder and either vault: what the relayer grants was *)
(* paid for, its file tells the truth and keeps open amounts apart, a      *)
(* payment is credited once under each of its ids, and the vault stays     *)
(* solvent.                                                                *)
(***************************************************************************)
EXTENDS Sale, Lemmas

-----------------------------------------------------------------------------
(* What there is in the variables. *)

Status == {"absent", "pending", "paid", "granted"}

Files == [Intent -> Status]

Quotes == [buyer : Buyer, rail : Rails, amount : PayAmounts, tokens : Nat \ {0}]

Payments == [by : Intent, state : {"sent", "confirmed", "old"}]

Runs == [pc : {"idle", "scan", "grant", "save"}, mem : Files,
         at : Nat, pay : Nat, log : {0, LogIndex}, dirty : BOOLEAN]

Credit == [intent : Intent, pay : Nat, log : {0, LogIndex}]

SaleTypes == /\ quote \in Seq(Quotes) /\ payments \in Seq(Payments)
             /\ web \in Seq(Files) /\ Len(web) <= 1
             /\ Len(quote) + Len(web) <= MaxIntents
             /\ watcher \in Runs /\ manual \in Runs
             /\ credits \in SUBSET Credit

(* The conditions below are about what a file, a run or a credit refers to,  *)
(* with the quotes q, the payments p, the credits cr and the used ids u.     *)

SameQuote(q, i, j) == q[i].rail = q[j].rail /\ q[i].amount = q[j].amount

(* A file, also an old one that a run still holds: it lists quoted intents,  *)
(* says granted of granted ones, and its open amounts are distinct.          *)
FileOk(f, q, cr) ==
  /\ f \in Files
  /\ \A i \in Intent : f[i] # "absent" => i \in 1..Len(q)
  /\ \A i \in Intent : f[i] = "granted" => \E c \in cr : c.intent = i
  /\ \A i, j \in Intent : i # j /\ f[i] = "pending" /\ f[j] = "pending" => ~SameQuote(q, i, j)

(* Payment k is confirmed, or was, and paid the price of intent i. *)
PaidFor(i, k, q, p) ==
  /\ i \in Intent /\ i \in 1..Len(q) /\ k \in 1..Len(p)
  /\ p[k].state \in {"confirmed", "old"}
  /\ p[k].by \in 1..Len(q) /\ SameQuote(q, p[k].by, i)

(* And l is an index it is known by: the event's is named on an EVM rail only. *)
Known(i, k, l, q, p) ==
  PaidFor(i, k, q, p) /\ (l = 0 \/ (l = LogIndex /\ q[i].rail = "evm"))

(* The vault remembers the payment of every credit. *)
CreditsOk(cr, u, q, p) ==
  /\ \A c \in cr : Known(c.intent, c.pay, c.log, q, p) /\ <<c.pay, c.log>> \in u
  /\ \A c, d \in cr : c.pay = d.pay /\ c.log = d.log => c = d

RunOk(r, q, p, cr) == /\ FileOk(r.mem, q, cr)
                      /\ r.pc = "grant" => Known(r.at, r.pay, r.log, q, p)

SaleInv == /\ SaleTypes
           /\ \A k \in 1..Len(payments) : payments[k].by \in 1..Len(quote)
           /\ FileOk(disk, quote, credits)
           /\ \A n \in 1..Len(web) : FileOk(web[n], quote, credits)
           /\ RunOk(watcher, quote, payments, credits)
           /\ RunOk(manual, quote, payments, credits)
           /\ manual.pc = "save" => manual.at \in Intent
           /\ CreditsOk(credits, used, quote, payments)

-----------------------------------------------------------------------------
(* The vault: every unit it was funded with is there, swept, released, or in *)
(* the escrow.                                                               *)
VaultTypes == /\ mode \in {"private", "public"}
              /\ phase \in {"set", "open", "expired", "final"}
              /\ sold \in Nat /\ balance \in Nat /\ swept \in Nat
              /\ total \in [Buyer -> Nat] /\ released \in [Buyer -> Nat]
              /\ funded \in BOOLEAN /\ paused \in BOOLEAN

Funds == IF funded THEN Allocated + (IF mode = "public" THEN LpSeed + Buffer ELSE 0) ELSE 0

Escrowed == IF phase = "final" THEN LpSeed + (Allocated - sold) ELSE 0

VaultInv == /\ VaultTypes
            /\ sold <= Allocated
            /\ mode = "private" => phase # "final"
            /\ balance + swept + (sold - Owed) + Escrowed = Funds

-----------------------------------------------------------------------------
(* How the conditions fare when the rest of the system moves. *)

(* q2 keeps the quotes of q. *)
Keeps(q, q2) == Len(q) <= Len(q2) /\ \A i \in 1..Len(q) : q2[i] = q[i]

(* p2 keeps the payments of p, and none of them loses its confirmations. *)
Advances(p, p2) ==
  /\ Len(p) <= Len(p2)
  /\ \A k \in 1..Len(p) : /\ p2[k].by = p[k].by
                          /\ p[k].state \in {"confirmed", "old"}
                               => p2[k].state \in {"confirmed", "old"}

(* Quotes that stay are kept. *)
LEMMA KeepsRefl ==
  ASSUME NEW q \in Seq(Quotes) PROVE Keeps(q, q)
  BY DEF Keeps

(* Payments that stay advance. *)
LEMMA AdvancesRefl ==
  ASSUME NEW p \in Seq(Payments) PROVE Advances(p, p)
  BY DEF Advances

(* A truthful file stays truthful when quotes and credits are added. *)
LEMMA FileStays ==
  ASSUME NEW q \in Seq(Quotes), NEW q2 \in Seq(Quotes), Keeps(q, q2),
         NEW cr, NEW cr2, cr \subseteq cr2, NEW f, FileOk(f, q, cr)
  PROVE  FileOk(f, q2, cr2)
<1>1. Len(q) \in Nat /\ Len(q2) \in Nat /\ Len(q) <= Len(q2)
  BY DEF Keeps
<1>2. \A i \in Intent : f[i] # "absent" => i \in 1..Len(q) /\ i \in 1..Len(q2)
  BY <1>1 DEF FileOk
<1>3. ASSUME NEW i \in Intent, NEW j \in Intent, i # j, f[i] = "pending", f[j] = "pending"
      PROVE  ~SameQuote(q2, i, j)
  <2>1. q2[i] = q[i] /\ q2[j] = q[j]
    BY <1>2, <1>3 DEF Keeps
  <2>2. QED
    BY <2>1, <1>3 DEF FileOk, SameQuote
<1>4. QED
  BY <1>2, <1>3 DEF FileOk

(* A payment of an intent stays one when others come and confirmations      *)
(* grow.                                                                    *)
LEMMA PaidStays ==
  ASSUME NEW q \in Seq(Quotes), NEW q2 \in Seq(Quotes), Keeps(q, q2),
         NEW p \in Seq(Payments), NEW p2 \in Seq(Payments), Advances(p, p2),
         NEW i, NEW k, PaidFor(i, k, q, p)
  PROVE  PaidFor(i, k, q2, p2)
<1>1. Len(q) \in Nat /\ Len(q2) \in Nat /\ Len(p) \in Nat /\ Len(p2) \in Nat
  OBVIOUS
<1>2. /\ i \in 1..Len(q2) /\ k \in 1..Len(p2) /\ p[k].by \in 1..Len(q2)
      /\ q2[i] = q[i] /\ q2[p[k].by] = q[p[k].by] /\ p2[k].by = p[k].by
      /\ p2[k].state \in {"confirmed", "old"}
  BY <1>1 DEF PaidFor, Keeps, Advances
<1>3. QED
  BY <1>2 DEF PaidFor, SameQuote

(* Under the same index. *)
LEMMA KnownStays ==
  ASSUME NEW q \in Seq(Quotes), NEW q2 \in Seq(Quotes), Keeps(q, q2),
         NEW p \in Seq(Payments), NEW p2 \in Seq(Payments), Advances(p, p2),
         NEW i, NEW k, NEW l, Known(i, k, l, q, p)
  PROVE  Known(i, k, l, q2, p2)
<1>1. PaidFor(i, k, q, p) /\ PaidFor(i, k, q2, p2)
  BY PaidStays DEF Known
<1>2. q2[i] = q[i]
  BY <1>1 DEF PaidFor, Keeps
<1>3. QED
  BY <1>1, <1>2 DEF Known

(* So do the credits. *)
LEMMA CreditsStay ==
  ASSUME NEW q \in Seq(Quotes), NEW q2 \in Seq(Quotes), Keeps(q, q2),
         NEW p \in Seq(Payments), NEW p2 \in Seq(Payments), Advances(p, p2),
         NEW cr, NEW u, CreditsOk(cr, u, q, p)
  PROVE  CreditsOk(cr, u, q2, p2)
  BY KnownStays DEF CreditsOk

(* And what a run of the relayer holds in memory. *)
LEMMA RunStays ==
  ASSUME NEW q \in Seq(Quotes), NEW q2 \in Seq(Quotes), Keeps(q, q2),
         NEW p \in Seq(Payments), NEW p2 \in Seq(Payments), Advances(p, p2),
         NEW cr, NEW cr2, cr \subseteq cr2, NEW r, RunOk(r, q, p, cr)
  PROVE  RunOk(r, q2, p2, cr2)
  BY FileStays, KnownStays DEF RunOk

(* Marking an intent paid or granted keeps a file in order. *)
LEMMA MarkPaid ==
  ASSUME NEW q \in Seq(Quotes), NEW cr, NEW f, FileOk(f, q, cr),
         NEW i \in Intent, i \in 1..Len(q)
  PROVE  FileOk([f EXCEPT ![i] = "paid"], q, cr)
<1> DEFINE g == [f EXCEPT ![i] = "paid"]
<1>1. f \in [Intent -> Status]
  BY DEF FileOk, Files
<1>2. g \in Files /\ g[i] = "paid" /\ \A j \in Intent \ {i} : g[j] = f[j]
  BY <1>1 DEF Files, Status
<1> HIDE DEF g
<1>3. FileOk(g, q, cr)
  BY <1>2 DEF FileOk
<1>4. QED
  BY <1>3 DEF g

(* An intent with a credit may be marked granted. *)
LEMMA MarkGranted ==
  ASSUME NEW q \in Seq(Quotes), NEW cr, NEW f, FileOk(f, q, cr),
         NEW i \in Intent, i \in 1..Len(q), \E c \in cr : c.intent = i
  PROVE  FileOk([f EXCEPT ![i] = "granted"], q, cr)
<1> DEFINE g == [f EXCEPT ![i] = "granted"]
<1>1. f \in [Intent -> Status]
  BY DEF FileOk, Files
<1>2. g \in Files /\ g[i] = "granted" /\ \A j \in Intent \ {i} : g[j] = f[j]
  BY <1>1 DEF Files, Status
<1> HIDE DEF g
<1>3. FileOk(g, q, cr)
  BY <1>2 DEF FileOk
<1>4. QED
  BY <1>3 DEF g

(* The ladder sells something for every amount raised. *)
LEMMA TierFacts ==
  ASSUME NEW raised \in Int
  PROVE  ResolveTier(raised).tokens \in Nat \ {0}
<1> DEFINE unfilled == {n \in DOMAIN Tiers : raised < Tiers[n].until}
<1>1. Tiers \in Seq([until : Nat, tokens : Nat \ {0}]) /\ Tiers # <<>>
  BY SaleAssumption
<1>2. DOMAIN Tiers = 1..Len(Tiers) /\ Len(Tiers) \in 1..Len(Tiers)
  <2>1. ASSUME NEW S, NEW t \in Seq(S), t # <<>>
        PROVE  DOMAIN t = 1..Len(t) /\ Len(t) \in 1..Len(t)
    BY <2>1
  <2>2. QED
    BY <1>1, <2>1
<1>3. \A n \in 1..Len(Tiers) : Tiers[n].tokens \in Nat \ {0}
  <2>1. ASSUME NEW S, NEW t \in Seq(S), NEW n \in 1..Len(t)
        PROVE  t[n] \in S
    OBVIOUS
  <2>2. \A n \in 1..Len(Tiers) : Tiers[n] \in [until : Nat, tokens : Nat \ {0}]
    BY <1>1, <2>1
  <2>3. QED
    BY <2>2
<1>4. CASE unfilled = {}
  BY <1>2, <1>3, <1>4 DEF ResolveTier
<1>5. CASE unfilled # {}
  <2>1. unfilled \in SUBSET Nat
    BY <1>2
  <2>2. Min(unfilled) \in unfilled
    BY <2>1, <1>5, MinFacts
  <2>3. Min(unfilled) \in 1..Len(Tiers)
    BY <2>2, <1>2
  <2>4. ResolveTier(raised) = Tiers[Min(unfilled)]
    BY <1>5 DEF ResolveTier
  <2>5. QED
    BY <2>3, <2>4, <1>3
<1>6. QED
  BY <1>4, <1>5

(* Cardinalities of parts of a file are numbers. *)
LEMMA RaisedFacts ==
  ASSUME NEW f
  PROVE  Raised(f) \in Nat
<1> DEFINE T == {i \in Intent : f[i] \in {"paid", "granted"}}
<1>1. MaxIntents \in Nat
  BY SaleAssumption
<1>2. IsFiniteSet(Intent)
  BY <1>1, FS_Interval DEF Intent
<1>3. IsFiniteSet(T)
  BY <1>2, FS_Subset
<1>4. QED
  BY <1>3, FS_CardinalityType DEF Raised

-----------------------------------------------------------------------------
(* What the parts of the actions do. *)

(* The parts of the invariant that most steps need. *)
LEMMA InvFacts ==
  ASSUME SaleInv
  PROVE  /\ quote \in Seq(Quotes) /\ payments \in Seq(Payments)
         /\ Len(quote) \in Nat /\ Len(web) \in Nat /\ MaxIntents \in Nat
         /\ Keeps(quote, quote) /\ Advances(payments, payments)
         /\ web \in Seq(Files) /\ watcher \in Runs /\ manual \in Runs
         /\ credits \in SUBSET Credit
<1>1. quote \in Seq(Quotes) /\ payments \in Seq(Payments) /\ web \in Seq(Files)
  BY DEF SaleInv, SaleTypes
<1>2. Keeps(quote, quote) /\ Advances(payments, payments)
  BY <1>1, KeepsRefl, AdvancesRefl
<1>3. MaxIntents \in Nat
  BY SaleAssumption
<1>4. QED
  BY <1>1, <1>2, <1>3 DEF SaleInv, SaleTypes

(* A run that does nothing holds an empty file. *)
LEMMA IdleFacts ==
  ASSUME NEW q, NEW p, NEW cr
  PROVE  Idle \in Runs /\ RunOk(Idle, q, p, cr) /\ Idle.pc = "idle" /\ Idle.dirty = FALSE
<1> DEFINE none == [i \in Intent |-> "absent"]
<1>1. none \in Files /\ \A i \in Intent : none[i] = "absent"
  BY DEF Files, Status
<1>2. Idle = [pc |-> "idle", mem |-> none, at |-> 0,
              pay |-> 0, log |-> 0, dirty |-> FALSE]
  BY DEF Idle
<1> HIDE DEF none
<1>3. FileOk(none, q, cr)
  BY <1>1 DEF FileOk
<1>4. QED
  BY <1>1, <1>2, <1>3 DEF Runs, RunOk

(* allocateUniqueQuote: the new intent is the next one, and its amount is    *)
(* that of no open intent of the file it is written with.                    *)
LEMMA AddsFacts ==
  ASSUME SaleInv, NEW f, FileOk(f, quote, credits), Len(quote) < MaxIntents,
         NEW b \in Buyer, NEW rail \in Rails, Adds(f, b, rail)
  PROVE  /\ quote' \in Seq(Quotes) /\ Len(quote') = Len(quote) + 1
         /\ Keeps(quote, quote')
         /\ FileOk(disk', quote', credits)
<1> DEFINE i == Len(quote) + 1
<1>1. PICK amount \in PayAmounts :
        /\ ~Taken(f, rail, amount)
        /\ quote' = Append(quote, [buyer |-> b, rail |-> rail, amount |-> amount,
                                   tokens |-> ResolveTier(Raised(f)).tokens])
  BY DEF Adds
<1>2. disk' = [f EXCEPT ![i] = "pending"]
  BY DEF Adds
<1> DEFINE new == [buyer |-> b, rail |-> rail, amount |-> amount,
                   tokens |-> ResolveTier(Raised(f)).tokens]
<1>3. new \in Quotes /\ new.rail = rail /\ new.amount = amount
  BY RaisedFacts, TierFacts DEF Quotes
<1>4. quote' = Append(quote, new)
  BY <1>1
<1> HIDE DEF new
<1>5. quote \in Seq(Quotes) /\ Len(quote) \in Nat /\ MaxIntents \in Nat
  BY InvFacts
<1>6. /\ quote' \in Seq(Quotes) /\ Len(quote') = Len(quote) + 1
      /\ \A j \in 1..Len(quote) : quote'[j] = quote[j]
      /\ quote'[i] = new
  BY <1>3, <1>4, <1>5
<1>7. i \in Intent /\ i \notin 1..Len(quote) /\ i \in 1..Len(quote')
  BY <1>5, <1>6 DEF Intent
<1>8. Keeps(quote, quote')
  BY <1>5, <1>6 DEF Keeps
<1>9. FileOk(f, quote', credits)
  BY <1>5, <1>6, <1>8, FileStays
<1>10. \A j \in Intent : f[j] = "pending" => ~SameQuote(quote', i, j) /\ ~SameQuote(quote', j, i)
  <2>1. SUFFICES ASSUME NEW j \in Intent, f[j] = "pending"
                 PROVE  ~(quote'[j].rail = rail /\ quote'[j].amount = amount)
    BY <1>3, <1>6 DEF SameQuote
  <2>2. j \in 1..Len(quote)
    BY <2>1 DEF FileOk
  <2>3. quote'[j] = quote[j]
    BY <2>2, <1>6
  <2>4. QED
    BY <2>1, <2>3, <1>1 DEF Taken, SamePrice
<1> HIDE DEF i
<1> DEFINE g == [f EXCEPT ![i] = "pending"]
<1>11. f \in [Intent -> Status]
  BY DEF FileOk, Files
<1>12. g \in Files /\ g[i] = "pending" /\ \A j \in Intent \ {i} : g[j] = f[j]
  BY <1>7, <1>11 DEF Files, Status
<1> HIDE DEF g
<1>13. FileOk(g, quote', credits)
  <2>1. \A j \in Intent : g[j] # "absent" => j \in 1..Len(quote')
    BY <1>7, <1>9, <1>12 DEF FileOk
  <2>2. \A j \in Intent : g[j] = "granted" => \E c \in credits : c.intent = j
    BY <1>9, <1>12 DEF FileOk
  <2>3. ASSUME NEW j \in Intent, NEW k \in Intent, j # k, g[j] = "pending", g[k] = "pending"
        PROVE  ~SameQuote(quote', j, k)
    BY <2>3, <1>9, <1>10, <1>12 DEF FileOk
  <2>4. QED
    BY <1>12, <2>1, <2>2, <2>3 DEF FileOk
<1>14. QED
  BY <1>2, <1>6, <1>8, <1>13 DEF g

(* submitGrant: the vault had not seen the payment id, and remembers it. *)
LEMMA SubmitFacts ==
  ASSUME SaleInv, NEW run \in Runs,
         Known(run.at, run.pay, run.log, quote, payments), Submit(run)
  PROVE  /\ credits' \in SUBSET Credit /\ credits \subseteq credits'
         /\ CreditsOk(credits', used', quote, payments)
         /\ \E c \in credits' : c.intent = run.at
<1> DEFINE new == [intent |-> run.at, pay |-> run.pay, log |-> run.log]
<1>1. /\ <<run.pay, run.log>> \notin used
      /\ used' = used \cup {<<run.pay, run.log>>}
      /\ credits' = credits \cup {new}
  BY DEF Submit, Grant, Grants, PaymentId
<1>2. new \in Credit /\ new.intent = run.at /\ new.pay = run.pay /\ new.log = run.log
  BY DEF Credit, Known, PaidFor, Runs
<1> HIDE DEF new
<1>3. CreditsOk(credits, used, quote, payments) /\ credits \in SUBSET Credit
  BY DEF SaleInv, SaleTypes
<1>4. \A c \in credits' : Known(c.intent, c.pay, c.log, quote, payments) /\ <<c.pay, c.log>> \in used'
  BY <1>1, <1>2, <1>3 DEF CreditsOk
<1>5. \A c \in credits : ~(c.pay = new.pay /\ c.log = new.log)
  BY <1>1, <1>2, <1>3 DEF CreditsOk
<1>6. \A c, d \in credits' : c.pay = d.pay /\ c.log = d.log => c = d
  BY <1>1, <1>3, <1>5 DEF CreditsOk
<1>7. QED
  BY <1>1, <1>2, <1>3, <1>4, <1>6 DEF CreditsOk

(* A grant that fails leaves credits as they are, or was mined all the      *)
(* same.                                                                    *)
LEMMA FailsFacts ==
  ASSUME SaleInv, NEW run \in Runs,
         Known(run.at, run.pay, run.log, quote, payments), Fails(run)
  PROVE  /\ credits' \in SUBSET Credit /\ credits \subseteq credits'
         /\ CreditsOk(credits', used', quote, payments)
<1>1. CASE Submit(run)
  BY <1>1, SubmitFacts
<1>2. CASE UNCHANGED <<vaultVars, credits>>
  <2>1. credits' = credits /\ used' = used
    BY <1>2 DEF vaultVars
  <2>2. QED
    BY <2>1 DEF SaleInv, SaleTypes
<1>3. QED
  BY <1>1, <1>2 DEF Fails

(* scanPayment finds a confirmed payment of the intent's price. *)
LEMMA ScanFacts ==
  ASSUME SaleInv, NEW i \in Intent, i \in 1..Len(quote), ScanPayment(i) # 0
  PROVE  /\ Known(i, ScanPayment(i), EventLog(i), quote, payments) /\ ScanPayment(i) \in Nat
         /\ EventLog(i) \in {0, LogIndex}
<1>1. payments \in Seq(Payments) /\ DOMAIN payments = 1..Len(payments) /\ Len(payments) \in Nat
  BY InvFacts
<1>2. Matches(i) \in SUBSET Nat /\ \A k \in Matches(i) : k <= Len(payments)
  BY <1>1 DEF Matches
<1>3. ScanPayment(i) \in Matches(i)
  <2>1. Matches(i) # {} /\ (ScanPayment(i) = Min(Matches(i)) \/ ScanPayment(i) = Max(Matches(i)))
    BY DEF ScanPayment
  <2>2. Min(Matches(i)) \in Matches(i)
    BY <2>1, <1>2, MinFacts
  <2>3. Max(Matches(i)) \in Matches(i)
    BY <2>1, <1>1, <1>2, MaxFacts
  <2>4. QED
    BY <2>1, <2>2, <2>3
<1>4. \A k \in Matches(i) : PaidFor(i, k, quote, payments)
  BY <1>1 DEF Matches, SamePrice, PaidFor, SameQuote, SaleInv
<1>5. QED
  BY <1>2, <1>3, <1>4 DEF Known, EventLog

-----------------------------------------------------------------------------
(* Every action keeps the relayer's invariant. *)

(* One lemma for each step: the vault moves nothing of the relayer's. *)
LEMMA VaultKeepsSale ==
  ASSUME SaleInv, VaultNext, UNCHANGED saleVars
  PROVE  SaleInv'
<1>1. used' = used
  BY DEF VaultNext, Fund, Open, Expire, SetPaused, FinalizeToLp, SweepExcess, Release
<1>2. QED
  BY <1>1 DEF saleVars, SaleInv, SaleTypes

(* An intent is added to the file disk or to the one the website holds. *)
LEMMA AddKeepsSale ==
  ASSUME SaleInv, NEW f, FileOk(f, quote, credits), Len(quote) < MaxIntents,
         NEW b \in Buyer, NEW rail \in Rails, Adds(f, b, rail),
         (web' = web /\ Len(quote) + Len(web) < MaxIntents) \/ web' = <<>>,
         UNCHANGED <<vaultVars, payments, watcher, manual, credits, faults>>
  PROVE  SaleInv'
<1>1. /\ quote' \in Seq(Quotes) /\ Len(quote') = Len(quote) + 1
      /\ Keeps(quote, quote') /\ FileOk(disk', quote', credits)
  BY AddsFacts
<1>2. /\ payments' = payments /\ watcher' = watcher /\ manual' = manual
      /\ credits' = credits /\ used' = used
  BY DEF vaultVars
<1>3. /\ quote \in Seq(Quotes) /\ payments \in Seq(Payments) /\ Advances(payments, payments)
      /\ Len(quote) \in Nat /\ Len(web) \in Nat /\ MaxIntents \in Nat /\ web \in Seq(Files)
  BY InvFacts
<1>4. /\ RunOk(watcher, quote', payments, credits) /\ RunOk(manual, quote', payments, credits)
      /\ CreditsOk(credits, used, quote', payments)
  BY <1>1, <1>3, RunStays, CreditsStay DEF SaleInv
<1>5. \A n \in 1..Len(web') : FileOk(web'[n], quote', credits)
  <2>1. CASE web' = web
    BY <2>1, <1>1, <1>3, FileStays DEF SaleInv
  <2>2. CASE web' = <<>>
    BY <2>2
  <2>3. QED
    BY <2>1, <2>2
<1>6. web' \in Seq(Files) /\ Len(web') <= 1 /\ Len(quote') + Len(web') <= MaxIntents
  <2>1. CASE web' = web /\ Len(quote) + Len(web) < MaxIntents
    BY <2>1, <1>1, <1>3 DEF SaleInv, SaleTypes
  <2>2. CASE web' = <<>>
    <3>1. Len(web') = 0 /\ web' \in Seq(Files)
      BY <2>2
    <3>2. QED
      BY <3>1, <1>1, <1>3
  <2>3. QED
    BY <2>1, <2>2
<1>7. \A k \in 1..Len(payments) : payments[k].by \in 1..Len(quote')
  BY <1>1, <1>3 DEF SaleInv
<1>8. SaleTypes'
  BY <1>1, <1>2, <1>6 DEF SaleInv, SaleTypes
<1>9. manual.pc = "save" => manual.at \in Intent
  BY DEF SaleInv
<1>10. QED
  BY <1>1, <1>2, <1>4, <1>5, <1>7, <1>8, <1>9 DEF SaleInv

(* createIntent adds a quote whose amount is of no open intent of the       *)
(* file.                                                                    *)
LEMMA CreateIntentKeepsSale ==
  ASSUME SaleInv, NEW b \in Buyer, NEW rail \in Rails, CreateIntent(b, rail)
  PROVE  SaleInv'
<1>1. Len(quote) + Len(web) < MaxIntents /\ Adds(disk, b, rail)
  BY DEF CreateIntent, Room
<1>2. Len(quote) < MaxIntents
  BY <1>1, InvFacts
<1>3. FileOk(disk, quote, credits)
  BY DEF SaleInv
<1>4. web' = web /\ UNCHANGED <<vaultVars, payments, watcher, manual, credits, faults>>
  BY DEF CreateIntent
<1>5. QED
  BY <1>1, <1>2, <1>3, <1>4, AddKeepsSale

(* The website does so over the file that it loaded. *)
LEMMA WebSavesKeepsSale ==
  ASSUME SaleInv, NEW b \in Buyer, NEW rail \in Rails, WebSaves(b, rail)
  PROVE  SaleInv'
<1>1. web # <<>> /\ web' = <<>> /\ Adds(web[1], b, rail)
  BY DEF WebSaves
<1>2. Len(web) > 0 /\ 1 \in 1..Len(web)
  BY <1>1, InvFacts
<1>3. FileOk(web[1], quote, credits)
  BY <1>2 DEF SaleInv
<1>4. Len(quote) + Len(web) <= MaxIntents
  BY DEF SaleInv, SaleTypes
<1>5. Len(quote) < MaxIntents
  BY <1>2, <1>4, InvFacts
<1>6. UNCHANGED <<vaultVars, payments, watcher, manual, credits, faults>>
  BY DEF WebSaves
<1>7. QED
  BY <1>1, <1>3, <1>5, <1>6, AddKeepsSale

(* What is loaded is as truthful as the file. *)
LEMMA WebLoadsKeepsSale ==
  ASSUME SaleInv, WebLoads
  PROVE  SaleInv'
<1>1. /\ web = <<>> /\ web' = <<disk>> /\ Len(quote) + Len(web) < MaxIntents
      /\ disk' = disk /\ quote' = quote /\ payments' = payments /\ watcher' = watcher
      /\ manual' = manual /\ credits' = credits /\ used' = used
  BY DEF WebLoads, vaultVars, Room
<1>2. FileOk(disk, quote, credits) /\ disk \in Files
  BY DEF SaleInv, FileOk
<1>3. web' \in Seq(Files) /\ Len(web') = 1 /\ web'[1] = disk /\ Len(web) = 0
  BY <1>1, <1>2
<1>4. Len(quote') + Len(web') <= MaxIntents
  BY <1>1, <1>3, InvFacts
<1>5. SaleTypes'
  BY <1>1, <1>3, <1>4 DEF SaleInv, SaleTypes
<1>6. \A n \in 1..Len(web') : FileOk(web'[n], quote', credits')
  BY <1>1, <1>2, <1>3
<1>7. QED
  BY <1>1, <1>5, <1>6 DEF SaleInv

(* The payments move; everything else stays. *)
LEMMA PaymentsKeepSale ==
  ASSUME SaleInv, payments' \in Seq(Payments), Advances(payments, payments'),
         \A k \in 1..Len(payments') : payments'[k].by \in 1..Len(quote),
         UNCHANGED <<vaultVars, disk, quote, web, watcher, manual, credits, faults>>
  PROVE  SaleInv'
<1>1. /\ disk' = disk /\ quote' = quote /\ web' = web /\ watcher' = watcher
      /\ manual' = manual /\ credits' = credits /\ used' = used
  BY DEF vaultVars
<1>2. /\ RunOk(watcher, quote, payments', credits) /\ RunOk(manual, quote, payments', credits)
      /\ CreditsOk(credits, used, quote, payments')
  BY InvFacts, RunStays, CreditsStay DEF SaleInv
<1>3. SaleTypes'
  BY <1>1 DEF SaleInv, SaleTypes
<1>4. QED
  BY <1>1, <1>2, <1>3 DEF SaleInv

(* A buyer pays the amount of its quote. *)
LEMMA PayKeepsSale ==
  ASSUME SaleInv, NEW i \in Intent, Pay(i)
  PROVE  SaleInv'
<1> DEFINE new == [by |-> i, state |-> "sent"]
<1>1. i \in DOMAIN quote /\ payments' = Append(payments, new)
  BY DEF Pay
<1>2. new \in Payments /\ new.by = i
  BY DEF Payments
<1> HIDE DEF new
<1>3. quote \in Seq(Quotes) /\ payments \in Seq(Payments)
  BY InvFacts
<1>4. /\ payments' \in Seq(Payments) /\ Len(payments') = Len(payments) + 1
      /\ Len(payments) \in Nat /\ \A k \in 1..Len(payments) : payments'[k] = payments[k]
      /\ payments'[Len(payments) + 1] = new /\ i \in 1..Len(quote)
  BY <1>1, <1>2, <1>3
<1>5. Advances(payments, payments')
  BY <1>4 DEF Advances
<1>6. \A k \in 1..Len(payments') : payments'[k].by \in 1..Len(quote)
  <2>1. \A k \in 1..Len(payments') : k \in 1..Len(payments) \/ k = Len(payments) + 1
    BY <1>4
  <2>2. QED
    BY <2>1, <1>2, <1>4 DEF SaleInv
<1>7. UNCHANGED <<vaultVars, disk, quote, web, watcher, manual, credits, faults>>
  BY DEF Pay
<1>8. QED
  BY <1>4, <1>5, <1>6, <1>7, PaymentsKeepSale

(* A payment gets older. *)
LEMMA SettleKeepsSale ==
  ASSUME SaleInv, NEW k \in DOMAIN payments, Settle(k)
  PROVE  SaleInv'
<1>1. payments \in Seq(Payments) /\ k \in 1..Len(payments) /\ Len(payments) \in Nat
  BY InvFacts
<1> DEFINE st == IF payments[k].state = "sent" THEN "confirmed" ELSE "old"
           new == [payments[k] EXCEPT !.state = st]
<1>2. payments' = [payments EXCEPT ![k] = new]
  BY DEF Settle
<1>3. payments[k] \in Payments
  BY <1>1
<1>4. new \in Payments /\ new.by = payments[k].by /\ new.state \in {"confirmed", "old"}
  BY <1>3 DEF Payments
<1> HIDE DEF new
<1>5. /\ payments' \in Seq(Payments) /\ Len(payments') = Len(payments)
      /\ payments'[k] = new /\ \A j \in 1..Len(payments) : j # k => payments'[j] = payments[j]
  BY <1>1, <1>2, <1>4
<1>6. Advances(payments, payments')
  BY <1>1, <1>4, <1>5 DEF Advances
<1>7. \A j \in 1..Len(payments') : payments'[j].by \in 1..Len(quote)
  BY <1>1, <1>4, <1>5 DEF SaleInv
<1>8. UNCHANGED <<vaultVars, disk, quote, web, watcher, manual, credits, faults>>
  BY DEF Settle
<1>9. QED
  BY <1>5, <1>6, <1>7, <1>8, PaymentsKeepSale

(* The relayer's runs, its file and the credits move. *)
LEMMA RunsKeepSale ==
  ASSUME SaleInv, FileOk(disk', quote, credits'),
         watcher' \in Runs, RunOk(watcher', quote, payments, credits'),
         manual' \in Runs, RunOk(manual', quote, payments, credits'),
         manual'.pc = "save" => manual'.at \in Intent,
         credits' \in SUBSET Credit, credits \subseteq credits',
         CreditsOk(credits', used', quote, payments),
         quote' = quote, payments' = payments, web' = web
  PROVE  SaleInv'
<1>1. \A n \in 1..Len(web) : FileOk(web[n], quote, credits')
  BY InvFacts, FileStays DEF SaleInv
<1>2. SaleTypes'
  BY DEF SaleInv, SaleTypes
<1>3. QED
  BY <1>1, <1>2 DEF SaleInv

(* The intent that tick looks at next is quoted. *)
LEMMA WaitingFacts ==
  ASSUME SaleInv, Waiting # {}
  PROVE  Min(Waiting) \in Intent /\ Min(Waiting) \in 1..Len(quote) /\ Min(Waiting) \in Nat
<1>1. Waiting \in SUBSET Nat
  BY DEF Waiting, Intent
<1>2. Min(Waiting) \in Waiting
  BY <1>1, MinFacts
<1>3. Min(Waiting) \in Intent /\ watcher.mem[Min(Waiting)] = "pending"
  BY <1>2 DEF Waiting
<1>4. FileOk(watcher.mem, quote, credits)
  BY DEF SaleInv, RunOk
<1>5. QED
  BY <1>1, <1>2, <1>3, <1>4 DEF FileOk

(* What holds of the variables that a step of the watcher leaves alone. *)
LEMMA Untouched ==
  ASSUME SaleInv
  PROVE  /\ FileOk(disk, quote, credits) /\ CreditsOk(credits, used, quote, payments)
         /\ RunOk(watcher, quote, payments, credits) /\ RunOk(manual, quote, payments, credits)
         /\ FileOk(watcher.mem, quote, credits) /\ FileOk(manual.mem, quote, credits)
         /\ manual.pc = "save" => manual.at \in Intent
  BY DEF SaleInv, RunOk

(* The watcher loads the file. *)
LEMMA TickLoadsKeepsSale ==
  ASSUME SaleInv, TickLoads
  PROVE  SaleInv'
<1>1. /\ watcher' = [Idle EXCEPT !.pc = "scan", !.mem = disk]
      /\ disk' = disk /\ quote' = quote /\ payments' = payments /\ web' = web
      /\ manual' = manual /\ credits' = credits /\ used' = used
  BY DEF TickLoads, vaultVars
<1>2. Idle \in Runs /\ disk \in Files
  BY IdleFacts, Untouched DEF FileOk
<1>3. watcher' \in Runs /\ watcher'.pc = "scan" /\ watcher'.mem = disk
  BY <1>1, <1>2 DEF Runs
<1>4. RunOk(watcher', quote, payments, credits)
  BY <1>3, Untouched DEF RunOk
<1>5. QED
  BY <1>1, <1>3, <1>4, Untouched, InvFacts, RunsKeepSale

(* The watcher takes a payment only for an intent of that amount. *)
LEMMA TickScansKeepsSale ==
  ASSUME SaleInv, TickScans
  PROVE  SaleInv'
<1> DEFINE i == Min(Waiting)
           hit == ScanPayment(i)
<1>1. /\ Waiting # {} /\ watcher.pc = "scan"
      /\ disk' = disk /\ quote' = quote /\ payments' = payments /\ web' = web
      /\ manual' = manual /\ credits' = credits /\ used' = used
  BY DEF TickScans, vaultVars
<1>2. watcher' = IF hit = 0 THEN [watcher EXCEPT !.at = i]
                 ELSE [watcher EXCEPT !.at = i, !.pc = "grant", !.pay = hit,
                                      !.log = EventLog(i), !.mem[i] = "paid"]
  BY DEF TickScans
<1>3. i \in Intent /\ i \in 1..Len(quote) /\ i \in Nat
  BY <1>1, WaitingFacts
<1> DEFINE l == EventLog(i)
<1>4. hit # 0 => Known(i, hit, l, quote, payments) /\ hit \in Nat /\ l \in {0, LogIndex}
  BY <1>3, ScanFacts
<1> HIDE DEF i, hit
<1>5. watcher \in Runs /\ FileOk(watcher.mem, quote, credits) /\ quote \in Seq(Quotes)
  BY InvFacts, Untouched
<1>6. FileOk([watcher.mem EXCEPT ![i] = "paid"], quote, credits)
  BY <1>3, <1>5, MarkPaid
<1>7. watcher' \in Runs /\ RunOk(watcher', quote, payments, credits)
  <2>1. CASE hit = 0
    <3>1. /\ watcher' = [watcher EXCEPT !.at = i]
      BY <2>1, <1>2
    <3>2. watcher' \in Runs /\ watcher'.pc = watcher.pc /\ watcher'.mem = watcher.mem
      BY <3>1, <1>3, <1>5 DEF Runs
    <3>3. QED
      BY <3>2, <1>1, <1>5 DEF RunOk
  <2>2. CASE hit # 0
    <3> DEFINE m == [watcher.mem EXCEPT ![i] = "paid"]
    <3>1. watcher' = [watcher EXCEPT !.at = i, !.pc = "grant", !.pay = hit, !.log = l, !.mem = m]
      BY <2>2, <1>2
    <3>2. m \in Files
      BY <1>6 DEF FileOk
    <3>3. FileOk(m, quote, credits)
      BY <1>6
    <3> HIDE DEF m, l
    <3>4. /\ watcher' \in Runs /\ watcher'.pc = "grant" /\ watcher'.mem = m
          /\ watcher'.at = i /\ watcher'.pay = hit /\ watcher'.log = l
      BY <3>1, <3>2, <2>2, <1>3, <1>4, <1>5 DEF Runs
    <3>5. QED
      BY <3>3, <3>4, <2>2, <1>4 DEF RunOk
  <2>3. QED
    BY <2>1, <2>2
<1>8. QED
  BY <1>1, <1>7, Untouched, InvFacts, RunsKeepSale

(* A grant the vault takes: its id is new. *)
LEMMA TickGrantsKeepsSale ==
  ASSUME SaleInv, TickGrants
  PROVE  SaleInv'
<1>1. /\ watcher.pc = "grant" /\ Submit(watcher)
      /\ disk' = disk /\ quote' = quote /\ payments' = payments /\ web' = web /\ manual' = manual
      /\ watcher' = [watcher EXCEPT !.pc = "scan", !.pay = 0,
                                    !.mem[watcher.at] = "granted", !.dirty = TRUE]
  BY DEF TickGrants
<1>2. watcher \in Runs /\ Known(watcher.at, watcher.pay, watcher.log, quote, payments)
  BY <1>1, InvFacts, Untouched DEF RunOk
<1>3. /\ credits' \in SUBSET Credit /\ credits \subseteq credits'
      /\ CreditsOk(credits', used', quote, payments)
      /\ \E c \in credits' : c.intent = watcher.at
  BY <1>1, <1>2, SubmitFacts
<1>4. /\ FileOk(disk, quote, credits') /\ FileOk(watcher.mem, quote, credits')
      /\ RunOk(manual, quote, payments, credits')
  BY <1>3, InvFacts, Untouched, FileStays, RunStays
<1> DEFINE m == [watcher.mem EXCEPT ![watcher.at] = "granted"]
<1>5. FileOk(m, quote, credits')
  BY <1>2, <1>3, <1>4, InvFacts, MarkGranted DEF Known, PaidFor
<1>6. m \in Files
  BY <1>5 DEF FileOk
<1>7. watcher' = [watcher EXCEPT !.pc = "scan", !.pay = 0, !.mem = m, !.dirty = TRUE]
  BY <1>1
<1> HIDE DEF m
<1>8. watcher' \in Runs /\ watcher'.pc = "scan" /\ watcher'.mem = m
  BY <1>2, <1>6, <1>7 DEF Runs
<1>9. RunOk(watcher', quote, payments, credits')
  BY <1>5, <1>8 DEF RunOk
<1>10. QED
  BY <1>1, <1>3, <1>4, <1>8, <1>9, Untouched, InvFacts, RunsKeepSale

(* A grant of the watcher that fails, or whose answer is lost. *)
LEMMA TickFailsKeepsSale ==
  ASSUME SaleInv, TickFails
  PROVE  SaleInv'
<1>1. /\ watcher.pc = "grant" /\ Fails(watcher)
      /\ disk' = disk /\ quote' = quote /\ payments' = payments /\ web' = web /\ manual' = manual
      /\ watcher' = [watcher EXCEPT !.pc = "scan", !.pay = 0]
  BY DEF TickFails
<1>2. watcher \in Runs /\ Known(watcher.at, watcher.pay, watcher.log, quote, payments)
  BY <1>1, InvFacts, Untouched DEF RunOk
<1>3. /\ credits' \in SUBSET Credit /\ credits \subseteq credits'
      /\ CreditsOk(credits', used', quote, payments)
  BY <1>1, <1>2, FailsFacts
<1>4. /\ FileOk(disk, quote, credits') /\ FileOk(watcher.mem, quote, credits')
      /\ RunOk(manual, quote, payments, credits')
  BY <1>3, InvFacts, Untouched, FileStays, RunStays
<1>5. watcher' \in Runs /\ watcher'.pc = "scan" /\ watcher'.mem = watcher.mem
  BY <1>1, <1>2 DEF Runs
<1>6. RunOk(watcher', quote, payments, credits')
  BY <1>4, <1>5 DEF RunOk
<1>7. QED
  BY <1>1, <1>3, <1>4, <1>5, <1>6, Untouched, InvFacts, RunsKeepSale

(* The watcher writes its copy over the file: an old copy is truthful       *)
(* too.                                                                     *)
LEMMA TickSavesKeepsSale ==
  ASSUME SaleInv, TickSaves
  PROVE  SaleInv'
<1>1. /\ disk' = IF watcher.dirty THEN watcher.mem ELSE disk
      /\ watcher' = Idle /\ quote' = quote /\ payments' = payments /\ web' = web
      /\ manual' = manual /\ credits' = credits /\ used' = used
  BY DEF TickSaves, vaultVars
<1>2. FileOk(disk', quote, credits)
  BY <1>1, Untouched
<1>3. QED
  BY <1>1, <1>2, IdleFacts, Untouched, InvFacts, RunsKeepSale

(* An operator names a confirmed payment of the intent. *)
LEMMA ConfirmKeepsSale ==
  ASSUME SaleInv, NEW i \in Intent, NEW k \in DOMAIN payments, Confirm(i, k)
  PROVE  SaleInv'
<1> DEFINE m == [disk EXCEPT ![i] = "paid"]
<1>0. PICK l \in {0, EventLog(i)} :
        manual' = [Idle EXCEPT !.pc = "grant", !.mem = m, !.at = i, !.pay = k, !.log = l]
  BY DEF Confirm
<1>1. /\ disk[i] # "absent" /\ payments[k].by = i /\ payments[k].state \in {"confirmed", "old"}
      /\ disk' = disk /\ quote' = quote /\ payments' = payments /\ web' = web
      /\ watcher' = watcher /\ credits' = credits /\ used' = used
  BY DEF Confirm, vaultVars
<1>2. quote \in Seq(Quotes) /\ payments \in Seq(Payments) /\ FileOk(disk, quote, credits)
  BY InvFacts, Untouched
<1>3. i \in 1..Len(quote) /\ k \in 1..Len(payments) /\ k \in Nat /\ i \in Nat
  BY <1>1, <1>2 DEF FileOk
<1>4. Known(i, k, l, quote, payments) /\ l \in {0, LogIndex}
  <2>1. PaidFor(i, k, quote, payments)
    BY <1>1, <1>3 DEF PaidFor, SameQuote
  <2>2. QED
    BY <2>1 DEF Known, EventLog
<1>f. FileOk(m, quote, credits)
  BY <1>2, <1>3, MarkPaid
<1> HIDE DEF m
<1>5. FileOk(m, quote, credits) /\ m \in Files
  BY <1>f DEF FileOk
<1>6. /\ manual' \in Runs /\ manual'.pc = "grant" /\ manual'.mem = m
      /\ manual'.at = i /\ manual'.pay = k /\ manual'.log = l
  BY <1>0, <1>3, <1>4, <1>5, IdleFacts DEF Runs
<1>7. RunOk(manual', quote, payments, credits)
  BY <1>4, <1>5, <1>6 DEF RunOk
<1>8. QED
  BY <1>1, <1>6, <1>7, Untouched, InvFacts, RunsKeepSale

(* The grant of a manual confirmation. *)
LEMMA ConfirmGrantsKeepsSale ==
  ASSUME SaleInv, ConfirmGrants
  PROVE  SaleInv'
<1>1. /\ manual.pc = "grant" /\ Submit(manual)
      /\ disk' = disk /\ quote' = quote /\ payments' = payments /\ web' = web
      /\ watcher' = watcher
      /\ manual' = [manual EXCEPT !.pc = "save", !.mem[manual.at] = "granted"]
  BY DEF ConfirmGrants
<1>2. manual \in Runs /\ Known(manual.at, manual.pay, manual.log, quote, payments)
  BY <1>1, InvFacts, Untouched DEF RunOk
<1>3. /\ credits' \in SUBSET Credit /\ credits \subseteq credits'
      /\ CreditsOk(credits', used', quote, payments)
      /\ \E c \in credits' : c.intent = manual.at
  BY <1>1, <1>2, SubmitFacts
<1>4. /\ FileOk(disk, quote, credits') /\ FileOk(manual.mem, quote, credits')
      /\ RunOk(watcher, quote, payments, credits')
  BY <1>3, InvFacts, Untouched, FileStays, RunStays
<1> DEFINE m == [manual.mem EXCEPT ![manual.at] = "granted"]
<1>5. FileOk(m, quote, credits')
  BY <1>2, <1>3, <1>4, InvFacts, MarkGranted DEF Known, PaidFor
<1>6. m \in Files
  BY <1>5 DEF FileOk
<1>7. manual' = [manual EXCEPT !.pc = "save", !.mem = m]
  BY <1>1
<1> HIDE DEF m
<1>8. /\ manual' \in Runs /\ manual'.pc = "save" /\ manual'.mem = m
      /\ manual'.at = manual.at /\ manual.at \in Intent
  BY <1>2, <1>6, <1>7 DEF Runs, Known, PaidFor
<1>9. RunOk(manual', quote, payments, credits')
  BY <1>5, <1>8 DEF RunOk
<1>10. QED
  BY <1>1, <1>3, <1>4, <1>8, <1>9, InvFacts, RunsKeepSale

(* A manual confirmation that fails, or whose answer is lost. *)
LEMMA ConfirmFailsKeepsSale ==
  ASSUME SaleInv, ConfirmFails
  PROVE  SaleInv'
<1>1. /\ manual.pc = "grant" /\ Fails(manual) /\ manual' = Idle
      /\ disk' = disk /\ quote' = quote /\ payments' = payments /\ web' = web
      /\ watcher' = watcher
  BY DEF ConfirmFails
<1>2. manual \in Runs /\ Known(manual.at, manual.pay, manual.log, quote, payments)
  BY <1>1, InvFacts, Untouched DEF RunOk
<1>3. /\ credits' \in SUBSET Credit /\ credits \subseteq credits'
      /\ CreditsOk(credits', used', quote, payments)
  BY <1>1, <1>2, FailsFacts
<1>4. FileOk(disk, quote, credits') /\ RunOk(watcher, quote, payments, credits')
  BY <1>3, InvFacts, Untouched, FileStays, RunStays
<1>5. QED
  BY <1>1, <1>3, <1>4, IdleFacts, InvFacts, RunsKeepSale

(* A manual confirmation writes its copy over the file. *)
LEMMA ConfirmSavesKeepsSale ==
  ASSUME SaleInv, ConfirmSaves
  PROVE  SaleInv'
<1>1. /\ disk' = manual.mem /\ manual' = Idle
      /\ quote' = quote /\ payments' = payments /\ web' = web
      /\ watcher' = watcher /\ credits' = credits /\ used' = used
  BY DEF ConfirmSaves, vaultVars
<1>2. QED
  BY <1>1, IdleFacts, Untouched, InvFacts, RunsKeepSale

(* A crash forgets the copies in memory. *)
LEMMA CrashKeepsSale ==
  ASSUME SaleInv, Crash
  PROVE  SaleInv'
<1>1. /\ watcher' = Idle /\ manual' = Idle /\ disk' = disk
      /\ quote' = quote /\ payments' = payments /\ web' = web
      /\ credits' = credits /\ used' = used
  BY DEF Crash, vaultVars
<1>2. QED
  BY <1>1, IdleFacts, Untouched, InvFacts, RunsKeepSale

-----------------------------------------------------------------------------
(* The relayer's invariant holds, and with it what it implies. *)

(* There is nothing in the first file. *)
LEMMA SaleInvInit == Init => SaleInv
<1> SUFFICES ASSUME Init PROVE SaleInv
  OBVIOUS
<1> DEFINE none == [i \in Intent |-> "absent"]
<1>1. /\ disk = none /\ quote = <<>> /\ payments = <<>> /\ web = <<>>
      /\ watcher = Idle /\ manual = Idle /\ credits = {}
  BY DEF Init
<1>2. none \in Files /\ \A i \in Intent : none[i] = "absent"
  BY DEF Files, Status
<1> HIDE DEF none
<1>3. FileOk(none, quote, credits)
  BY <1>2 DEF FileOk
<1>4. /\ Len(quote) = 0 /\ Len(payments) = 0 /\ Len(web) = 0
      /\ quote \in Seq(Quotes) /\ payments \in Seq(Payments) /\ web \in Seq(Files)
  BY <1>1
<1>i. Idle \in Runs /\ RunOk(Idle, quote, payments, credits) /\ Idle.pc = "idle"
  BY IdleFacts
<1>m. MaxIntents \in Nat
  BY SaleAssumption
<1>5. SaleTypes
  <2>1. Len(web) <= 1 /\ Len(quote) + Len(web) <= MaxIntents
    BY <1>4, <1>m
  <2>2. credits \in SUBSET Credit
    BY <1>1
  <2>3. QED
    BY <1>1, <1>4, <1>i, <2>1, <2>2 DEF SaleTypes
<1>6. CreditsOk(credits, used, quote, payments)
  BY <1>1 DEF CreditsOk
<1>7. /\ \A k \in 1..Len(payments) : payments[k].by \in 1..Len(quote)
      /\ \A n \in 1..Len(web) : FileOk(web[n], quote, credits)
  BY <1>4
<1>8. QED
  BY <1>1, <1>3, <1>5, <1>6, <1>7, <1>i DEF SaleInv

(* Every step keeps the invariant of the relayer. *)
LEMMA SaleInvNext == SaleInv /\ [Next]_vars => SaleInv'
<1> SUFFICES ASSUME SaleInv, [Next]_vars
             PROVE  SaleInv'
  OBVIOUS
<1>1. CASE VaultNext /\ UNCHANGED saleVars
  BY <1>1, VaultKeepsSale
<1>2. ASSUME NEW b \in Buyer, NEW rail \in Rails, CreateIntent(b, rail)
      PROVE  SaleInv'
  BY <1>2, CreateIntentKeepsSale
<1>3. CASE WebLoads
  BY <1>3, WebLoadsKeepsSale
<1>4. ASSUME NEW b \in Buyer, NEW rail \in Rails, WebSaves(b, rail)
      PROVE  SaleInv'
  BY <1>4, WebSavesKeepsSale
<1>5. ASSUME NEW i \in Intent, Pay(i)
      PROVE  SaleInv'
  BY <1>5, PayKeepsSale
<1>6. ASSUME NEW k \in DOMAIN payments, Settle(k)
      PROVE  SaleInv'
  BY <1>6, SettleKeepsSale
<1>7. ASSUME NEW i \in Intent, NEW k \in DOMAIN payments, Confirm(i, k)
      PROVE  SaleInv'
  BY <1>7, ConfirmKeepsSale
<1>8. CASE Watch
  BY <1>8, TickLoadsKeepsSale, TickScansKeepsSale, TickGrantsKeepsSale,
     TickFailsKeepsSale, TickSavesKeepsSale DEF Watch
<1>9. CASE Operate
  BY <1>9, ConfirmGrantsKeepsSale, ConfirmFailsKeepsSale, ConfirmSavesKeepsSale DEF Operate
<1>10. CASE Crash
  BY <1>10, CrashKeepsSale
<1>11. CASE UNCHANGED vars
  BY <1>11 DEF vars, vaultVars, saleVars, SaleInv, SaleTypes
<1>12. QED
  BY <1>1, <1>2, <1>3, <1>4, <1>5, <1>6, <1>7, <1>8, <1>9, <1>10, <1>11 DEF Next

(* The invariant of the relayer holds in every reachable state. *)
LEMMA SaleInvHolds == Spec => []SaleInv
<1>1. QED
  BY SaleInvInit, SaleInvNext, PTL DEF Spec

(* Whatever order watcher, operators, faults and crashes come in, a grant is *)
(* for a payment that was confirmed and that paid the intent's exact quote.  *)
THEOREM OnlyPaidIsGranted == Spec => []GrantsPaid
<1>1. SaleInv => GrantsPaid
  <2>1. SUFFICES ASSUME SaleInv, NEW c \in credits
                 PROVE  /\ payments[c.pay].state \in {"confirmed", "old"}
                        /\ SamePrice(payments[c.pay].by, quote[c.intent].rail, quote[c.intent].amount)
    BY DEF GrantsPaid
  <2>2. PaidFor(c.intent, c.pay, quote, payments)
    BY <2>1 DEF SaleInv, CreditsOk, Known
  <2>3. QED
    BY <2>2 DEF PaidFor, SameQuote, SamePrice
<1>2. QED
  BY <1>1, SaleInvHolds, PTL

(* The file never says granted of an intent that no grant reached the chain  *)
(* for, although whole files are written back by runs that loaded them long  *)
(* before.                                                                   *)
THEOREM FileTellsTheTruth == Spec => []FileTruthful
<1>1. SaleInv => FileTruthful
  BY DEF SaleInv, FileOk, FileTruthful
<1>2. QED
  BY <1>1, SaleInvHolds, PTL

(* No two open intents of the file share an amount on one rail, whoever      *)
(* overwrote whose file.                                                     *)
THEOREM OpenAmountsDiffer == Spec => []AmountsDistinct
<1>1. SaleInv => AmountsDistinct
  <2>1. SUFFICES ASSUME SaleInv, NEW i \in Intent, disk[i] = "pending",
                        NEW j \in Intent \ {i}, disk[j] = "pending",
                        SamePrice(j, quote[i].rail, quote[i].amount)
                 PROVE  FALSE
    BY DEF AmountsDistinct, Collides
  <2>2. ~SameQuote(quote, j, i)
    BY <2>1 DEF SaleInv, FileOk
  <2>3. QED
    BY <2>1, <2>2 DEF SameQuote, SamePrice
<1>2. QED
  BY <1>1, SaleInvHolds, PTL

(* A payment is credited once under each id it can be given, whoever gives   *)
(* it and however often: twice at most, and on the rails whose scan names no *)
(* index (EventLog) once.                                                    *)
THEOREM CreditedOncePerId == Spec => []CreditedPerIndex
<1>1. SaleInv => CreditedPerIndex
  <2>1. SUFFICES ASSUME SaleInv, NEW c \in credits, NEW d \in credits, c.pay = d.pay, c # d
                 PROVE  /\ quote[payments[c.pay].by].rail = "evm"
                        /\ {c.log, d.log} = {0, LogIndex}
    BY DEF CreditedPerIndex
  <2>2. /\ Known(c.intent, c.pay, c.log, quote, payments)
        /\ Known(d.intent, d.pay, d.log, quote, payments)
        /\ c.log # d.log
    BY <2>1 DEF SaleInv, CreditsOk
  <2>3. {c.log, d.log} = {0, LogIndex}
    BY <2>2 DEF Known
  <2>4. quote[c.intent].rail = "evm" \/ quote[d.intent].rail = "evm"
    BY <2>2 DEF Known
  <2>5. quote[payments[c.pay].by].rail = "evm"
    BY <2>1, <2>2, <2>4 DEF Known, PaidFor, SameQuote
  <2>6. QED
    BY <2>3, <2>5
<1>2. QED
  BY <1>1, SaleInvHolds, PTL

-----------------------------------------------------------------------------
(* The vault stays solvent. *)

(* The numbers of the vault are natural. *)
LEMMA VaultConstants ==
  /\ IsFiniteSet(Buyer) /\ Allocated \in Nat /\ LpSeed \in Nat /\ Buffer \in Nat
  BY VaultAssumption

(* What is owed is a number, and moves with what one buyer is owed. *)
LEMMA OwedType ==
  ASSUME VaultTypes
  PROVE  Owed \in Int
<1> DEFINE left == [b \in Buyer |-> total[b] - released[b]]
<1>1. \A b \in Buyer : left[b] \in Int
  BY DEF VaultTypes
<1> HIDE DEF left
<1>2. SumFunctionOnSet(left, Buyer) \in Int
  BY <1>1, VaultConstants, SumRemove
<1>3. QED
  BY <1>2 DEF Owed, left

(* What is owed changes with the one buyer who is granted or paid. *)
LEMMA OwedChange ==
  ASSUME VaultTypes, NEW b \in Buyer,
         total' \in [Buyer -> Nat], released' \in [Buyer -> Nat],
         \A c \in Buyer \ {b} : total'[c] = total[c] /\ released'[c] = released[c]
  PROVE  Owed' = Owed + (total'[b] - total[b]) - (released'[b] - released[b])
<1> DEFINE left == [c \in Buyer |-> total[c] - released[c]]
           next == [c \in Buyer |-> total'[c] - released'[c]]
<1>1. total \in [Buyer -> Nat] /\ released \in [Buyer -> Nat]
  BY DEF VaultTypes
<1>2. left \in [Buyer -> Int] /\ next \in [Buyer -> Int]
  BY <1>1
<1>3. \A c \in Buyer \ {b} : next[c] = left[c]
  OBVIOUS
<1>4. left[b] = total[b] - released[b] /\ next[b] = total'[b] - released'[b]
  OBVIOUS
<1>5. Owed = SumFunctionOnSet(left, Buyer) /\ Owed' = SumFunctionOnSet(next, Buyer)
  BY DEF Owed
<1> HIDE DEF left, next
<1>6. /\ SumFunctionOnSet(left, Buyer) \in Int
      /\ SumFunctionOnSet(next, Buyer) = SumFunctionOnSet(left, Buyer) - left[b] + next[b]
  BY <1>2, <1>3, VaultConstants, SumUpdate
<1>7. total[b] \in Int /\ released[b] \in Int /\ total'[b] \in Int /\ released'[b] \in Int
  BY <1>1
<1>8. QED
  BY <1>4, <1>5, <1>6, <1>7

(* And with nothing else. *)
LEMMA OwedSame ==
  ASSUME total' = total, released' = released
  PROVE  Owed' = Owed
  BY DEF Owed

(* grant: what is sold is owed. *)
LEMMA GrantKeepsVault ==
  ASSUME VaultInv, NEW b \in Buyer, NEW amount \in Nat, NEW id, Grant(b, amount, id)
  PROVE  VaultInv'
<1>1. /\ mode' = mode /\ phase' = phase /\ paused' = paused /\ released' = released
      /\ funded' = funded /\ balance' = balance /\ swept' = swept
      /\ sold' = sold + amount /\ total' = [total EXCEPT ![b] = @ + amount]
      /\ phase = "open" /\ sold + amount <= Allocated
  BY DEF Grant, Grants, PublicGrants, PrivateGrants
<1>2. /\ total \in [Buyer -> Nat] /\ released \in [Buyer -> Nat] /\ sold \in Nat
      /\ balance \in Nat /\ swept \in Nat /\ VaultTypes
  BY DEF VaultInv, VaultTypes
<1>3. /\ total' \in [Buyer -> Nat] /\ total'[b] = total[b] + amount
      /\ \A c \in Buyer \ {b} : total'[c] = total[c]
  BY <1>1, <1>2
<1>4. Owed' = Owed + (total'[b] - total[b]) - (released'[b] - released[b])
  BY <1>1, <1>2, <1>3, OwedChange
<1>5. total[b] \in Nat /\ released[b] \in Nat /\ Owed \in Int
  BY <1>2, OwedType
<1>6. Owed' = Owed + amount
  BY <1>1, <1>3, <1>4, <1>5
<1>7. VaultTypes'
  BY <1>1, <1>2, <1>3 DEF VaultTypes
<1>8. balance + swept + (sold - Owed) + 0 = Funds /\ Escrowed' = 0 /\ Funds' = Funds
  BY <1>1 DEF VaultInv, Escrowed, Funds
<1>9. balance' + swept' + (sold' - Owed') + Escrowed' = Funds'
  BY <1>1, <1>2, <1>5, <1>6, <1>8
<1>10. QED
  BY <1>1, <1>7, <1>9 DEF VaultInv

(* releasePayment, claim: what is released is no longer owed. *)
LEMMA ReleaseKeepsVault ==
  ASSUME VaultInv, NEW b \in Buyer, Release(b)
  PROVE  VaultInv'
<1>1. PICK amount \in Releasable(b) :
        /\ balance >= amount
        /\ released' = [released EXCEPT ![b] = @ + amount]
        /\ balance' = balance - amount
  BY DEF Release
<1>2. /\ mode' = mode /\ phase' = phase /\ paused' = paused /\ sold' = sold /\ total' = total
      /\ funded' = funded /\ swept' = swept
  BY DEF Release
<1>3. /\ total \in [Buyer -> Nat] /\ released \in [Buyer -> Nat] /\ sold \in Nat
      /\ balance \in Nat /\ swept \in Nat /\ VaultTypes /\ mode \in {"private", "public"}
  BY DEF VaultInv, VaultTypes
<1>4. total[b] \in Nat /\ released[b] \in Nat
  BY <1>3
<1>5. amount \in Int /\ released[b] + amount \in Nat
  <2>1. CASE mode = "public"
    <3>1. amount = total[b] - released[b]
      BY <2>1 DEF Releasable
    <3>2. QED
      BY <3>1, <1>4
  <2>2. CASE mode # "public"
    <3>1. amount \in 1..(total[b] - released[b])
      BY <2>2 DEF Releasable
    <3>2. QED
      BY <3>1, <1>4
  <2>3. QED
    BY <2>1, <2>2
<1>6. /\ released' \in [Buyer -> Nat] /\ released'[b] = released[b] + amount
      /\ \A c \in Buyer \ {b} : released'[c] = released[c]
  BY <1>1, <1>3, <1>5
<1>7. Owed' = Owed + (total'[b] - total[b]) - (released'[b] - released[b])
  BY <1>2, <1>3, <1>6, OwedChange
<1>8. Owed \in Int
  BY <1>3, OwedType
<1>9. Owed' = Owed - amount
  BY <1>2, <1>4, <1>5, <1>6, <1>7, <1>8
<1>10. balance' \in Nat
  BY <1>1, <1>3, <1>5
<1>11. VaultTypes'
  BY <1>2, <1>3, <1>6, <1>10 DEF VaultTypes
<1>12. Escrowed' = Escrowed /\ Funds' = Funds /\ Escrowed \in Int
  BY <1>2, <1>3, VaultConstants DEF Escrowed, Funds
<1>13. balance' + swept' + (sold' - Owed') + Escrowed' = Funds'
  <2>1. balance + swept + (sold - Owed) + Escrowed = Funds
    BY DEF VaultInv
  <2>2. QED
    BY <2>1, <1>1, <1>2, <1>3, <1>5, <1>8, <1>9, <1>12
<1>14. QED
  BY <1>2, <1>11, <1>13 DEF VaultInv

(* Funding, opening, expiry, pausing, finalizing and sweeping leave alone    *)
(* what is sold and owed.                                                    *)
LEMMA AccountsKeepVault ==
  ASSUME VaultInv, Fund \/ Open \/ Expire \/ SetPaused \/ FinalizeToLp \/ SweepExcess
  PROVE  VaultInv'
<1>1. /\ mode' = mode /\ sold' = sold /\ total' = total /\ released' = released
  BY DEF Fund, Open, Expire, SetPaused, FinalizeToLp, SweepExcess
<1>2. /\ sold \in Nat /\ balance \in Nat /\ swept \in Nat /\ VaultTypes
      /\ Owed' = Owed /\ Owed \in Int /\ sold <= Allocated
      /\ balance + swept + (sold - Owed) + Escrowed = Funds
      /\ mode = "private" => phase # "final"
  BY <1>1, OwedSame, OwedType DEF VaultInv, VaultTypes
<1>3. Allocated \in Nat /\ LpSeed \in Nat /\ Buffer \in Nat
  BY VaultConstants
<1>4. CASE Fund
  <2>1. /\ funded = FALSE /\ funded' = TRUE /\ phase' = phase /\ paused' = paused
        /\ swept' = swept
        /\ balance' = balance + Allocated + IF mode = "public" THEN LpSeed + Buffer ELSE 0
    BY <1>2, <1>4 DEF Fund, VaultTypes
  <2>2. Escrowed' = Escrowed /\ Funds = 0 /\ Escrowed \in Int
    BY <2>1, <1>1, <1>2, <1>3 DEF Escrowed, Funds
  <2>3. Funds' = Allocated + (IF mode = "public" THEN LpSeed + Buffer ELSE 0)
    BY <2>1, <1>1 DEF Funds
  <2>4. balance' \in Nat
    BY <2>1, <1>2, <1>3
  <2>5. VaultTypes'
    BY <2>1, <2>4, <1>1, <1>2 DEF VaultTypes
  <2>6. balance' + swept' + (sold' - Owed') + Escrowed' = Funds'
    BY <2>1, <2>2, <2>3, <1>1, <1>2, <1>3
  <2>7. QED
    BY <2>1, <2>5, <2>6, <1>1, <1>2 DEF VaultInv
<1>5. CASE Open \/ Expire \/ SetPaused
  <2>1. /\ funded' = funded /\ balance' = balance /\ swept' = swept
        /\ phase' \in {phase, "open", "expired"} /\ (phase' # phase => phase \in {"set", "open"})
    BY <1>5 DEF Open, Expire, SetPaused
  <2>2. paused' \in BOOLEAN
    BY <1>2, <1>5 DEF Open, Expire, SetPaused, VaultTypes
  <2>3. Escrowed' = Escrowed /\ Funds' = Funds
    BY <2>1, <1>1 DEF Escrowed, Funds
  <2>4. VaultTypes'
    BY <2>1, <2>2, <1>1, <1>2 DEF VaultTypes
  <2>5. QED
    BY <2>1, <2>3, <2>4, <1>1, <1>2 DEF VaultInv
<1>6. CASE FinalizeToLp
  <2>1. /\ mode = "public" /\ phase # "final" /\ phase' = "final"
        /\ balance >= LpSeed + (Allocated - sold)
        /\ balance' = balance - (LpSeed + (Allocated - sold))
        /\ funded' = funded /\ swept' = swept /\ paused' = paused
    BY <1>6 DEF FinalizeToLp, ToLp
  <2>2. Escrowed = 0 /\ Escrowed' = LpSeed + (Allocated - sold) /\ Funds' = Funds
    BY <2>1, <1>1 DEF Escrowed, Funds
  <2>3. balance' \in Nat
    BY <2>1, <1>2, <1>3
  <2>4. VaultTypes'
    BY <2>1, <2>3, <1>1, <1>2 DEF VaultTypes
  <2>5. balance' + swept' + (sold' - Owed') + Escrowed' = Funds'
    BY <2>1, <2>2, <1>1, <1>2, <1>3
  <2>6. QED
    BY <2>1, <2>4, <2>5, <1>1, <1>2 DEF VaultInv
<1>7. CASE SweepExcess
  <2>1. PICK amount \in 1..balance : balance' = balance - amount /\ swept' = swept + amount
    BY <1>7 DEF SweepExcess
  <2>2. phase' = phase /\ funded' = funded /\ paused' = paused
    BY <1>7 DEF SweepExcess
  <2>3. balance' \in Nat /\ swept' \in Nat /\ balance' + swept' = balance + swept
    BY <2>1, <1>2
  <2>4. Escrowed' = Escrowed /\ Funds' = Funds
    BY <2>2, <1>1 DEF Escrowed, Funds
  <2>5. VaultTypes'
    BY <2>2, <2>3, <1>1, <1>2 DEF VaultTypes
  <2>6. QED
    BY <2>2, <2>3, <2>4, <2>5, <1>1, <1>2 DEF VaultInv
<1>8. QED
  BY <1>4, <1>5, <1>6, <1>7

(* The vault begins without funds. *)
LEMMA VaultInvInit == Init => VaultInv
<1> SUFFICES ASSUME VaultInit PROVE VaultInv
  BY DEF Init
<1> DEFINE left == [b \in Buyer |-> total[b] - released[b]]
<1>1. \A b \in Buyer : left[b] = 0
  BY DEF VaultInit
<1> HIDE DEF left
<1>2. SumFunctionOnSet(left, Buyer) = 0
  BY <1>1, VaultConstants, SumZero
<1>3. Owed = 0
  BY <1>2 DEF Owed, left
<1>4. mode \in {"private", "public"}
  BY VaultAssumption DEF VaultInit
<1>5. VaultTypes
  BY <1>4 DEF VaultInit, VaultTypes
<1>6. Escrowed = 0 /\ Funds = 0
  BY DEF VaultInit, Escrowed, Funds
<1>7. QED
  BY <1>3, <1>5, <1>6, VaultConstants DEF VaultInit, VaultInv

(* A call of the relayer is a grant of what was quoted, or leaves the vault  *)
(* alone.                                                                    *)
LEMMA SubmitKeepsVault ==
  ASSUME SaleInv, VaultInv, NEW run \in Runs,
         PaidFor(run.at, run.pay, quote, payments), Submit(run)
  PROVE  VaultInv'
<1>1. quote[run.at] \in Quotes
  BY InvFacts DEF PaidFor
<1>2. quote[run.at].buyer \in Buyer /\ quote[run.at].tokens \in Nat
  BY <1>1 DEF Quotes
<1>3. Grant(quote[run.at].buyer, quote[run.at].tokens, PaymentId(run.pay, run.log))
  BY DEF Submit
<1>4. QED
  BY <1>2, <1>3, GrantKeepsVault

(* Steps of the relayer alone leave the vault as it is. *)
LEMMA IdleKeepsVault ==
  ASSUME VaultInv, UNCHANGED vaultVars
  PROVE  VaultInv'
<1>1. /\ mode' = mode /\ phase' = phase /\ paused' = paused /\ sold' = sold
      /\ total' = total /\ released' = released /\ funded' = funded
      /\ balance' = balance /\ swept' = swept
  BY DEF vaultVars
<1>2. Owed' = Owed
  BY <1>1, OwedSame
<1>3. QED
  BY <1>1, <1>2 DEF VaultInv, VaultTypes, Escrowed, Funds

(* Every step keeps the accounts of the vault. *)
LEMMA VaultInvNext == SaleInv /\ VaultInv /\ [Next]_vars => VaultInv'
<1> SUFFICES ASSUME SaleInv, VaultInv, [Next]_vars
             PROVE  VaultInv'
  OBVIOUS
<1>1. CASE VaultNext
  BY <1>1, AccountsKeepVault, ReleaseKeepsVault DEF VaultNext
<1>2. ASSUME NEW run \in Runs, run.pc = "grant",
             RunOk(run, quote, payments, credits), Submit(run) \/ Fails(run)
      PROVE  VaultInv'
  <2>1. PaidFor(run.at, run.pay, quote, payments)
    BY <1>2 DEF RunOk, Known
  <2>2. Submit(run) \/ UNCHANGED vaultVars
    BY <1>2 DEF Fails
  <2>3. QED
    BY <2>1, <2>2, SubmitKeepsVault, IdleKeepsVault
<1>3. CASE TickGrants \/ TickFails
  <2>1. watcher \in Runs /\ RunOk(watcher, quote, payments, credits)
    BY InvFacts, Untouched
  <2>2. watcher.pc = "grant" /\ (Submit(watcher) \/ Fails(watcher))
    BY <1>3 DEF TickGrants, TickFails
  <2>3. QED
    BY <1>2, <2>1, <2>2
<1>4. CASE ConfirmGrants \/ ConfirmFails
  <2>1. manual \in Runs /\ RunOk(manual, quote, payments, credits)
    BY InvFacts, Untouched
  <2>2. manual.pc = "grant" /\ (Submit(manual) \/ Fails(manual))
    BY <1>4 DEF ConfirmGrants, ConfirmFails
  <2>3. QED
    BY <1>2, <2>1, <2>2
<1>5. VaultNext \/ TickGrants \/ TickFails \/ ConfirmGrants \/ ConfirmFails \/ UNCHANGED vaultVars
  BY DEF Next, vars, CreateIntent, WebLoads, WebSaves, Pay, Settle, Confirm, Watch,
         TickLoads, TickScans, TickSaves, Operate, ConfirmSaves, Crash
<1>6. QED
  BY <1>1, <1>3, <1>4, <1>5, IdleKeepsVault

(* A funded vault can always pay all it owes and, before the public sale is  *)
(* finalized, all it may still sell and the escrow's seed.                   *)
THEOREM VaultSolvent == Spec => []Solvent
<1>1. VaultInv => Solvent
  <2>1. SUFFICES ASSUME VaultInv, funded
                 PROVE  balance + swept >= Owed + Reserved
    BY DEF Solvent
  <2>2. /\ sold \in Nat /\ balance \in Nat /\ swept \in Nat /\ Owed \in Int /\ sold <= Allocated
        /\ mode \in {"private", "public"} /\ (mode = "private" => phase # "final")
        /\ balance + swept + (sold - Owed) + Escrowed = Funds
    BY <2>1, OwedType DEF VaultInv, VaultTypes
  <2>3. Allocated \in Nat /\ LpSeed \in Nat /\ Buffer \in Nat
    BY VaultConstants
  <2>4. CASE mode = "private"
    <3>1. Escrowed = 0 /\ Funds = Allocated + 0 /\ Reserved = 0
      BY <2>1, <2>2, <2>4 DEF Escrowed, Funds, Reserved
    <3>2. QED
      BY <3>1, <2>2, <2>3
  <2>5. CASE mode = "public" /\ phase = "final"
    <3>1. /\ Escrowed = LpSeed + (Allocated - sold)
          /\ Funds = Allocated + (LpSeed + Buffer) /\ Reserved = 0
      BY <2>1, <2>5 DEF Escrowed, Funds, Reserved
    <3>2. QED
      BY <3>1, <2>2, <2>3
  <2>6. CASE mode = "public" /\ phase # "final"
    <3>1. /\ Escrowed = 0 /\ Funds = Allocated + (LpSeed + Buffer)
          /\ Reserved = LpSeed + Allocated - sold
      BY <2>1, <2>6 DEF Escrowed, Funds, Reserved
    <3>2. QED
      BY <3>1, <2>2, <2>3
  <2>7. QED
    BY <2>2, <2>4, <2>5, <2>6
<1>2. QED
  BY <1>1, SaleInvHolds, VaultInvInit, VaultInvNext, PTL DEF Spec

=============================================================================
