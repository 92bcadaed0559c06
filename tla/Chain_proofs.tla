----------------------------- MODULE Chain_proofs -----------------------------
(***************************************************************************)
(* Proofs about Chain for every set of branches, every window, snapshot    *)
(* interval and bound: memory, disk, state and anchor of a running node    *)
(* agree after any sequence of blocks, reorgs, crashes and boots, and      *)
(* again after a reorg the disk refused once another is adopted or the     *)
(* node restarts; a finished snapshot writer leaves no snapshot of an      *)
(* abandoned branch; and no step takes a settled block from the disk.      *)
(***************************************************************************)
EXTENDS Chain, TLAPS

-----------------------------------------------------------------------------
(* Facts about sequences and their prefixes. *)

(* Sequences of one length with the same elements are the same sequence. *)
LEMMA SameSequence ==
  ASSUME NEW S, NEW p \in Seq(S), NEW q \in Seq(S), Len(p) = Len(q),
         \A i \in 1..Len(p) : p[i] = q[i]
  PROVE  p = q
  OBVIOUS

(* A segment of a sequence has the sequence's elements. *)
LEMMA SegmentFacts ==
  ASSUME NEW S, NEW c \in Seq(S), NEW a \in Nat, NEW b \in Nat, b <= Len(c), a <= b
  PROVE  /\ SubSeq(c, a + 1, b) \in Seq(S)
         /\ Len(SubSeq(c, a + 1, b)) = b - a
         /\ \A i \in 1..(b - a) : SubSeq(c, a + 1, b)[i] = c[a + i]
  OBVIOUS

(* Concatenation puts the second sequence after the first. *)
LEMMA ConcatFacts ==
  ASSUME NEW S, NEW p \in Seq(S), NEW q \in Seq(S)
  PROVE  /\ p \o q \in Seq(S)
         /\ Len(p \o q) = Len(p) + Len(q)
         /\ \A i \in 1..Len(p) : (p \o q)[i] = p[i]
         /\ \A i \in 1..Len(q) : (p \o q)[Len(p) + i] = q[i]
  OBVIOUS

(* A prefix has the sequence's elements. *)
LEMMA UptoFacts ==
  ASSUME NEW S, NEW c \in Seq(S), NEW h \in Nat, h <= Len(c)
  PROVE  /\ Upto(c, h) \in Seq(S)
         /\ Len(Upto(c, h)) = h
         /\ \A i \in 1..h : Upto(c, h)[i] = c[i]
  BY DEF Upto

(* The whole sequence is its longest prefix, and the empty one the shortest. *)
LEMMA UptoEnds ==
  ASSUME NEW S, NEW c \in Seq(S)
  PROVE  Upto(c, Len(c)) = c /\ Upto(c, 0) = <<>>
<1>1. Len(c) \in Nat /\ <<>> \in Seq(S) /\ Len(<<>>) = 0
  OBVIOUS
<1>2. Upto(c, Len(c)) = c
  BY <1>1, UptoFacts, SameSequence
<1>3. Upto(c, 0) = <<>>
  BY DEF Upto
<1>4. QED
  BY <1>2, <1>3

(* Nothing comes before the first of its sequences. *)
LEMMA EmptyConcat ==
  ASSUME NEW S, NEW s \in Seq(S)
  PROVE  <<>> \o s = s
<1>1. <<>> \in Seq(S) /\ Len(<<>>) = 0
  OBVIOUS
<1>2. QED
  BY <1>1, ConcatFacts, SameSequence

(* Executing the blocks between two heights on the state at the lower one   *)
(* gives the state at the higher one.                                       *)
LEMMA UptoJoin ==
  ASSUME NEW S, NEW c \in Seq(S), NEW a \in Nat, NEW b \in Nat, a <= b, b <= Len(c)
  PROVE  Upto(c, a) \o SubSeq(c, a + 1, b) = Upto(c, b)
<1> DEFINE p == Upto(c, a)
           q == SubSeq(c, a + 1, b)
           r == Upto(c, b)
<1>1. p \in Seq(S) /\ Len(p) = a /\ \A i \in 1..a : p[i] = c[i]
  BY UptoFacts
<1>2. q \in Seq(S) /\ Len(q) = b - a /\ \A i \in 1..(b - a) : q[i] = c[a + i]
  BY SegmentFacts
<1>3. r \in Seq(S) /\ Len(r) = b /\ \A i \in 1..b : r[i] = c[i]
  BY UptoFacts
<1> HIDE DEF p, q, r
<1>p. p \in Seq(S) /\ q \in Seq(S)
  BY <1>1, <1>2
<1>4. /\ p \o q \in Seq(S)
      /\ Len(p \o q) = Len(p) + Len(q)
      /\ \A i \in 1..Len(p) : (p \o q)[i] = p[i]
      /\ \A i \in 1..Len(q) : (p \o q)[Len(p) + i] = q[i]
  BY <1>p, ConcatFacts
<1>5. Len(p \o q) = b
  BY <1>1, <1>2, <1>4
<1>6. \A i \in 1..b : (p \o q)[i] = r[i]
  <2>1. TAKE i \in 1..b
  <2>2. CASE i <= a
    <3>1. i \in 1..Len(p) /\ i \in 1..a
      BY <2>2, <1>1
    <3>2. (p \o q)[i] = p[i] /\ p[i] = c[i] /\ r[i] = c[i]
      BY <3>1, <1>1, <1>3, <1>4, Zenon
    <3>3. QED
      BY <3>2
  <2>3. CASE i > a
    <3>1. i - a \in 1..(b - a) /\ a + (i - a) = i
      BY <2>3
    <3>2. (p \o q)[a + (i - a)] = q[i - a]
      BY <3>1, <1>1, <1>2, <1>4
    <3>3. q[i - a] = c[a + (i - a)]
      BY <3>1, <1>2
    <3>4. QED
      BY <3>1, <3>2, <3>3, <1>3
  <2>4. i <= a \/ i > a
    OBVIOUS
  <2>5. QED
    BY <2>2, <2>3, <2>4
<1>7. p \o q = r
  BY <1>3, <1>4, <1>5, <1>6, SameSequence
<1>8. QED
  BY <1>7 DEF p, q, r

(* Executing the rest of the chain gives the state of its head. *)
LEMMA UptoRest ==
  ASSUME NEW S, NEW c \in Seq(S), NEW a \in Nat, a <= Len(c)
  PROVE  Upto(c, a) \o SubSeq(c, a + 1, Len(c)) = c
<1>1. \A m \in Nat : a <= m /\ m <= Len(c)
         => Upto(c, a) \o SubSeq(c, a + 1, m) = Upto(c, m)
  BY UptoJoin
<1>2. Len(c) \in Nat /\ Len(c) <= Len(c) /\ Upto(c, Len(c)) = c
  BY UptoEnds
<1>3. QED
  BY <1>1, <1>2, Zenon

(* Chains with the same blocks up to a height have the same prefix. *)
LEMMA UptoAgree ==
  ASSUME NEW S, NEW c \in Seq(S), NEW d \in Seq(S), NEW h \in Nat,
         h <= Len(c), h <= Len(d), \A i \in 1..h : c[i] = d[i]
  PROVE  Upto(c, h) = Upto(d, h)
  BY UptoFacts, SameSequence

(* Chains that agree up to a height agree up to every lower one. *)
LEMMA UptoLower ==
  ASSUME NEW S, NEW c \in Seq(S), NEW d \in Seq(S), NEW h \in Nat, NEW k \in Nat,
         k <= h, h <= Len(c), h <= Len(d), Upto(c, h) = Upto(d, h)
  PROVE  Upto(c, k) = Upto(d, k)
<1>1. \A i \in 1..k : c[i] = d[i]
  <2>1. TAKE i \in 1..k
  <2>2. i \in 1..h
    OBVIOUS
  <2>3. QED
    BY <2>2, UptoFacts
<1>2. k <= Len(c) /\ k <= Len(d)
  OBVIOUS
<1>3. QED
  BY <1>1, <1>2, UptoAgree

-----------------------------------------------------------------------------
(* The inductive invariant. *)

Block == Branch \cup {Stray}

(* The blocks of c up to height h all follow from one another. *)
Clear(c, h) == \A i \in 1..h : c[i] # Stray

Snaps == [head : Seq(Block), state : Seq(Block), start : Nat, base : Seq(Block)]

Jobs == [phase : {"idle", "mount", "write", "recheck"}, epoch : Nat, snap : Snaps]

ChainTypes == /\ mem \in Seq(Block) /\ state \in Seq(Block)
              /\ base \in Seq(Block) /\ disk \in Seq(Block)
              /\ start \in Nat /\ epoch \in Nat /\ ultimo \in Nat
              /\ crashes \in Nat /\ refusals \in Nat
              /\ up \in BOOLEAN /\ refused \in BOOLEAN
              /\ snap \in Snaps /\ job \in Jobs

(* The state below a window of chain c that starts at height st: genesis is  *)
(* still in the window when st is 0, and nothing is below it.                *)
AnchorOf(c, st) == IF st = 0 THEN <<>> ELSE Upto(c, st - 1)

(* A snapshot from before the window moved has an empty anchor: a fast boot  *)
(* proves no other property of it, and relies on this one.                   *)
SnapAnchored(s) == s.start = 0 => s.base = <<>>

(* The anchor of a running node is right and the file as long as its chain,  *)
(* also after a refused reorg: that only cuts the chain, so the state is     *)
(* that of the chain or of a longer one.                                     *)
Running == /\ start <= Len(mem) + 1
           /\ base = AnchorOf(mem, start)
           /\ Len(mem) <= Len(disk)
           /\ state = mem \/ Len(mem) < Len(state)

(* Nothing is refused, or it is made good. *)
Agreeing == mem = disk /\ state = mem /\ Clear(mem, Len(mem))

(* What a running node has, and what it leaves on disk and to the writer. *)
NodeInv == /\ ChainTypes
           /\ up => Running /\ (~refused => Agreeing)
           /\ SnapAnchored(snap) /\ SnapAnchored(job.snap)

(* A snapshot no higher than the last one the node remembers, and of the     *)
(* chain the node is on as far as both go: a reorg that keeps the latter     *)
(* keeps the former.                                                         *)
OfChain(s) ==
  /\ Len(s.head) <= ultimo
  /\ \A k \in Nat : k <= Len(s.head) /\ k <= Len(mem) /\ Clear(mem, k)
                      => Upto(s.head, k) = Upto(mem, k)

(* The snapshots of a node that never died.  A writer whose epoch is current *)
(* holds one of the chain; so does the disk, or the writer will find at its  *)
(* second look that its epoch has passed.                                    *)
SnapsOfChain == /\ up
                /\ state = mem => ultimo <= Len(mem)
                /\ job.phase # "idle" /\ job.epoch = epoch => OfChain(job.snap)
                /\ \/ snap = NoSnap \/ OfChain(snap)
                   \/ job.phase = "recheck" /\ job.epoch # epoch

SnapInv == /\ job.epoch <= epoch
           /\ crashes = 0 => SnapsOfChain

-----------------------------------------------------------------------------
(* The window slides over a chain that keeps the blocks below it: the anchor *)
(* stays the state below the window.                                         *)
LEMMA SlideKeepsAnchor ==
  ASSUME ChainTypes, start <= Len(mem) + 1, base = AnchorOf(mem, start),
         NEW c \in Seq(Block), NEW h \in Nat,
         h <= Len(mem), h <= Len(c), start <= h + 1, Upto(mem, h) = Upto(c, h)
  PROVE  /\ SlidStart(c) \in Nat
         /\ SlidStart(c) <= Len(c) + 1
         /\ SlidBase(c) = AnchorOf(c, SlidStart(c))
         /\ SlidBase(c) \in Seq(Block)
<1> DEFINE st == SlidStart(c)
<1>1. /\ start \in Nat /\ Len(c) \in Nat /\ Window \in Nat /\ Window > 0
  BY ChainAssumption DEF ChainTypes
<1>2. st \in Nat /\ st <= Len(c) + 1 /\ start <= st
  BY <1>1 DEF SlidStart, Higher
<1> HIDE DEF st
<1>3. SlidBase(c) = base \o SubSeq(c, Higher(start, 1), st - 1)
  BY DEF SlidBase, st
<1>4. SlidBase(c) = AnchorOf(c, st)
  <2>1. CASE start = 0 /\ st = 0
    <3>1. base = <<>> /\ SubSeq(c, 1, st - 1) = <<>>
      BY <2>1 DEF AnchorOf
    <3>2. Higher(start, 1) = 1
      BY <2>1 DEF Higher
    <3>3. <<>> \o <<>> = <<>>
      OBVIOUS
    <3>4. QED
      BY <1>3, <3>1, <3>2, <3>3, <2>1 DEF AnchorOf
  <2>2. CASE start = 0 /\ st > 0
    <3>1. base = <<>> /\ Higher(start, 1) = 1
      BY <2>2 DEF AnchorOf, Higher
    <3>2. st - 1 \in Nat /\ st - 1 <= Len(c)
      BY <2>2, <1>1, <1>2
    <3>3. <<>> \o Upto(c, st - 1) = Upto(c, st - 1)
      BY <3>2, UptoFacts, EmptyConcat
    <3>4. SubSeq(c, 1, st - 1) = Upto(c, st - 1)
      BY DEF Upto
    <3>5. QED
      BY <1>3, <3>1, <3>3, <3>4, <2>2, <1>2 DEF AnchorOf
  <2>3. CASE start > 0
    <3>1. start - 1 \in Nat /\ st - 1 \in Nat /\ start - 1 <= st - 1 /\ st - 1 <= Len(c)
      BY <2>3, <1>1, <1>2
    <3>2. base = Upto(mem, start - 1) /\ Higher(start, 1) = (start - 1) + 1
      BY <2>3, <1>1 DEF AnchorOf, Higher
    <3>3. Upto(mem, start - 1) = Upto(c, start - 1)
      <4>1. mem \in Seq(Block) /\ start - 1 <= h
        BY <1>1 DEF ChainTypes
      <4>2. QED
        BY <4>1, <3>1, UptoLower
    <3>4. Upto(c, start - 1) \o SubSeq(c, (start - 1) + 1, st - 1) = Upto(c, st - 1)
      BY <3>1, UptoJoin
    <3>5. st # 0
      BY <2>3, <1>1, <1>2
    <3>6. QED
      BY <1>3, <3>2, <3>3, <3>4, <3>5 DEF AnchorOf
  <2>4. QED
    BY <2>1, <2>2, <2>3, <1>1, <1>2
<1>5. AnchorOf(c, st) \in Seq(Block)
  <2>1. CASE st = 0
    BY <2>1 DEF AnchorOf
  <2>2. CASE st # 0
    <3>1. st - 1 \in Nat /\ st - 1 <= Len(c)
      BY <2>2, <1>1, <1>2
    <3>2. QED
      BY <2>2, <3>1, UptoFacts DEF AnchorOf
  <2>3. QED
    BY <2>1, <2>2
<1>6. QED
  BY <1>2, <1>4, <1>5 DEF st

-----------------------------------------------------------------------------
(* Facts the actions share. *)

(* No snapshot, and no writer, satisfy what is asked of them. *)
LEMMA NoSnapFacts ==
  NoSnap \in Snaps /\ SnapAnchored(NoSnap) /\ NoJob \in Jobs /\ NoJob.snap = NoSnap
<1>1. <<>> \in Seq(Block)
  OBVIOUS
<1>2. NoSnap \in Snaps /\ NoSnap.base = <<>>
  BY <1>1 DEF NoSnap, Snaps
<1>3. NoJob \in Jobs /\ NoJob.snap = NoSnap
  BY <1>2 DEF NoJob, Jobs
<1>4. QED
  BY <1>2, <1>3 DEF SnapAnchored

(* A reorg's new chain is the window's up to the fork and the new blocks     *)
(* from there, in memory and in the executed state; and in the file when     *)
(* that still had the chain up to the fork.                                  *)
LEMMA ReorgFacts ==
  ASSUME NodeInv, NEW common \in 0..MaxHeight, NEW n \in 1..(MaxHeight - common),
         NEW new \in [1..n -> Branch], CanReorg(common, new)
  PROVE  LET c == Upto(mem, common) \o new
         IN  /\ common \in Nat /\ n \in Nat /\ new \in Seq(Block) /\ Len(new) = n
             /\ common <= Len(mem) /\ common <= Len(disk) /\ start <= common
             /\ Clear(mem, common)
             /\ c \in Seq(Block) /\ Len(c) = common + n /\ Len(mem) < Len(c)
             /\ Upto(c, common) = Upto(mem, common) /\ Clear(c, Len(c))
             /\ ForkState(common) \o new = c
             /\ Upto(disk, common) = Upto(mem, common) => Rewritten(common, new, n) = c
<1> DEFINE p == Upto(mem, common)
           c == p \o new
<1>1. common \in Nat /\ n \in Nat /\ n >= 1
  BY ChainAssumption
<1>2. new \in Seq(Branch) /\ Len(new) = n
  BY <1>1
<1>3. new \in Seq(Block) /\ \A i \in 1..n : new[i] \in Branch /\ new[i] # Stray
  BY <1>1, <1>2, ChainAssumption DEF Block
<1>4. /\ mem \in Seq(Block) /\ disk \in Seq(Block) /\ start \in Nat
      /\ Len(mem) \in Nat /\ Len(disk) \in Nat /\ Len(mem) <= Len(disk)
  BY DEF NodeInv, ChainTypes, CanReorg, CanFork, Running
<1>5. /\ common <= Len(mem) /\ start <= common /\ Clear(mem, common)
      /\ common + n > Len(mem) /\ ForkState(common) = p
  BY <1>1, <1>2, <1>4 DEF CanReorg, CanFork, InWindow, GetBlock, Clear
<1>6. p \in Seq(Block) /\ Len(p) = common /\ \A i \in 1..common : p[i] = mem[i]
  BY <1>1, <1>4, <1>5, UptoFacts
<1> HIDE DEF p
<1>7. /\ c \in Seq(Block) /\ Len(c) = common + n
      /\ \A i \in 1..common : c[i] = p[i]
      /\ \A i \in 1..n : c[common + i] = new[i]
  <2>1. /\ c \in Seq(Block) /\ Len(c) = Len(p) + Len(new)
        /\ \A i \in 1..Len(p) : c[i] = p[i]
        /\ \A i \in 1..Len(new) : c[Len(p) + i] = new[i]
    <3>1. p \in Seq(Block) /\ new \in Seq(Block)
      BY <1>3, <1>6
    <3>2. QED
      BY <3>1, ConcatFacts
  <2>2. QED
    BY <2>1, <1>2, <1>6
<1> HIDE DEF c
<1>8. Upto(c, common) = Upto(mem, common)
  <2>1. common <= Len(c) /\ \A i \in 1..common : c[i] = mem[i]
    BY <1>1, <1>6, <1>7
  <2>2. QED
    BY <2>1, <1>1, <1>4, <1>5, <1>7, UptoAgree
<1>9. Clear(c, Len(c))
  <2>1. SUFFICES ASSUME NEW i \in 1..(common + n)
                 PROVE  c[i] # Stray
    BY <1>7 DEF Clear
  <2>2. CASE i <= common
    <3>1. i \in 1..common
      BY <2>2, <1>1
    <3>2. QED
      BY <3>1, <1>5, <1>6, <1>7 DEF Clear
  <2>3. CASE i > common
    <3>1. i - common \in 1..n /\ common + (i - common) = i
      BY <2>3, <1>1
    <3>2. c[common + (i - common)] = new[i - common]
      BY <3>1, <1>7
    <3>3. QED
      BY <3>1, <3>2, <1>3
  <2>4. QED
    BY <2>2, <2>3, <1>1
<1>10. Upto(new, n) = new
  BY <1>2, <1>3, UptoEnds
<1>11. Upto(disk, common) = Upto(mem, common) => Rewritten(common, new, n) = c
  BY <1>10 DEF Rewritten, c, p
<1>12. common <= Len(disk)
  BY <1>1, <1>4, <1>5
<1>13. Len(mem) < Len(c)
  BY <1>1, <1>4, <1>5, <1>7
<1>14. ForkState(common) \o new = c
  BY <1>5 DEF c
<1>15. QED
  BY <1>1, <1>2, <1>3, <1>5, <1>7, <1>8, <1>9, <1>11, <1>12, <1>13, <1>14 DEF c, p

(* The file of a reorg that got k blocks in keeps what is below the fork. *)
LEMMA RewritingKeeps ==
  ASSUME NodeInv, NEW common \in 0..MaxHeight, NEW n \in 1..(MaxHeight - common),
         NEW new \in [1..n -> Branch], CanReorg(common, new), NEW k \in 0..n
  PROVE  /\ Rewritten(common, new, k) \in Seq(Block)
         /\ Len(Rewritten(common, new, k)) = common + k
         /\ \A i \in 1..common : Rewritten(common, new, k)[i] = disk[i]
<1>1. /\ common \in Nat /\ n \in Nat /\ new \in Seq(Block) /\ Len(new) = n
      /\ common <= Len(disk) /\ disk \in Seq(Block)
  BY ReorgFacts DEF NodeInv, ChainTypes
<1>2. k \in Nat /\ k <= n
  BY <1>1
<1> DEFINE q == IF Upto(disk, common) = Upto(mem, common)
                THEN Upto(new, k) ELSE [i \in 1..k |-> Stray]
<1>3. Upto(new, k) \in Seq(Block) /\ Len(Upto(new, k)) = k
  BY <1>1, <1>2, UptoFacts
<1>4. [i \in 1..k |-> Stray] \in Seq(Block) /\ Len([i \in 1..k |-> Stray]) = k
  BY <1>2 DEF Block
<1>5. q \in Seq(Block) /\ Len(q) = k
  BY <1>3, <1>4
<1>6. /\ Upto(disk, common) \in Seq(Block) /\ Len(Upto(disk, common)) = common
      /\ \A i \in 1..common : Upto(disk, common)[i] = disk[i]
  BY <1>1, UptoFacts
<1>7. Rewritten(common, new, k) = Upto(disk, common) \o q
  BY DEF Rewritten
<1> HIDE DEF q
<1>8. /\ Upto(disk, common) \o q \in Seq(Block)
      /\ Len(Upto(disk, common) \o q) = Len(Upto(disk, common)) + Len(q)
      /\ \A i \in 1..Len(Upto(disk, common)) :
           (Upto(disk, common) \o q)[i] = Upto(disk, common)[i]
  BY <1>5, <1>6, ConcatFacts
<1>9. QED
  BY <1>5, <1>6, <1>7, <1>8

-----------------------------------------------------------------------------
(* Every action keeps the invariant of the node. *)

(* add_block and produce_block. *)
LEMMA CommitKeepsNode ==
  ASSUME NodeInv, NEW b \in Block, Commit(b), state = mem => b # Stray
  PROVE  NodeInv'
<1> DEFINE c == Append(mem, b)
<1>1. /\ up /\ Running /\ mem \in Seq(Block) /\ disk \in Seq(Block) /\ state \in Seq(Block)
      /\ start <= Len(mem) + 1 /\ base = AnchorOf(mem, start)
      /\ Len(mem) <= Len(disk) /\ (state = mem \/ Len(mem) < Len(state))
      /\ snap \in Snaps /\ job \in Jobs /\ ChainTypes
  BY DEF NodeInv, ChainTypes, Commit, Running
<1>2. c \in Seq(Block) /\ Len(c) = Len(mem) + 1 /\ \A i \in 1..Len(mem) : c[i] = mem[i]
  BY <1>1
<1>3. c[Len(mem) + 1] = b
  BY <1>1
<1>4. mem' = c /\ state' = Append(state, b) /\ start' = SlidStart(c) /\ base' = SlidBase(c)
  BY DEF Commit, c
<1>5. disk' = Append(disk, IF disk = mem THEN b ELSE Stray)
  BY DEF Commit
<1> HIDE DEF c
<1>6. Len(mem) \in Nat /\ Len(mem) <= Len(c)
  BY <1>1, <1>2
<1>7. Upto(mem, Len(mem)) = Upto(c, Len(mem))
  BY <1>1, <1>2, <1>6, UptoAgree
<1>8. /\ start' \in Nat /\ start' <= Len(c) + 1
      /\ base' = AnchorOf(c, start') /\ base' \in Seq(Block)
  BY <1>1, <1>2, <1>4, <1>6, <1>7, SlideKeepsAnchor
<1>9. /\ snap' = snap /\ epoch' = epoch /\ up' = up /\ crashes' = crashes
      /\ refusals' = refusals /\ refused' = refused
  BY DEF Commit, faults
<1>10. /\ disk' \in Seq(Block) /\ Len(disk') = Len(disk) + 1
       /\ state' \in Seq(Block) /\ Len(state') = Len(state) + 1
  <2>1. (IF disk = mem THEN b ELSE Stray) \in Block
    BY DEF Block
  <2>2. QED
    BY <2>1, <1>1, <1>4, <1>5
<1>11. job' \in Jobs /\ SnapAnchored(job'.snap) /\ ultimo' \in Nat
  <2>1. CASE UNCHANGED <<job, ultimo>>
    BY <2>1 DEF NodeInv, ChainTypes
  <2>2. CASE /\ job' = [phase |-> "mount", epoch |-> epoch, snap |-> Snapshot]
             /\ ultimo' = Len(mem')
    <3>1. Snapshot \in Snaps /\ SnapAnchored(Snapshot)
      BY <1>2, <1>4, <1>8, <1>10 DEF Snapshot, Snaps, SnapAnchored, AnchorOf
    <3>2. QED
      BY <2>2, <3>1, <1>2, <1>4 DEF Jobs, NodeInv, ChainTypes
  <2>3. QED
    BY <2>1, <2>2 DEF Commit, TalvezSnapshot
<1>12. ChainTypes'
  BY <1>2, <1>4, <1>8, <1>9, <1>10, <1>11, <1>1 DEF ChainTypes
<1>13. Running'
  <2>1. Len(mem') <= Len(disk')
    BY <1>1, <1>2, <1>4, <1>10
  <2>2. CASE state = mem
    BY <2>1, <2>2, <1>4, <1>8 DEF Running, c
  <2>3. CASE Len(mem) < Len(state)
    <3>1. Len(mem') < Len(state')
      BY <2>3, <1>1, <1>2, <1>4, <1>10
    <3>2. QED
      BY <2>1, <3>1, <1>4, <1>8 DEF Running
  <2>4. QED
    BY <2>2, <2>3, <1>1
<1>14. ASSUME ~refused'
       PROVE  Agreeing'
  <2>1. mem = disk /\ state = mem /\ Clear(mem, Len(mem)) /\ b # Stray
    BY <1>1, <1>9, <1>14 DEF NodeInv, Agreeing
  <2>2. disk' = c /\ state' = c
    BY <2>1, <1>4, <1>5 DEF c
  <2>3. Clear(c, Len(c))
    <3>1. \A i \in 1..Len(c) : i \in 1..Len(mem) \/ i = Len(mem) + 1
      BY <1>2, <1>6
    <3>2. QED
      BY <3>1, <2>1, <1>2, <1>3 DEF Clear
  <2>4. QED
    BY <2>2, <2>3, <1>4 DEF Agreeing
<1>15. SnapAnchored(snap')
  BY <1>9 DEF NodeInv
<1>16. QED
  BY <1>11, <1>12, <1>13, <1>14, <1>15 DEF NodeInv

(* What add_block takes, and what produce_block makes of a right state, is   *)
(* not stray.                                                                *)
LEMMA AddedBlocks ==
  ASSUME NodeInv, NEW b \in Branch, AddBlock(b) \/ ProduceBlock(b)
  PROVE  \E x \in Block : Commit(x) /\ (x = Stray <=> state # mem)
<1>1. b \in Block /\ b # Stray /\ Stray \in Block
  BY ChainAssumption DEF Block
<1>2. CASE AddBlock(b)
  <2>1. Append(state, b) = Append(mem, b) /\ Commit(b)
    BY <1>2 DEF AddBlock
  <2>2. state = mem
    <3>1. state \in Seq(Block) /\ mem \in Seq(Block)
      BY DEF NodeInv, ChainTypes
    <3>2. Len(state) = Len(mem)
      <4>1. Len(Append(state, b)) = Len(state) + 1 /\ Len(Append(mem, b)) = Len(mem) + 1
        BY <3>1, <1>1
      <4>2. Len(state) \in Nat /\ Len(mem) \in Nat
        BY <3>1
      <4>3. QED
        BY <4>1, <4>2, <2>1
    <3>3. \A i \in 1..Len(state) : state[i] = mem[i]
      <4>1. TAKE i \in 1..Len(state)
      <4>2. Append(state, b)[i] = state[i] /\ Append(mem, b)[i] = mem[i]
        BY <3>1, <3>2, <1>1
      <4>3. QED
        BY <4>2, <2>1
    <3>4. QED
      BY <3>1, <3>2, <3>3, SameSequence
  <2>3. QED
    BY <1>1, <2>1, <2>2
<1>3. CASE ProduceBlock(b)
  BY <1>1, <1>3 DEF ProduceBlock
<1>4. QED
  BY <1>2, <1>3

(* reorg, adopted. *)
LEMMA ReorgKeepsNode ==
  ASSUME NodeInv, NEW common \in 0..MaxHeight, NEW n \in 1..(MaxHeight - common),
         NEW new \in [1..n -> Branch], Reorg(common, new)
  PROVE  NodeInv'
<1> DEFINE c == Upto(mem, common) \o new
<1>0. CanReorg(common, new) /\ up
  BY DEF Reorg, CanReorg, CanFork
<1>1. /\ common \in Nat /\ n \in Nat /\ new \in Seq(Block) /\ Len(new) = n
      /\ common <= Len(mem) /\ common <= Len(disk) /\ start <= common
      /\ c \in Seq(Block) /\ Len(c) = common + n /\ Len(mem) < Len(c)
      /\ Upto(c, common) = Upto(mem, common) /\ Clear(c, Len(c))
      /\ ForkState(common) \o new = c
      /\ Upto(disk, common) = Upto(mem, common) => Rewritten(common, new, n) = c
  BY <1>0, ReorgFacts
<1>2. /\ mem' = c /\ state' = c /\ disk' = Rewritten(common, new, n)
      /\ start' = SlidStart(c) /\ base' = SlidBase(c)
  BY <1>1 DEF Reorg
<1> HIDE DEF c
<1>3. /\ ChainTypes /\ mem \in Seq(Block) /\ start \in Nat /\ Len(mem) \in Nat
      /\ start <= Len(mem) + 1 /\ base = AnchorOf(mem, start)
  BY <1>0 DEF NodeInv, ChainTypes, Running
<1>4. /\ start' \in Nat /\ start' <= Len(c) + 1
      /\ base' = AnchorOf(c, start') /\ base' \in Seq(Block)
  <2>1. common <= Len(c) /\ start <= common + 1
    BY <1>1, <1>3
  <2>2. QED
    BY <2>1, <1>1, <1>2, <1>3, SlideKeepsAnchor
<1>5. disk' \in Seq(Block) /\ Len(disk') = common + n
  <2>1. n \in 0..n
    BY <1>1
  <2>2. QED
    BY <2>1, <1>0, <1>2, RewritingKeeps
<1>6. /\ snap' = snap \/ snap' = NoSnap
      /\ epoch' = epoch \/ epoch' = epoch + 1
      /\ ultimo' = ultimo \/ ultimo' = 0
      /\ job' = job /\ up' = up /\ crashes' = crashes /\ refusals' = refusals
  BY DEF Reorg, Invalidate
<1>7. refused' = (refused /\ Upto(disk, common) # Upto(mem, common))
  BY DEF Reorg
<1>8. snap' \in Snaps /\ SnapAnchored(snap') /\ epoch' \in Nat /\ ultimo' \in Nat
  BY <1>3, <1>6, NoSnapFacts DEF NodeInv, ChainTypes
<1>9. refused' \in BOOLEAN
  BY <1>7, Zenon
<1>10. ChainTypes'
  <2>1. /\ mem' \in Seq(Block) /\ state' \in Seq(Block) /\ base' \in Seq(Block)
        /\ disk' \in Seq(Block) /\ start' \in Nat
    BY <1>1, <1>2, <1>4, <1>5
  <2>2. crashes' \in Nat /\ refusals' \in Nat /\ job' \in Jobs
    BY <1>3, <1>6 DEF ChainTypes
  <2>3. up' \in BOOLEAN
    BY <1>3, <1>6, Zenon DEF ChainTypes
  <2>4. QED
    BY <2>1, <2>2, <2>3, <1>8, <1>9 DEF ChainTypes
<1>11. Running'
  BY <1>1, <1>2, <1>4, <1>5 DEF Running
<1>12. ASSUME ~refused'
       PROVE  Agreeing'
  <2>1. Upto(disk, common) = Upto(mem, common)
    <3>1. CASE refused
      BY <3>1, <1>7, <1>12
    <3>2. CASE ~refused
      BY <3>2, <1>0 DEF NodeInv, Agreeing
    <3>3. QED
      BY <3>1, <3>2
  <2>2. QED
    BY <2>1, <1>1, <1>2 DEF Agreeing
<1>13. SnapAnchored(job'.snap)
  BY <1>6 DEF NodeInv
<1>14. QED
  BY <1>8, <1>10, <1>11, <1>12, <1>13 DEF NodeInv

(* reorg, refused by the disk: the window is cut, and nothing else. *)
LEMMA RefusalKeepsNode ==
  ASSUME NodeInv, NEW common \in 0..MaxHeight, NEW n \in 1..(MaxHeight - common),
         NEW new \in [1..n -> Branch], ReorgRefused(common, new)
  PROVE  NodeInv'
<1>0. CanReorg(common, new) /\ up
  BY DEF ReorgRefused, CanReorg, CanFork
<1>1. /\ common \in Nat /\ n \in Nat /\ n >= 1
      /\ common <= Len(mem) /\ common <= Len(disk) /\ start <= common
  BY <1>0, ReorgFacts
<1>2. /\ ChainTypes /\ mem \in Seq(Block) /\ disk \in Seq(Block) /\ state \in Seq(Block)
      /\ start \in Nat /\ Len(mem) \in Nat /\ Len(disk) \in Nat /\ Len(state) \in Nat
      /\ base = AnchorOf(mem, start) /\ (state = mem \/ Len(mem) < Len(state))
  BY <1>0 DEF NodeInv, ChainTypes, Running
<1>3. mem' = Upto(mem, common) /\ mem' \in Seq(Block) /\ Len(mem') = common
  BY <1>1, <1>2, UptoFacts DEF ReorgRefused
<1>4. /\ UNCHANGED <<start, state, base, snap, job, epoch, ultimo, up, crashes>>
      /\ refused' = TRUE /\ refusals' = refusals + 1
  BY DEF ReorgRefused
<1>5. disk' \in Seq(Block) /\ common <= Len(disk')
  <2>1. CASE disk' = disk
    BY <2>1, <1>1, <1>2
  <2>2. ASSUME NEW k \in 0..(n - 1), disk' = Rewritten(common, new, k)
        PROVE  disk' \in Seq(Block) /\ common <= Len(disk')
    <3>1. k \in 0..n /\ k \in Nat
      BY <1>1
    <3>2. QED
      BY <3>1, <2>2, <1>0, <1>1, RewritingKeeps
  <2>3. Len(new) = n
    BY <1>0, ReorgFacts
  <2>4. QED
    BY <2>1, <2>2, <2>3 DEF ReorgRefused
<1>6. ChainTypes'
  <2>1. /\ mem' \in Seq(Block) /\ state' \in Seq(Block) /\ base' \in Seq(Block)
        /\ disk' \in Seq(Block) /\ start' \in Nat /\ epoch' \in Nat /\ ultimo' \in Nat
        /\ crashes' \in Nat /\ refusals' \in Nat /\ snap' \in Snaps /\ job' \in Jobs
    BY <1>2, <1>3, <1>4, <1>5 DEF ChainTypes
  <2>2. up' \in BOOLEAN /\ refused' \in BOOLEAN
    BY <1>2, <1>4, Zenon DEF ChainTypes
  <2>3. QED
    BY <2>1, <2>2 DEF ChainTypes
<1>7. base' = AnchorOf(mem', start')
  <2>1. CASE start = 0
    BY <2>1, <1>2, <1>4 DEF AnchorOf
  <2>2. CASE start # 0
    <3>1. start - 1 \in Nat /\ start - 1 <= common
      BY <2>2, <1>1, <1>2
    <3>2. Upto(mem', common) = mem'
      BY <1>3, UptoEnds
    <3>3. Upto(mem', start - 1) = Upto(mem, start - 1)
      BY <3>1, <3>2, <1>1, <1>2, <1>3, UptoLower
    <3>4. QED
      BY <2>2, <3>3, <1>2, <1>4 DEF AnchorOf
  <2>3. QED
    BY <2>1, <2>2
<1>8. state' = mem' \/ Len(mem') < Len(state')
  <2>1. CASE common = Len(mem)
    <3>1. mem' = mem
      BY <2>1, <1>2, <1>3, UptoEnds
    <3>2. QED
      BY <3>1, <1>2, <1>4
  <2>2. CASE common # Len(mem)
    <3>1. common < Len(state)
      BY <2>2, <1>1, <1>2
    <3>2. QED
      BY <3>1, <1>3, <1>4
  <2>3. QED
    BY <2>1, <2>2
<1>9. Running'
  BY <1>1, <1>2, <1>3, <1>4, <1>5, <1>7, <1>8 DEF Running
<1>10. SnapAnchored(snap') /\ SnapAnchored(job'.snap)
  BY <1>4 DEF NodeInv
<1>11. QED
  BY <1>4, <1>6, <1>9, <1>10 DEF NodeInv

(* The writer thread. *)
LEMMA WriterKeepsNode ==
  ASSUME NodeInv, Writer
  PROVE  NodeInv'
<1>1. /\ UNCHANGED <<mem, start, state, base, disk, epoch, ultimo, up, faults>>
  BY DEF Writer, WriterChecks, WriterWrites, WriterRechecks
<1>2. snap \in Snaps /\ job \in Jobs /\ SnapAnchored(snap) /\ SnapAnchored(job.snap)
  BY DEF NodeInv, ChainTypes
<1>3. snap' \in {snap, job.snap, NoSnap}
  BY DEF Writer, WriterChecks, WriterWrites, WriterRechecks
<1>4. \/ job' = NoJob \/ job' = [job EXCEPT !.phase = "write"]
      \/ job' = [job EXCEPT !.phase = "recheck"]
  BY DEF Writer, WriterChecks, WriterWrites, WriterRechecks
<1>5. snap' \in Snaps /\ SnapAnchored(snap')
  <2>1. job.snap \in Snaps
    BY <1>2 DEF Jobs
  <2>2. QED
    BY <2>1, <1>2, <1>3, NoSnapFacts
<1>6. job' \in Jobs /\ (job'.snap = job.snap \/ job'.snap = NoSnap)
  BY <1>2, <1>4, NoSnapFacts DEF Jobs
<1>7. SnapAnchored(job'.snap)
  BY <1>2, <1>6, NoSnapFacts
<1>8. ChainTypes'
  BY <1>1, <1>5, <1>6 DEF NodeInv, ChainTypes, faults
<1>9. QED
  BY <1>1, <1>5, <1>7, <1>8 DEF NodeInv, Running, Agreeing, Clear, AnchorOf, faults

(* Crashes, a clean stop included: what stays is the disk. *)
LEMMA DieKeepsNode ==
  ASSUME NodeInv, Die, disk' \in Seq(Block), snap' \in Snaps, SnapAnchored(snap')
  PROVE  NodeInv'
<1>1. <<>> \in Seq(Block) /\ 0 \in Nat /\ crashes' \in Nat
  BY DEF Die, NodeInv, ChainTypes
<1>2. job' = NoJob /\ up' = FALSE
  BY DEF Die
<1>3. ChainTypes'
  BY <1>1, <1>2, NoSnapFacts DEF Die, ChainTypes, NodeInv
<1>4. QED
  BY <1>2, <1>3, NoSnapFacts DEF NodeInv

(* A crash asks nothing of a node that is down. *)
LEMMA CrashKeepsNode ==
  ASSUME NodeInv, Crash
  PROVE  NodeInv'
  BY DieKeepsNode DEF Crash, NodeInv, ChainTypes

(* Nor does one inside the writes of a reorg. *)
LEMMA CrashInReorgKeepsNode ==
  ASSUME NodeInv, NEW common \in 0..MaxHeight, NEW n \in 1..(MaxHeight - common),
         NEW new \in [1..n -> Branch], CrashInReorg(common, new)
  PROVE  NodeInv'
<1>1. Len(new) = n
  BY ReorgFacts DEF CrashInReorg
<1>2. disk' \in Seq(Block)
  BY <1>1, RewritingKeeps DEF CrashInReorg
<1>3. Die /\ snap' = snap
  BY DEF CrashInReorg
<1>4. QED
  BY <1>2, <1>3, DieKeepsNode DEF NodeInv, ChainTypes

(* A clean stop writes a snapshot of the chain it has. *)
LEMMA ShutdownKeepsNode ==
  ASSUME NodeInv, Shutdown
  PROVE  NodeInv'
<1>1. /\ Die /\ up /\ disk' = disk
      /\ snap' = [head |-> mem, state |-> state, start |-> start, base |-> base]
  BY DEF Shutdown, Die
<1>2. snap' \in Snaps /\ SnapAnchored(snap')
  BY <1>1 DEF NodeInv, ChainTypes, Running, Snaps, SnapAnchored, AnchorOf
<1>3. QED
  BY <1>1, <1>2, DieKeepsNode DEF NodeInv, ChainTypes
(* load_from_snapshot: the proven state and anchor, executed forward, are    *)
(* those of the chain on disk.                                               *)
LEMMA FastBootKeepsNode ==
  ASSUME NodeInv, FastBoot
  PROVE  NodeInv'
<1> DEFINE s == snap
           n == Len(snap.head)
           st == FastStart(snap)
<1>1. /\ disk \in Seq(Block) /\ s \in Snaps /\ SnapAnchored(s) /\ job \in Jobs
      /\ ChainTypes /\ SnapAnchored(job.snap)
  BY DEF NodeInv, ChainTypes
<1>2. /\ s.head \in Seq(Block) /\ s.start \in Nat /\ s.base \in Seq(Block)
      /\ n \in Nat /\ Len(disk) \in Nat /\ Window \in Nat /\ Window > 0
  BY <1>1, ChainAssumption DEF Snaps
<1>3. /\ n <= Len(disk) /\ s.state = Upto(disk, n)
      /\ s.start <= n /\ s.start # 1
      /\ s.start > 1 => s.base = Upto(disk, s.start - 1)
      /\ s.start = 0 => s.base = <<>>
  BY <1>1 DEF FastBoot, FastBootOk, Proven, AnchorProven, SnapAnchored
<1>4. WindowStart \in Nat /\ WindowStart <= Len(disk)
  BY <1>2 DEF WindowStart, Higher
<1>5. /\ st \in Nat /\ st <= Len(disk) + 1 /\ s.start <= st
      /\ s.start = 0 /\ st > 0 => n <= st - 1
  BY <1>2, <1>3, <1>4 DEF FastStart
<1>6. state' = disk
  <2>1. Upto(disk, n) \o SubSeq(disk, n + 1, Len(disk)) = disk
    BY <1>1, <1>2, <1>3, UptoRest
  <2>2. QED
    BY <2>1, <1>1, <1>3 DEF FastBoot, FastState
<1>7. FastBase(s) = AnchorOf(disk, st) /\ AnchorOf(disk, st) \in Seq(Block)
  <2>1. CASE st = 0
    <3>1. s.start = 0 /\ s.base = <<>> /\ Higher(s.start, 1) = 1
      BY <2>1, <1>2, <1>3, <1>5 DEF Higher
    <3>2. SubSeq(disk, 1, st - 1) = <<>> /\ <<>> \o <<>> = <<>>
      BY <2>1
    <3>3. QED
      BY <2>1, <3>1, <3>2 DEF FastBase, AnchorOf
  <2>2. CASE s.start = 0 /\ st > 0
    <3>1. st - 1 \in Nat /\ n <= st - 1 /\ st - 1 <= Len(disk)
      BY <2>2, <1>2, <1>5
    <3>2. Upto(disk, n) \o SubSeq(disk, n + 1, st - 1) = Upto(disk, st - 1)
      BY <3>1, <1>1, <1>2, UptoJoin
    <3>3. FastBase(s) = Upto(disk, n) \o SubSeq(disk, n + 1, st - 1)
      BY <2>2, <1>3 DEF FastBase
    <3>4. AnchorOf(disk, st) = Upto(disk, st - 1) /\ Upto(disk, st - 1) \in Seq(Block)
      BY <2>2, <3>1, <1>1, UptoFacts DEF AnchorOf
    <3>5. QED
      BY <3>2, <3>3, <3>4
  <2>3. CASE s.start > 1 /\ st > 0
    <3>1. /\ st - 1 \in Nat /\ st - 1 <= Len(disk)
          /\ s.start - 1 \in Nat /\ s.start - 1 <= st - 1
      BY <2>3, <1>2, <1>5
    <3>2. Upto(disk, s.start - 1) \o SubSeq(disk, (s.start - 1) + 1, st - 1)
            = Upto(disk, st - 1)
      BY <3>1, <1>1, UptoJoin
    <3>3. (s.start - 1) + 1 = Higher(s.start, 1)
      BY <2>3, <1>2 DEF Higher
    <3>4. FastBase(s) = Upto(disk, s.start - 1) \o SubSeq(disk, Higher(s.start, 1), st - 1)
      <4>1. s.start # 0 /\ s.base = Upto(disk, s.start - 1)
        BY <2>3, <1>2, <1>3
      <4>2. QED
        BY <4>1 DEF FastBase
    <3>5. AnchorOf(disk, st) = Upto(disk, st - 1) /\ Upto(disk, st - 1) \in Seq(Block)
      BY <2>3, <3>1, <1>1, UptoFacts DEF AnchorOf
    <3>6. QED
      BY <3>2, <3>3, <3>4, <3>5
  <2>4. QED
    BY <2>1, <2>2, <2>3, <1>2, <1>3, <1>5
<1>8. /\ mem' = disk /\ disk' = disk /\ start' = st /\ base' = FastBase(s)
      /\ ultimo' = n /\ up' = TRUE /\ UNCHANGED <<disk, snap, job, epoch, faults>>
  BY DEF FastBoot
<1>f. \A i \in 1..Len(disk) : disk[i] # Stray
  BY DEF FastBoot, FastBootOk, Follows
<1> HIDE DEF s, n, st
<1>9. ChainTypes'
  BY <1>1, <1>2, <1>5, <1>6, <1>7, <1>8 DEF ChainTypes, faults
<1>10. SnapAnchored(snap') /\ SnapAnchored(job'.snap)
  BY <1>1, <1>8 DEF s
<1>11. Running' /\ Agreeing'
  BY <1>2, <1>5, <1>6, <1>7, <1>8, <1>f DEF Running, Agreeing, Clear
<1>12. QED
  BY <1>9, <1>10, <1>11 DEF NodeInv

(* load_from_disk: what follows is kept. *)
LEMMA ReplayBootKeepsNode ==
  ASSUME NodeInv, NEW h \in 0..MaxHeight, ReplayBoot(h)
  PROVE  NodeInv'
<1>1. /\ mem' = disk' /\ state' = disk' /\ start' = 0 /\ base' = <<>>
      /\ disk' = Upto(disk, h) /\ h <= Len(disk) /\ Follows(h)
      /\ up' = TRUE /\ UNCHANGED <<job, epoch, faults>>
      /\ snap' \in {snap, Snapshot} /\ ultimo' \in {0, h}
  BY DEF ReplayBoot
<1>2. /\ disk \in Seq(Block) /\ snap \in Snaps /\ SnapAnchored(snap) /\ ChainTypes
      /\ SnapAnchored(job.snap) /\ h \in Nat
  BY ChainAssumption DEF NodeInv, ChainTypes
<1>3. disk' \in Seq(Block) /\ Len(disk') = h /\ \A i \in 1..h : disk'[i] = disk[i]
  BY <1>1, <1>2, UptoFacts
<1>4. <<>> \in Seq(Block)
  OBVIOUS
<1>5. Snapshot \in Snaps /\ SnapAnchored(Snapshot)
  BY <1>1, <1>3, <1>4 DEF Snapshot, Snaps, SnapAnchored
<1>6. ChainTypes'
  BY <1>1, <1>2, <1>3, <1>4, <1>5 DEF ChainTypes, faults
<1>7. SnapAnchored(snap') /\ SnapAnchored(job'.snap)
  BY <1>1, <1>2, <1>5
<1>8. Running'
  BY <1>1, <1>3 DEF Running, AnchorOf
<1>9. Agreeing'
  BY <1>1, <1>3 DEF Agreeing, Clear, Follows
<1>10. QED
  BY <1>6, <1>7, <1>8, <1>9 DEF NodeInv

-----------------------------------------------------------------------------
(* The node's invariant holds, and with it what it implies. *)

(* A node begins with an empty chain, in memory and on disk. *)
LEMMA NodeInvInit == Init => NodeInv
<1> SUFFICES ASSUME Init PROVE NodeInv
  OBVIOUS
<1>1. <<>> \in Seq(Block) /\ Len(<<>>) = 0
  OBVIOUS
<1>2. ChainTypes
  BY <1>1, NoSnapFacts DEF Init, ChainTypes
<1>3. Running /\ Agreeing
  BY <1>1 DEF Init, Running, Agreeing, Clear, AnchorOf
<1>4. QED
  BY <1>2, <1>3, NoSnapFacts DEF Init, NodeInv

(* A reorg's new blocks reach beyond the chain, so there is at least one. *)
LEMMA StepCases ==
  ASSUME NodeInv, Next
  PROVE  \/ \E b \in Branch : AddBlock(b) \/ ProduceBlock(b)
         \/ \E common \in 0..MaxHeight : \E n \in 1..(MaxHeight - common) :
              \E new \in [1..n -> Branch] : \/ Reorg(common, new)
                                           \/ ReorgRefused(common, new)
                                           \/ CrashInReorg(common, new)
         \/ Writer \/ Crash \/ Shutdown \/ FastBoot
         \/ \E h \in 0..MaxHeight : ReplayBoot(h)
<1>1. ASSUME NEW common \in 0..MaxHeight, CanFork(common)
      PROVE  (Len(mem) - common + 1)..(MaxHeight - common) \subseteq 1..(MaxHeight - common)
  <2>1. Len(mem) \in Nat /\ common \in Nat /\ MaxHeight \in Nat /\ common <= Len(mem)
    BY <1>1, ChainAssumption DEF NodeInv, ChainTypes, CanFork
  <2>2. QED
    BY <2>1
<1>2. QED
  BY <1>1 DEF Next

(* Every step keeps the invariant of the node. *)
LEMMA NodeInvNext == NodeInv /\ [Next]_vars => NodeInv'
<1> SUFFICES ASSUME NodeInv, [Next]_vars
             PROVE  NodeInv'
  OBVIOUS
<1>1. ASSUME NEW b \in Branch, AddBlock(b) \/ ProduceBlock(b)
      PROVE  NodeInv'
  BY <1>1, AddedBlocks, CommitKeepsNode
<1>2. ASSUME NEW common \in 0..MaxHeight, NEW n \in 1..(MaxHeight - common),
             NEW new \in [1..n -> Branch], Reorg(common, new)
      PROVE  NodeInv'
  BY <1>2, ReorgKeepsNode
<1>3. ASSUME NEW common \in 0..MaxHeight, NEW n \in 1..(MaxHeight - common),
             NEW new \in [1..n -> Branch], ReorgRefused(common, new)
      PROVE  NodeInv'
  BY <1>3, RefusalKeepsNode
<1>4. ASSUME NEW common \in 0..MaxHeight, NEW n \in 1..(MaxHeight - common),
             NEW new \in [1..n -> Branch], CrashInReorg(common, new)
      PROVE  NodeInv'
  BY <1>4, CrashInReorgKeepsNode
<1>5. CASE Writer
  BY <1>5, WriterKeepsNode
<1>6. CASE Crash
  BY <1>6, CrashKeepsNode
<1>7. CASE Shutdown
  BY <1>7, ShutdownKeepsNode
<1>8. CASE FastBoot
  BY <1>8, FastBootKeepsNode
<1>9. ASSUME NEW h \in 0..MaxHeight, ReplayBoot(h)
      PROVE  NodeInv'
  BY <1>9, ReplayBootKeepsNode
<1>10. CASE UNCHANGED vars
  BY <1>10 DEF vars, NodeInv, ChainTypes, Running, Agreeing, Clear, AnchorOf, SnapAnchored
<1>11. QED
  BY <1>1, <1>2, <1>3, <1>4, <1>5, <1>6, <1>7, <1>8, <1>9, <1>10, StepCases

(* The invariant of the node holds in every reachable state. *)
LEMMA NodeInvHolds == Spec => []NodeInv
<1>1. QED
  BY NodeInvInit, NodeInvNext, PTL DEF Spec

(* However often the process died, also in the middle of a reorg's writes,   *)
(* and however it booted, a running node's memory describes the chain of     *)
(* its block file; and again after a reorg the disk refused, once a reorg    *)
(* that forks where file and memory still agree is adopted, or the node      *)
(* boots, whatever it produced in between.                                   *)
THEOREM MemoryAgreesWithDisk == Spec => []MemoryIsDisk
<1>1. NodeInv => MemoryIsDisk
  BY DEF NodeInv, Agreeing, MemoryIsDisk
<1>2. QED
  BY <1>1, NodeInvHolds, PTL

(* The state of a running node is always the execution of its chain, also    *)
(* the state a fast boot builds from a snapshot and a reorg from the anchor, *)
(* and the state after a refused reorg was made good.                        *)
THEOREM StateAgreesWithChain == Spec => []StateIsChain
<1>1. NodeInv => StateIsChain
  BY DEF NodeInv, Agreeing, StateIsChain
<1>2. QED
  BY <1>1, NodeInvHolds, PTL

(* The anchor a reorg would start from is always the state below the window, *)
(* for every window length, also while a refused reorg is not made good.     *)
THEOREM AnchorAgreesWithChain == Spec => []AnchorIsPrefix
<1>1. NodeInv => AnchorIsPrefix
  BY DEF NodeInv, ChainTypes, Running, AnchorIsPrefix, AnchorOf
<1>2. QED
  BY <1>1, NodeInvHolds, PTL

-----------------------------------------------------------------------------
(* The snapshots of a node that never died. *)

(* A snapshot of the chain stays one while the chain keeps its blocks, as    *)
(* far as both chains follow, up to the last snapshot.                       *)
LEMMA StaysOfChain ==
  ASSUME NEW s, OfChain(s), ultimo <= ultimo', Len(s.head) \in Nat,
         ultimo \in Nat, ultimo' \in Nat,
         \A k \in Nat : k <= ultimo /\ k <= Len(mem') /\ Clear(mem', k)
            => k <= Len(mem) /\ Clear(mem, k) /\ Upto(mem', k) = Upto(mem, k)
  PROVE  /\ Len(s.head) <= ultimo'
         /\ \A k \in Nat : k <= Len(s.head) /\ k <= Len(mem') /\ Clear(mem', k)
                            => Upto(s.head, k) = Upto(mem', k)
<1>1. Len(s.head) <= ultimo
  BY DEF OfChain
<1>2. Len(s.head) <= ultimo'
  BY <1>1
<1>3. ASSUME NEW k \in Nat, k <= Len(s.head), k <= Len(mem'), Clear(mem', k)
      PROVE  Upto(s.head, k) = Upto(mem', k)
  <2>1. k <= ultimo
    BY <1>1, <1>3
  <2>2. k <= Len(mem) /\ Clear(mem, k) /\ Upto(mem', k) = Upto(mem, k)
    BY <2>1, <1>3
  <2>3. QED
    BY <2>2, <1>3 DEF OfChain
<1>4. QED
  BY <1>2, <1>3

(* A block on top leaves every snapshot one of the chain: one that is not    *)
(* stray follows from the state, and the chain is then above the snapshots.  *)
LEMMA CommitKeepsSnaps ==
  ASSUME NodeInv, NodeInv', SnapInv, NEW b \in Block, Commit(b), b = Stray <=> state # mem
  PROVE  SnapInv'
<1>1. /\ ChainTypes /\ ChainTypes' /\ mem \in Seq(Block) /\ state \in Seq(Block)
      /\ ultimo \in Nat /\ ultimo' \in Nat /\ Running /\ Len(mem) \in Nat /\ Len(state) \in Nat
      /\ snap \in Snaps /\ job \in Jobs /\ job.snap \in Snaps
  BY DEF NodeInv, ChainTypes, Jobs, Commit
<1>2. /\ mem' = Append(mem, b) /\ state' = Append(state, b) /\ snap' = snap
      /\ epoch' = epoch /\ up' = up /\ crashes' = crashes /\ up
  BY DEF Commit, faults
<1>3. /\ mem' \in Seq(Block) /\ Len(mem') = Len(mem) + 1 /\ Len(state') = Len(state) + 1
      /\ \A i \in 1..Len(mem) : mem'[i] = mem[i]
      /\ mem'[Len(mem) + 1] = b
  BY <1>1, <1>2
<1>4. SUFFICES ASSUME TRUE
               PROVE  (job.epoch <= epoch)' /\ (crashes' = 0 => SnapsOfChain')
  BY DEF SnapInv
<1>5. (job.epoch <= epoch)'
  <2>1. CASE job' = job
    BY <2>1, <1>2 DEF SnapInv
  <2>2. CASE job'.epoch = epoch
    BY <2>2, <1>1, <1>2 DEF ChainTypes
  <2>3. QED
    BY <2>1, <2>2 DEF Commit, TalvezSnapshot
<1>6. SUFFICES ASSUME crashes' = 0 PROVE SnapsOfChain'
  BY <1>5
<1>7. SnapsOfChain
  BY <1>2, <1>6 DEF SnapInv
<1>8. ASSUME NEW k \in Nat, k <= ultimo, k <= Len(mem'), Clear(mem', k)
      PROVE  k <= Len(mem) /\ Clear(mem, k) /\ Upto(mem', k) = Upto(mem, k)
  <2>1. k <= Len(mem)
    <3>1. SUFFICES ASSUME k = Len(mem) + 1 PROVE FALSE
      BY <1>1, <1>3, <1>8
    <3>2. mem'[k] # Stray
      BY <3>1, <1>1, <1>8 DEF Clear
    <3>3. state = mem
      BY <3>1, <3>2, <1>3
    <3>4. ultimo <= Len(mem)
      BY <3>3, <1>7 DEF SnapsOfChain
    <3>5. QED
      BY <3>1, <3>4, <1>1, <1>8
  <2>2. \A i \in 1..k : mem'[i] = mem[i]
    BY <2>1, <1>1, <1>3
  <2>3. Clear(mem, k)
    BY <2>2, <1>8 DEF Clear
  <2>4. Upto(mem', k) = Upto(mem, k)
    BY <2>1, <2>2, <1>1, <1>3, <1>8, UptoAgree
  <2>5. QED
    BY <2>1, <2>3, <2>4
<1>9. ASSUME NEW s \in Snaps, OfChain(s), ultimo <= ultimo'
      PROVE  /\ Len(s.head) <= ultimo'
             /\ \A k \in Nat : k <= Len(s.head) /\ k <= Len(mem') /\ Clear(mem', k)
                                => Upto(s.head, k) = Upto(mem', k)
  <2>1. Len(s.head) \in Nat
    BY DEF Snaps
  <2>2. QED
    BY <2>1, <1>1, <1>8, <1>9, StaysOfChain
<1>10. state' = mem' => state = mem
  BY <1>1, <1>3 DEF Running
<1>11. CASE UNCHANGED <<job, ultimo>>
  <2>1. (state = mem => ultimo <= Len(mem))'
    BY <1>11, <1>1, <1>3, <1>7, <1>10 DEF SnapsOfChain
  <2>2. ultimo <= ultimo'
    BY <1>11, <1>1
  <2>3. OfChain(job.snap) => OfChain(job.snap)'
    BY <1>1, <1>9, <1>11, <2>2 DEF OfChain
  <2>4. OfChain(snap) => OfChain(snap)'
    BY <1>1, <1>2, <1>9, <2>2 DEF OfChain
  <2>5. QED
    BY <2>1, <2>3, <2>4, <1>2, <1>7, <1>11 DEF SnapsOfChain
<1>12. CASE /\ Len(mem') - ultimo >= Interval /\ job.phase = "idle"
            /\ job' = [phase |-> "mount", epoch |-> epoch, snap |-> Snapshot]
            /\ ultimo' = Len(mem')
  <2>1. job'.epoch = epoch /\ job'.snap.head = mem' /\ job'.phase = "mount"
    BY <1>12 DEF Snapshot
  <2>2. ultimo <= ultimo'
    BY <1>1, <1>3, <1>12, ChainAssumption
  <2>3. OfChain(job.snap)'
    <3>1. Len(mem') <= ultimo'
      BY <1>12, <1>1, <1>3
    <3>2. QED
      BY <3>1, <2>1 DEF OfChain
  <2>4. OfChain(snap) => OfChain(snap)'
    BY <1>1, <1>2, <1>9, <2>2 DEF OfChain
  <2>5. snap = NoSnap \/ OfChain(snap)
    BY <1>7, <1>12 DEF SnapsOfChain
  <2>6. ultimo' <= Len(mem')
    BY <1>12, <1>1
  <2>7. QED
    BY <2>1, <2>3, <2>4, <2>5, <2>6, <1>2 DEF SnapsOfChain
<1>13. QED
  BY <1>11, <1>12 DEF Commit, TalvezSnapshot

(* A reorg removes the snapshot it makes wrong, or its epoch tells the      *)
(* writer.                                                                  *)
LEMMA ReorgKeepsSnaps ==
  ASSUME NodeInv, NodeInv', SnapInv, NEW common \in 0..MaxHeight,
         NEW n \in 1..(MaxHeight - common), NEW new \in [1..n -> Branch],
         Reorg(common, new)
  PROVE  SnapInv'
<1>1. CanReorg(common, new) /\ up
  BY DEF Reorg, CanReorg, CanFork
<1>2. /\ common \in Nat /\ common <= Len(mem) /\ n \in Nat
      /\ mem' \in Seq(Block) /\ Len(mem') = common + n
      /\ Upto(mem', common) = Upto(mem, common) /\ Clear(mem, common)
  BY <1>1, ReorgFacts DEF Reorg
<1>3. /\ ChainTypes /\ ChainTypes' /\ snap \in Snaps /\ job \in Jobs /\ job.snap \in Snaps
      /\ ultimo \in Nat /\ epoch \in Nat /\ mem \in Seq(Block) /\ job.epoch \in Nat
      /\ ultimo' \in Nat /\ Len(mem) \in Nat
  BY DEF NodeInv, ChainTypes, Jobs
<1>4. job' = job /\ up' = up /\ crashes' = crashes
  BY DEF Reorg
<1>5. job.epoch <= epoch
  BY DEF SnapInv
<1>6. CASE ultimo > common
  <2>1. snap' = NoSnap /\ ultimo' = 0 /\ epoch' = epoch + 1
    BY <1>6 DEF Reorg, Invalidate
  <2>2. (job.epoch <= epoch)' /\ job'.epoch # epoch'
    BY <2>1, <1>3, <1>4, <1>5
  <2>3. ultimo' <= Len(mem')
    BY <2>1, <1>2
  <2>4. QED
    BY <2>1, <2>2, <2>3, <1>1, <1>4 DEF SnapInv, SnapsOfChain
<1>7. CASE ~(ultimo > common)
  <2>1. snap' = snap /\ ultimo' = ultimo /\ epoch' = epoch
    BY <1>7 DEF Reorg, Invalidate
  <2>2. ultimo <= common /\ common <= Len(mem')
    BY <1>2, <1>3, <1>7
  <2>3. ASSUME NEW k \in Nat, k <= ultimo, k <= Len(mem'), Clear(mem', k)
        PROVE  k <= Len(mem) /\ Clear(mem, k) /\ Upto(mem', k) = Upto(mem, k)
    <3>1. k <= common /\ k <= Len(mem)
      BY <2>2, <2>3, <1>2, <1>3
    <3>2. Clear(mem, k)
      BY <3>1, <1>2 DEF Clear
    <3>3. QED
      BY <3>1, <3>2, <2>2, <1>2, <1>3, UptoLower
  <2>4. ASSUME NEW s \in Snaps, OfChain(s)
        PROVE  /\ Len(s.head) <= ultimo'
               /\ \A k \in Nat : k <= Len(s.head) /\ k <= Len(mem') /\ Clear(mem', k)
                                  => Upto(s.head, k) = Upto(mem', k)
    <3>1. Len(s.head) \in Nat /\ ultimo <= ultimo'
      BY <2>1, <1>3 DEF Snaps
    <3>2. QED
      BY <3>1, <2>3, <2>4, <1>3, StaysOfChain
  <2>5. (job.epoch <= epoch)'
    BY <2>1, <1>4, <1>5
  <2>6. SUFFICES ASSUME crashes = 0 PROVE SnapsOfChain'
    BY <2>5, <1>4 DEF SnapInv
  <2>7. OfChain(job.snap) => OfChain(job.snap)'
    BY <2>4, <1>3, <1>4 DEF OfChain
  <2>8. OfChain(snap) => OfChain(snap)'
    BY <2>1, <2>4, <1>3 DEF OfChain
  <2>9. ultimo' <= Len(mem')
    BY <2>1, <2>2, <1>2, <1>3
  <2>10. SnapsOfChain
    BY <2>6 DEF SnapInv
  <2>11. QED
    BY <2>1, <2>7, <2>8, <2>9, <2>10, <1>1, <1>4 DEF SnapsOfChain
<1>8. QED
  BY <1>6, <1>7

(* A refused reorg only cuts the chain. *)
LEMMA RefusalKeepsSnaps ==
  ASSUME NodeInv, NodeInv', SnapInv, NEW common \in 0..MaxHeight,
         NEW n \in 1..(MaxHeight - common), NEW new \in [1..n -> Branch],
         ReorgRefused(common, new)
  PROVE  SnapInv'
<1>1. CanReorg(common, new) /\ up
  BY DEF ReorgRefused, CanReorg, CanFork
<1>2. common \in Nat /\ common <= Len(mem)
  BY <1>1, ReorgFacts
<1>3. /\ snap \in Snaps /\ job.snap \in Snaps /\ ultimo \in Nat /\ Running
      /\ mem \in Seq(Block) /\ state \in Seq(Block) /\ Len(mem) \in Nat /\ Len(state) \in Nat
  BY <1>1 DEF NodeInv, ChainTypes, Jobs
<1>4. mem' = Upto(mem, common) /\ mem' \in Seq(Block) /\ Len(mem') = common
  BY <1>2, <1>3, UptoFacts DEF ReorgRefused
<1>5. UNCHANGED <<state, snap, job, epoch, ultimo, up, crashes>>
  BY DEF ReorgRefused
<1>6. SUFFICES ASSUME crashes = 0 PROVE SnapsOfChain'
  BY <1>5 DEF SnapInv
<1>7. SnapsOfChain
  BY <1>6 DEF SnapInv
<1>8. state' = mem' => ultimo' <= Len(mem')
  <2>1. CASE common = Len(mem)
    <3>1. mem' = mem
      BY <2>1, <1>3, <1>4, UptoEnds
    <3>2. QED
      BY <3>1, <1>5, <1>7 DEF SnapsOfChain
  <2>2. CASE common # Len(mem)
    <3>1. Len(mem') < Len(state)
      BY <2>2, <1>2, <1>3, <1>4 DEF Running
    <3>2. QED
      BY <3>1, <1>2, <1>4, <1>5
  <2>3. QED
    BY <2>1, <2>2
<1>9. ASSUME NEW k \in Nat, k <= ultimo, k <= Len(mem'), Clear(mem', k)
      PROVE  k <= Len(mem) /\ Clear(mem, k) /\ Upto(mem', k) = Upto(mem, k)
  <2>1. k <= common /\ k <= Len(mem)
    BY <1>2, <1>3, <1>4, <1>9
  <2>2. Upto(mem', common) = Upto(mem, common)
    BY <1>4, UptoEnds
  <2>3. Upto(mem', k) = Upto(mem, k)
    BY <2>1, <2>2, <1>2, <1>3, <1>4, UptoLower
  <2>4. \A i \in 1..k : mem'[i] = mem[i]
    <3>1. \A i \in 1..common : mem'[i] = mem[i]
      BY <1>2, <1>3, <1>4, UptoFacts
    <3>2. QED
      BY <3>1, <2>1, <1>2
  <2>5. QED
    BY <2>1, <2>3, <2>4, <1>9 DEF Clear
<1>10. ASSUME NEW s \in Snaps, OfChain(s)
       PROVE  /\ Len(s.head) <= ultimo'
              /\ \A k \in Nat : k <= Len(s.head) /\ k <= Len(mem') /\ Clear(mem', k)
                                 => Upto(s.head, k) = Upto(mem', k)
  <2>1. Len(s.head) \in Nat /\ ultimo <= ultimo' /\ ultimo' \in Nat
    BY <1>3, <1>5 DEF Snaps
  <2>2. QED
    BY <2>1, <1>3, <1>9, <1>10, StaysOfChain
<1>11. OfChain(job.snap) => OfChain(job.snap)'
  BY <1>3, <1>5, <1>10 DEF OfChain
<1>12. OfChain(snap) => OfChain(snap)'
  BY <1>3, <1>5, <1>10 DEF OfChain
<1>13. QED
  BY <1>1, <1>5, <1>7, <1>8, <1>11, <1>12 DEF SnapsOfChain

(* The writer, at each of its three steps. *)
LEMMA WriterKeepsSnaps ==
  ASSUME NodeInv, SnapInv, Writer
  PROVE  SnapInv'
<1>1. /\ job \in Jobs /\ job.epoch \in Nat /\ epoch \in Nat
      /\ NoJob.epoch = 0 /\ NoJob.phase = "idle"
  BY DEF NodeInv, ChainTypes, Jobs, NoJob
<1>2. /\ mem' = mem /\ state' = state /\ ultimo' = ultimo /\ epoch' = epoch
      /\ up' = up /\ crashes' = crashes
  BY DEF Writer, WriterChecks, WriterWrites, WriterRechecks, faults
<1>3. CASE WriterChecks
  <2>1. snap' = snap /\ job.phase = "mount"
    BY <1>3 DEF WriterChecks
  <2>2. CASE job.epoch = epoch
    <3>1. job' = [job EXCEPT !.phase = "write"]
      BY <1>3, <2>2 DEF WriterChecks
    <3>2. job'.phase = "write" /\ job'.epoch = job.epoch /\ job'.snap = job.snap
      BY <3>1, <1>1 DEF Jobs
    <3>3. QED
      BY <2>1, <2>2, <3>2, <1>1, <1>2 DEF SnapInv, SnapsOfChain, OfChain, Clear
  <2>3. CASE job.epoch # epoch
    <3>1. job' = NoJob
      BY <1>3, <2>3 DEF WriterChecks
    <3>2. QED
      BY <2>1, <3>1, <1>1, <1>2 DEF SnapInv, SnapsOfChain, OfChain, Clear
  <2>4. QED
    BY <2>2, <2>3
<1>4. CASE WriterWrites
  <2>1. CASE snap' = job.snap /\ job' = [job EXCEPT !.phase = "recheck"]
    <3>1. job'.phase = "recheck" /\ job'.epoch = job.epoch /\ job'.snap = job.snap
      BY <2>1, <1>1 DEF Jobs
    <3>2. job.phase # "idle"
      BY <1>4 DEF WriterWrites
    <3>3. QED
      BY <2>1, <3>1, <3>2, <1>1, <1>2 DEF SnapInv, SnapsOfChain, OfChain, Clear
  <2>2. CASE snap' = snap /\ job' = NoJob
    <3>1. job.phase = "write"
      BY <1>4 DEF WriterWrites
    <3>2. QED
      BY <2>2, <3>1, <1>1, <1>2 DEF SnapInv, SnapsOfChain, OfChain, Clear
  <2>3. QED
    BY <2>1, <2>2, <1>4 DEF WriterWrites
<1>5. CASE WriterRechecks
  <2>1. job' = NoJob /\ job.phase = "recheck"
    BY <1>5 DEF WriterRechecks
  <2>2. CASE job.epoch = epoch
    <3>1. snap' = snap
      BY <1>5, <2>2 DEF WriterRechecks
    <3>2. QED
      BY <2>1, <2>2, <3>1, <1>1, <1>2 DEF SnapInv, SnapsOfChain, OfChain, Clear
  <2>3. CASE job.epoch # epoch
    <3>1. snap' = NoSnap
      BY <1>5, <2>3 DEF WriterRechecks
    <3>2. QED
      BY <2>1, <3>1, <1>1, <1>2 DEF SnapInv, SnapsOfChain, OfChain, Clear
  <2>4. QED
    BY <2>2, <2>3
<1>6. QED
  BY <1>3, <1>4, <1>5 DEF Writer

(* A node that died is out of the invariant's reach, and stays so. *)
LEMMA DeadKeepsSnaps ==
  ASSUME NodeInv, SnapInv, Die \/ FastBoot \/ \E h \in 0..MaxHeight : ReplayBoot(h)
  PROVE  SnapInv'
<1>1. crashes \in Nat /\ NoJob.epoch = 0 /\ job.epoch <= epoch
  BY DEF NodeInv, ChainTypes, NoJob, SnapInv
<1>2. CASE Die
  <2>1. crashes' = crashes + 1 /\ job' = NoJob /\ epoch' = 0
    BY <1>2 DEF Die
  <2>2. QED
    BY <2>1, <1>1 DEF SnapInv
<1>3. CASE FastBoot \/ \E h \in 0..MaxHeight : ReplayBoot(h)
  <2>1. ~up /\ crashes' = crashes /\ job' = job /\ epoch' = epoch
    BY <1>3 DEF FastBoot, ReplayBoot, faults
  <2>2. crashes # 0
    BY <2>1 DEF SnapInv, SnapsOfChain
  <2>3. QED
    BY <2>1, <2>2, <1>1 DEF SnapInv
<1>4. QED
  BY <1>2, <1>3

(* Every step keeps the invariant of the snapshots. *)
LEMMA SnapInvNext == NodeInv /\ NodeInv' /\ SnapInv /\ [Next]_vars => SnapInv'
<1> SUFFICES ASSUME NodeInv, NodeInv', SnapInv, [Next]_vars
             PROVE  SnapInv'
  OBVIOUS
<1>1. ASSUME NEW b \in Branch, AddBlock(b) \/ ProduceBlock(b)
      PROVE  SnapInv'
  <2>1. PICK x \in Block : Commit(x) /\ (x = Stray <=> state # mem)
    BY <1>1, AddedBlocks
  <2>2. QED
    BY <2>1, CommitKeepsSnaps
<1>2. ASSUME NEW common \in 0..MaxHeight, NEW n \in 1..(MaxHeight - common),
             NEW new \in [1..n -> Branch], Reorg(common, new)
      PROVE  SnapInv'
  BY <1>2, ReorgKeepsSnaps
<1>3. ASSUME NEW common \in 0..MaxHeight, NEW n \in 1..(MaxHeight - common),
             NEW new \in [1..n -> Branch], ReorgRefused(common, new)
      PROVE  SnapInv'
  BY <1>3, RefusalKeepsSnaps
<1>4. ASSUME NEW common \in 0..MaxHeight, NEW n \in 1..(MaxHeight - common),
             NEW new \in [1..n -> Branch], CrashInReorg(common, new)
      PROVE  SnapInv'
  BY <1>4, DeadKeepsSnaps DEF CrashInReorg
<1>5. CASE Writer
  BY <1>5, WriterKeepsSnaps
<1>6. CASE Crash \/ Shutdown \/ FastBoot \/ \E h \in 0..MaxHeight : ReplayBoot(h)
  BY <1>6, DeadKeepsSnaps DEF Crash, Shutdown
<1>7. CASE UNCHANGED vars
  BY <1>7 DEF vars, SnapInv, SnapsOfChain, OfChain, Clear
<1>8. QED
  BY <1>1, <1>2, <1>3, <1>4, <1>5, <1>6, <1>7, StepCases

(* Whatever reorg runs between the writer's two looks at the epoch, a writer *)
(* that has finished left no snapshot of an abandoned branch.                *)
THEOREM WriterFollowsChain == Spec => []SnapshotFollowsChain
<1>1. Init => SnapInv
  <2>1. Len(<<>>) = 0
    OBVIOUS
  <2>2. QED
    BY <2>1 DEF Init, SnapInv, SnapsOfChain, NoJob
<1>2. NodeInv /\ SnapInv => SnapshotFollowsChain
  <2>1. SUFFICES ASSUME NodeInv, SnapInv, up, ~refused, job.phase = "idle",
                        crashes = 0, snap # NoSnap
                 PROVE  snap.head = Upto(mem, Len(snap.head))
    BY DEF SnapshotFollowsChain
  <2>2. OfChain(snap) /\ (state = mem => ultimo <= Len(mem))
    BY <2>1 DEF SnapInv, SnapsOfChain
  <2>3. state = mem /\ Clear(mem, Len(mem))
    BY <2>1 DEF NodeInv, Agreeing
  <2>4. snap.head \in Seq(Block) /\ ultimo \in Nat /\ mem \in Seq(Block)
    BY <2>1 DEF NodeInv, ChainTypes, Snaps
  <2>5. Len(snap.head) \in Nat /\ Len(snap.head) <= Len(mem)
    BY <2>2, <2>3, <2>4 DEF OfChain
  <2>6. Clear(mem, Len(snap.head))
    BY <2>3, <2>4, <2>5 DEF Clear
  <2>7. Upto(snap.head, Len(snap.head)) = snap.head
    BY <2>4, UptoEnds
  <2>8. QED
    BY <2>2, <2>5, <2>6, <2>7 DEF OfChain
<1>3. QED
  BY <1>1, <1>2, NodeInvHolds, SnapInvNext, PTL DEF Spec

-----------------------------------------------------------------------------
(* What a step leaves of the block file: while the process runs, the blocks  *)
(* up to the beginning of the window; while it is down, every block that     *)
(* follows from the ones below.  And a running process shortens the file     *)
(* only by a reorg that is refused, or makes good one that was.              *)
BelowWindowKept ==
  /\ \A h \in 1..Len(disk) : (up /\ h <= start) \/ (~up /\ Clear(disk, h))
                               => h \in 1..Len(disk') /\ disk'[h] = disk[h]
  /\ up /\ up' /\ Len(disk') < Len(disk) => refused \/ refused'

(* The file of a reorg, complete or not, keeps what is below the fork, and   *)
(* the fork is not below the window.                                         *)
LEMMA RewritingKeepsBelow ==
  ASSUME NodeInv, NEW common \in 0..MaxHeight, NEW n \in 1..(MaxHeight - common),
         NEW new \in [1..n -> Branch], CanReorg(common, new), NEW k \in 0..n,
         disk' = Rewritten(common, new, k), NEW h \in 1..Len(disk), h <= start
  PROVE  h \in 1..Len(disk') /\ disk'[h] = disk[h]
<1>1. /\ common \in Nat /\ n \in Nat /\ start <= common /\ start \in Nat
      /\ disk \in Seq(Block)
  BY ReorgFacts DEF NodeInv, ChainTypes
<1>2. Len(disk') = common + k /\ \A i \in 1..common : disk'[i] = disk[i]
  BY RewritingKeeps
<1>3. h \in 1..common /\ k \in Nat
  BY <1>1
<1>4. QED
  BY <1>1, <1>2, <1>3

(* Every step keeps what is below the window. *)
LEMMA StepKeepsBelow ==
  ASSUME NodeInv, [Next]_vars
  PROVE  BelowWindowKept
<1>0. disk \in Seq(Block) /\ Len(disk) \in Nat /\ mem \in Seq(Block) /\ Len(mem) \in Nat
  BY DEF NodeInv, ChainTypes
<1>1. ASSUME disk' = disk PROVE BelowWindowKept
  BY <1>0, <1>1 DEF BelowWindowKept
<1>2. ASSUME NEW b \in Branch, AddBlock(b) \/ ProduceBlock(b)
      PROVE  BelowWindowKept
  <2>1. PICK x \in Block : Commit(x)
    BY <1>2, AddedBlocks
  <2>2. PICK y \in Block : disk' = Append(disk, y)
    BY <2>1 DEF Commit, Block
  <2>3. Len(disk') = Len(disk) + 1 /\ \A h \in 1..Len(disk) : disk'[h] = disk[h]
    BY <1>0, <2>2
  <2>4. \A h \in 1..Len(disk) : h \in 1..Len(disk')
    BY <1>0, <2>3
  <2>5. ~(Len(disk') < Len(disk))
    BY <1>0, <2>3
  <2>6. QED
    BY <2>3, <2>4, <2>5 DEF BelowWindowKept
<1>3. ASSUME NEW common \in 0..MaxHeight, NEW n \in 1..(MaxHeight - common),
             NEW new \in [1..n -> Branch], Reorg(common, new)
      PROVE  BelowWindowKept
  <2>1. CanReorg(common, new) /\ up
    BY <1>3 DEF Reorg, CanReorg, CanFork
  <2>2. n \in 0..n /\ n \in Nat /\ Len(new) = n /\ common \in Nat
    BY <2>1, ReorgFacts
  <2>3. disk' = Rewritten(common, new, n)
    BY <1>3, <2>2 DEF Reorg
  <2>4. \A h \in 1..Len(disk) : h <= start => h \in 1..Len(disk') /\ disk'[h] = disk[h]
    BY <2>1, <2>2, <2>3, RewritingKeepsBelow
  <2>5. ASSUME Len(disk') < Len(disk) PROVE refused
    <3>1. Len(disk') = common + n
      BY <2>1, <2>2, <2>3, RewritingKeeps
    <3>2. Len(mem) < common + n
      BY <2>1, <2>2, ReorgFacts
    <3>3. mem # disk
      BY <3>1, <3>2, <2>2, <2>5, <1>0
    <3>4. QED
      BY <3>3, <2>1 DEF NodeInv, Agreeing
  <2>6. QED
    BY <2>1, <2>4, <2>5 DEF BelowWindowKept
<1>4. ASSUME NEW common \in 0..MaxHeight, NEW n \in 1..(MaxHeight - common),
             NEW new \in [1..n -> Branch], ReorgRefused(common, new)
      PROVE  BelowWindowKept
  <2>1. CanReorg(common, new) /\ up /\ refused'
    BY <1>4 DEF ReorgRefused, CanReorg, CanFork
  <2>2. Len(new) = n /\ n \in Nat
    BY <2>1, ReorgFacts
  <2>3. CASE disk' = disk
    BY <2>3, <1>1
  <2>4. ASSUME NEW k \in 0..(n - 1), disk' = Rewritten(common, new, k)
        PROVE  BelowWindowKept
    <3>1. k \in 0..n
      BY <2>2
    <3>2. \A h \in 1..Len(disk) : h <= start => h \in 1..Len(disk') /\ disk'[h] = disk[h]
      BY <3>1, <2>1, <2>4, RewritingKeepsBelow
    <3>3. QED
      BY <3>2, <2>1 DEF BelowWindowKept
  <2>5. QED
    BY <2>2, <2>3, <2>4, <1>4 DEF ReorgRefused
<1>5. ASSUME NEW common \in 0..MaxHeight, NEW n \in 1..(MaxHeight - common),
             NEW new \in [1..n -> Branch], CrashInReorg(common, new)
      PROVE  BelowWindowKept
  <2>1. CanReorg(common, new) /\ up /\ ~up'
    BY <1>5 DEF CrashInReorg, CanReorg, CanFork, Die
  <2>2. Len(new) = n
    BY <2>1, ReorgFacts
  <2>3. PICK k \in 0..n : disk' = Rewritten(common, new, k)
    BY <1>5, <2>2 DEF CrashInReorg
  <2>4. \A h \in 1..Len(disk) : h <= start => h \in 1..Len(disk') /\ disk'[h] = disk[h]
    BY <2>1, <2>3, RewritingKeepsBelow
  <2>5. QED
    BY <2>1, <2>4 DEF BelowWindowKept
<1>6. ASSUME NEW m \in 0..MaxHeight, ReplayBoot(m)
      PROVE  BelowWindowKept
  <2>1. ~up /\ disk' = Upto(disk, m) /\ m <= Len(disk) /\ Follows(m) /\ m \in Nat
    BY <1>6, ChainAssumption DEF ReplayBoot
  <2>2. Len(disk') = m /\ \A i \in 1..m : disk'[i] = disk[i]
    BY <1>0, <2>1, UptoFacts
  <2>3. ASSUME NEW h \in 1..Len(disk), Clear(disk, h)
        PROVE  h \in 1..m
    <3>1. SUFFICES ASSUME m < h PROVE FALSE
      BY <2>1, <1>0
    <3>2. m + 1 \in 1..h /\ m < Len(disk)
      BY <3>1, <2>1, <1>0
    <3>3. QED
      BY <3>2, <2>1, <2>3 DEF Clear, Follows
  <2>4. QED
    BY <2>1, <2>2, <2>3 DEF BelowWindowKept
<1>7. CASE Writer \/ Crash \/ Shutdown \/ FastBoot \/ UNCHANGED vars
  <2>1. disk' = disk
    BY <1>7 DEF Writer, WriterChecks, WriterWrites, WriterRechecks, Crash, Shutdown,
                FastBoot, vars
  <2>2. QED
    BY <1>1, <2>1
<1>8. QED
  BY <1>2, <1>3, <1>4, <1>5, <1>6, <1>7, StepCases

(* No step, not even a crash while a reorg rewrites the file or a write that *)
(* fails in one, takes a block from the disk that is below the window, and   *)
(* no boot one that follows from the blocks below it.  While the process     *)
(* runs the file gets shorter only by a reorg the disk refuses, or by the    *)
(* one that makes it good (the window guard of reorg, truncate and append in *)
(* its order, the discard of load_from_disk).                                *)
THEOREM DiskKeepsSettledBlocks == Spec => [][BelowWindowKept]_vars
<1>1. NodeInv /\ [Next]_vars => [BelowWindowKept]_vars
  BY StepKeepsBelow
<1>2. QED
  BY <1>1, NodeInvHolds, PTL DEF Spec
=============================================================================
