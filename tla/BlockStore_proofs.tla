-------------------------- MODULE BlockStore_proofs --------------------------
(***************************************************************************)
(* Proofs about BlockStore, for files of any length: the index describes   *)
(* the file, every boot can read it, and a boot finds what was stored, all *)
(* up to a frayed end.                                                     *)
(*                                                                         *)
(* The inductive invariant says what the file holds.  It begins with the   *)
(* firm lines, each with its newline.  Without a frayed end a running      *)
(* process has nothing else in it, and a process that died at most one     *)
(* more line, whole or not.  Behind a frayed end it may hold anything in   *)
(* which a newline follows a text; that is enough for a scan that does not *)
(* fail to find lines first and then at most one that is torn.             *)
(***************************************************************************)
EXTENDS BlockStore, Lemmas

Cell == Line \cup {"nl", "half", "nul"}

(* The first n lines of q are the first of f, each with its newline. *)
Holds(f, q, n) == \A h \in 1..n : f[2 * h - 1] = q[h] /\ f[2 * h] = "nl"

(* f is the lines of q, and then a text that has no newline yet. *)
Tailed(f, q) == /\ Holds(f, q, Len(q)) /\ 2 * Len(q) <= Len(f)
                /\ \A i \in (2 * Len(q) + 1)..Len(f) : f[i] # "nl"

Whole(f, q) == Tailed(f, q) /\ Len(f) = 2 * Len(q)

(* No blank line: a newline is only written behind a text. *)
Texts(f) == \A i \in 1..Len(f) : f[i] = "nl" => i > 1 /\ f[i - 1] \in Line

Index(n) == [h \in 1..n |-> 2 * (h - 1)]

Types == /\ log \in Seq(Line) /\ up \in BOOLEAN /\ file \in Seq(Cell)
         /\ frayed \in 0..(Len(log) + 1)

(* The inductive invariant. *)
StoreInv ==
  /\ Types /\ Texts(file)
  /\ up => offsets = Index(Len(log))
  /\ Holds(file, log, Firm) /\ 2 * Firm <= Len(file)
  /\ up /\ frayed = 0 => Whole(file, log)
  /\ ~up /\ frayed = 0 => \/ Tailed(file, log)
                          \/ \E l \in Line : Whole(file, Append(log, l))

-----------------------------------------------------------------------------
(* Every cell is the text or the newline of some line. *)
LEMMA TextOrNewline ==
  ASSUME NEW i \in Nat
  PROVE  \E h \in Nat : i = 2 * h \/ i = 2 * h + 1
<1> DEFINE T == {n \in Nat : \E h \in Nat : n = 2 * h \/ n = 2 * h + 1}
<1>1. 0 \in T
  <2>1. 0 \in Nat /\ 0 = 2 * 0
    OBVIOUS
  <2>2. QED
    BY <2>1
<1>2. ASSUME NEW n \in Nat, n \in T
      PROVE  n + 1 \in T
  <2>1. PICK h \in Nat : n = 2 * h \/ n = 2 * h + 1
    BY <1>2
  <2>2. CASE n = 2 * h
    BY <2>2
  <2>3. CASE n = 2 * h + 1
    <3>1. h + 1 \in Nat /\ n + 1 = 2 * (h + 1)
      BY <2>3
    <3>2. \E g \in Nat : n + 1 = 2 * g \/ n + 1 = 2 * g + 1
      BY <3>1
    <3>3. QED
      BY <3>2
  <2>4. QED
    BY <2>1, <2>2, <2>3
<1>3. Nat \subseteq T
  <2> HIDE DEF T
  <2>1. QED
    BY <1>1, <1>2, SetInduction
<1>4. QED
  BY <1>3

(* There are n of the first n offsets. *)
LEMMA OffsetsBelow ==
  ASSUME NEW n \in Nat
  PROVE  /\ IsFiniteSet({2 * (h - 1) : h \in 1..n})
         /\ Cardinality({2 * (h - 1) : h \in 1..n}) = n
<1> DEFINE T == {2 * (h - 1) : h \in 1..n}
           b == [h \in 1..n |-> 2 * (h - 1)]
<1>1. IsFiniteSet(1..n) /\ Cardinality(1..n) = n
  <2>1. 1 \in Int /\ n \in Int
    OBVIOUS
  <2>2. IsFiniteSet(1..n) /\ Cardinality(1..n) = IF 1 > n THEN 0 ELSE n - 1 + 1
    BY <2>1, FS_Interval
  <2>3. QED
    BY <2>2
<1>2. \E f : f \in Bijection(1..n, T)
  <2>1. b \in [1..n -> T] /\ \A h \in 1..n : b[h] = 2 * (h - 1)
    OBVIOUS
  <2>2. \A g, h \in 1..n : 2 * (g - 1) = 2 * (h - 1) => g = h
    OBVIOUS
  <2>3. \A t \in T : \E h \in 1..n : t = 2 * (h - 1)
    OBVIOUS
  <2> HIDE DEF b, T
  <2>4. b \in Injection(1..n, T)
    BY <2>1, <2>2 DEF Injection, IsInjective
  <2>5. b \in Surjection(1..n, T)
    BY <2>1, <2>3 DEF Surjection
  <2>6. QED
    BY <2>4, <2>5 DEF Bijection
<1> HIDE DEF T
<1>3. IsFiniteSet(T) /\ Cardinality(T) = n
  BY <1>1, <1>2, FS_Bijection DEF ExistsBijection
<1>4. QED
  BY <1>3 DEF T

(* The scan pushes the offsets in the order of the file. *)
LEMMA InOrderIsIndex ==
  ASSUME NEW n \in Nat
  PROVE  InOrder({2 * (h - 1) : h \in 1..n}) = Index(n)
<1> DEFINE T == {2 * (h - 1) : h \in 1..n}
           Below(s) == {r \in T : r < s}
<1>1. Cardinality(T) = n
  BY OffsetsBelow
<1>2. ASSUME NEW h \in 1..n
      PROVE  Cardinality(Below(2 * (h - 1))) = h - 1
  <2>1. Below(2 * (h - 1)) = {2 * (g - 1) : g \in 1..(h - 1)}
    <3>1. ASSUME NEW r \in Below(2 * (h - 1))
          PROVE  r \in {2 * (g - 1) : g \in 1..(h - 1)}
      <4>1. PICK g \in 1..n : r = 2 * (g - 1)
        OBVIOUS
      <4>2. g \in 1..(h - 1)
        BY <4>1, <3>1
      <4>3. QED
        BY <4>1, <4>2
    <3>2. ASSUME NEW g \in 1..(h - 1)
          PROVE  2 * (g - 1) \in Below(2 * (h - 1))
      <4>1. g \in 1..n /\ 2 * (g - 1) < 2 * (h - 1)
        OBVIOUS
      <4>2. QED
        BY <4>1
    <3>3. QED
      BY <3>1, <3>2
  <2>2. h - 1 \in Nat
    OBVIOUS
  <2>3. QED
    BY <2>1, <2>2, OffsetsBelow
<1>3. ASSUME NEW i \in 1..n
      PROVE  (CHOOSE s \in T : Cardinality(Below(s)) = i - 1) = 2 * (i - 1)
  <2>1. 2 * (i - 1) \in T /\ Cardinality(Below(2 * (i - 1))) = i - 1
    BY <1>2
  <2>2. ASSUME NEW s \in T, Cardinality(Below(s)) = i - 1
        PROVE  s = 2 * (i - 1)
    <3>1. PICK h \in 1..n : s = 2 * (h - 1)
      OBVIOUS
    <3> HIDE DEF Below
    <3>2. h - 1 = i - 1
      BY <1>2, <2>2, <3>1
    <3>3. h = i
      BY <3>2
    <3>4. QED
      BY <3>1, <3>3
  <2> HIDE DEF Below, T
  <2>3. QED
    BY <2>1, <2>2
<1>4. InOrder(T) = [i \in 1..n |-> CHOOSE s \in T : Cardinality(Below(s)) = i - 1]
  BY <1>1 DEF InOrder
<1> HIDE DEF Below, T
<1>5. InOrder(T) = [i \in 1..n |-> 2 * (i - 1)]
  BY <1>3, <1>4
<1>6. QED
  BY <1>5 DEF Index, T

(* Sequences that agree up to n have the same prefix of length n. *)
LEMMA SamePrefix ==
  ASSUME NEW p \in Seq(Line), NEW q \in Seq(Line), NEW n \in Nat, n <= Len(p), n <= Len(q),
         \A h \in 1..n : p[h] = q[h]
  PROVE  SubSeq(p, 1, n) = SubSeq(q, 1, n)
<1> DEFINE r == SubSeq(p, 1, n)
           s == SubSeq(q, 1, n)
<1>1. r \in Seq(Line) /\ Len(r) = n /\ \A h \in 1..n : r[h] = p[h]
  OBVIOUS
<1>2. s \in Seq(Line) /\ Len(s) = n /\ \A h \in 1..n : s[h] = q[h]
  OBVIOUS
<1> HIDE DEF r, s
<1>3. r = s
  BY <1>1, <1>2
<1>4. QED
  BY <1>3 DEF r, s

-----------------------------------------------------------------------------
(* Where scan finds the end of a line. *)
LEMMA LineEndIs ==
  ASSUME file \in Seq(Cell), NEW s \in Nat, NEW e \in s..Len(file),
         e = Len(file) \/ file[e + 1] = "nl", \A i \in (s + 1)..e : file[i] # "nl"
  PROVE  LineEnd(s) = e
<1> DEFINE P(x) == /\ x = Len(file) \/ file[x + 1] = "nl"
                   /\ \A i \in (s + 1)..x : file[i] # "nl"
<1>0. Len(file) \in Nat
  OBVIOUS
<1>1. P(e)
  OBVIOUS
<1>2. ASSUME NEW x \in s..Len(file), P(x)
      PROVE  x = e
  <2>1. ~(x < e)
    <3>1. SUFFICES ASSUME x < e PROVE FALSE
      OBVIOUS
    <3>2. x # Len(file) /\ x + 1 \in (s + 1)..e
      BY <3>1, <1>0
    <3>3. QED
      BY <1>2, <3>2
  <2>2. ~(e < x)
    <3>1. SUFFICES ASSUME e < x PROVE FALSE
      OBVIOUS
    <3>2. e # Len(file) /\ e + 1 \in (s + 1)..x
      BY <3>1, <1>0
    <3>3. QED
      BY <1>2, <3>2
  <2>3. QED
    BY <2>1, <2>2, <1>0
<1>3. LineEnd(s) = CHOOSE x \in s..Len(file) : P(x)
  BY DEF LineEnd
<1> HIDE DEF P
<1>4. QED
  BY <1>1, <1>2, <1>3

(* A newline of whole lines stands at an even place. *)
LEMMA HoldsFacts ==
  ASSUME NEW f \in Seq(Cell), NEW q \in Seq(Line), NEW n \in Nat, n <= Len(q), Holds(f, q, n)
  PROVE  /\ \A h \in 1..n : /\ f[2 * h - 1] = q[h] /\ f[2 * h - 1] # "nl"
                            /\ f[2 * h - 1] \in Line /\ f[2 * h] = "nl"
         /\ \A i \in 1..(2 * n) : f[i] = "nl" => \E h \in 1..n : i = 2 * h
<1>0. Len(q) \in Nat
  OBVIOUS
<1>1. ASSUME NEW h \in 1..n
      PROVE  /\ f[2 * h - 1] = q[h] /\ f[2 * h - 1] # "nl"
             /\ f[2 * h - 1] \in Line /\ f[2 * h] = "nl"
  <2>1. f[2 * h - 1] = q[h] /\ f[2 * h] = "nl"
    BY DEF Holds
  <2>2. h \in 1..Len(q)
    BY <1>0
  <2>3. q[h] \in Line
    BY <2>2
  <2>4. QED
    BY <2>1, <2>3, StoreAssumption
<1>2. ASSUME NEW i \in 1..(2 * n), f[i] = "nl"
      PROVE  \E h \in 1..n : i = 2 * h
  <2>0. i \in Nat
    OBVIOUS
  <2>1. PICK k \in Nat : i = 2 * k \/ i = 2 * k + 1
    BY <2>0, TextOrNewline
  <2>2. CASE i = 2 * k
    <3>1. k \in 1..n
      BY <2>2
    <3>2. QED
      BY <2>2, <3>1
  <2>3. CASE i = 2 * k + 1
    <3>1. k + 1 \in 1..n /\ i = 2 * (k + 1) - 1
      BY <2>3
    <3>2. f[i] # "nl"
      BY <1>1, <3>1
    <3>3. QED
      BY <1>2, <3>2
  <2>4. QED
    BY <2>1, <2>2, <2>3
<1>3. QED
  BY <1>1, <1>2

(* scan finds every line, and behind them what has no newline yet. *)
LEMMA ScanFinds ==
  ASSUME file \in Seq(Cell), NEW q \in Seq(Line), Tailed(file, q)
  PROVE  /\ \A h \in 1..Len(q) : /\ 2 * (h - 1) \in Starts /\ Parses(2 * (h - 1))
                                 /\ Complete(2 * (h - 1))
         /\ \A s \in Starts : \/ \E h \in 1..Len(q) : s = 2 * (h - 1)
                              \/ s = 2 * Len(q) /\ Len(file) > 2 * Len(q)
         /\ Len(file) > 2 * Len(q) => 2 * Len(q) \in Starts /\ LineEnd(2 * Len(q)) = Len(file)
<1>0. Len(file) \in Nat /\ Len(q) \in Nat /\ 2 * Len(q) <= Len(file) /\ Holds(file, q, Len(q))
  BY DEF Tailed
<1>1. /\ \A h \in 1..Len(q) : /\ file[2 * h - 1] = q[h] /\ file[2 * h - 1] # "nl"
                              /\ file[2 * h - 1] \in Line /\ file[2 * h] = "nl"
      /\ \A i \in 1..(2 * Len(q)) : file[i] = "nl" => \E h \in 1..Len(q) : i = 2 * h
  <2>1. \A n \in Nat : n <= Len(q) /\ Holds(file, q, n) =>
          /\ \A h \in 1..n : /\ file[2 * h - 1] = q[h] /\ file[2 * h - 1] # "nl"
                              /\ file[2 * h - 1] \in Line /\ file[2 * h] = "nl"
          /\ \A i \in 1..(2 * n) : file[i] = "nl" => \E h \in 1..n : i = 2 * h
    BY HoldsFacts
  <2>2. Len(q) <= Len(q)
    BY <1>0
  <2>3. QED
    BY <1>0, <2>1, <2>2
<1>2. ASSUME NEW h \in 1..Len(q)
      PROVE  2 * (h - 1) \in Starts /\ Parses(2 * (h - 1)) /\ Complete(2 * (h - 1))
  <2> DEFINE s == 2 * (h - 1)
  <2>1. s \in Nat /\ s + 1 = 2 * h - 1 /\ s + 2 = 2 * h /\ s + 2 <= Len(file)
    BY <1>0
  <2>2. file[s + 1] # "nl" /\ file[s + 1] \in Line /\ file[s + 2] = "nl"
    BY <1>1, <2>1
  <2>3. s = 0 \/ file[s] = "nl"
    <3>1. CASE h = 1
      BY <3>1
    <3>2. CASE h # 1
      <4>1. h - 1 \in 1..Len(q)
        BY <1>0, <3>2
      <4>2. QED
        BY <1>1, <4>1
    <3>3. QED
      BY <3>1, <3>2
  <2> HIDE DEF s
  <2>4. s \in 0..(Len(file) - 1) /\ s + 1 \in s..Len(file) /\ s + 1 < Len(file) /\ (s + 1) + 1 = s + 2
    BY <1>0, <2>1
  <2>5. \A i \in (s + 1)..(s + 1) : file[i] # "nl"
    BY <2>1, <2>2
  <2>6. LineEnd(s) = s + 1
    BY <2>1, <2>2, <2>4, <2>5, LineEndIs
  <2>7. s \in Starts /\ Parses(s) /\ Complete(s)
    BY <2>2, <2>3, <2>4, <2>6 DEF Starts, Parses, Complete
  <2>8. QED
    BY <2>7 DEF s
<1>3. ASSUME Len(file) > 2 * Len(q)
      PROVE  2 * Len(q) \in Starts /\ LineEnd(2 * Len(q)) = Len(file)
  <2> DEFINE s == 2 * Len(q)
  <2>1. s \in Nat /\ s < Len(file) /\ Len(file) \in s..Len(file) /\ \A i \in (s + 1)..Len(file) : file[i] # "nl"
    BY <1>0, <1>3 DEF Tailed
  <2>2. s = 0 \/ file[s] = "nl"
    <3>1. CASE Len(q) = 0
      BY <3>1
    <3>2. CASE Len(q) # 0
      <4>1. Len(q) \in 1..Len(q)
        BY <1>0, <3>2
      <4>2. QED
        BY <1>1, <4>1
    <3>3. QED
      BY <3>1, <3>2
  <2> HIDE DEF s
  <2>3. LineEnd(s) = Len(file)
    BY <2>1, LineEndIs
  <2>4. s \in 0..(Len(file) - 1) /\ s + 1 \in (s + 1)..Len(file)
    BY <1>0, <2>1
  <2>5. s \in Starts
    BY <2>1, <2>2, <2>4 DEF Starts
  <2>6. QED
    BY <2>3, <2>5 DEF s
<1>4. ASSUME NEW s \in Starts
      PROVE  \/ \E h \in 1..Len(q) : s = 2 * (h - 1)
             \/ s = 2 * Len(q) /\ Len(file) > 2 * Len(q)
  <2>1. s \in 0..(Len(file) - 1) /\ (s = 0 \/ file[s] = "nl")
    BY DEF Starts
  <2>2. s \in Nat /\ s < Len(file)
    BY <1>0, <2>1
  <2>3. PICK k \in Nat : s = 2 * k /\ k <= Len(q)
    <3>1. CASE s = 0
      <4>1. 0 \in Nat /\ s = 2 * 0 /\ 0 <= Len(q)
        BY <1>0, <3>1
      <4>2. QED
        BY <4>1
    <3>2. CASE s # 0
      <4>1. s \in 1..(2 * Len(q)) /\ file[s] = "nl"
        <5>1. file[s] = "nl" /\ s \in 1..Len(file)
          BY <1>0, <2>1, <2>2, <3>2
        <5>2. ~(s \in (2 * Len(q) + 1)..Len(file))
          BY <5>1 DEF Tailed
        <5>3. QED
          BY <1>0, <5>1, <5>2
      <4>2. PICK h \in 1..Len(q) : s = 2 * h
        BY <1>1, <4>1
      <4>3. h \in Nat /\ h <= Len(q)
        BY <1>0
      <4>4. QED
        BY <4>2, <4>3
    <3>3. QED
      BY <3>1, <3>2
  <2>4. CASE k < Len(q)
    <3>1. k + 1 \in 1..Len(q) /\ s = 2 * ((k + 1) - 1)
      BY <1>0, <2>3, <2>4
    <3>2. QED
      BY <3>1
  <2>5. CASE k = Len(q)
    BY <1>0, <2>2, <2>3, <2>5
  <2>6. QED
    BY <1>0, <2>3, <2>4, <2>5
<1>5. QED
  BY <1>2, <1>3, <1>4

(* Lines and a text without its newline: a boot can read that. *)
LEMMA LinesReadable ==
  ASSUME file \in Seq(Cell), NEW q \in Seq(Line), Tailed(file, q)
  PROVE  Readable
<1>1. ASSUME NEW s \in Starts, Complete(s)
      PROVE  Parses(s)
  <2>1. CASE \E h \in 1..Len(q) : s = 2 * (h - 1)
    BY <2>1, ScanFinds
  <2>2. CASE s = 2 * Len(q) /\ Len(file) > 2 * Len(q)
    <3>1. LineEnd(s) = Len(file) /\ Len(file) \in Nat
      BY <2>2, ScanFinds
    <3>2. QED
      BY <1>1, <3>1 DEF Complete
  <2>3. QED
    BY <2>1, <2>2, ScanFinds
<1>2. QED
  BY <1>1 DEF Readable

(* The converse: a file that can be read is lines and at most one text that  *)
(* has no newline yet, whatever was written before.                          *)
LEMMA ReadableTailed ==
  ASSUME file \in Seq(Cell), Texts(file), Readable
  PROVE  \E q \in Seq(Line) : Tailed(file, q)
<1> DEFINE P(n) == /\ 2 * n <= Len(file)
                   /\ \A h \in 1..n : file[2 * h - 1] \in Line /\ file[2 * h] = "nl"
           T == {n \in Nat : P(n)}
<1>0. Len(file) \in Nat
  OBVIOUS
<1>1. PICK n \in Nat : P(n) /\ ~P(n + 1)
  <2>1. 0 \in T
    BY <1>0
  <2>2. Len(file) + 1 \in Nat /\ Len(file) + 1 \notin T
    BY <1>0
  <2>3. ~(\A n \in Nat : n \in T => n + 1 \in T)
    <3> HIDE DEF T
    <3>1. QED
      BY <2>1, <2>2, SetInduction
  <2>4. QED
    BY <2>3
<1> DEFINE s == 2 * n
<1>2. s \in Nat /\ s <= Len(file)
  BY <1>0, <1>1
<1>3. s = 0 \/ file[s] = "nl"
  <2>1. CASE n = 0
    BY <2>1
  <2>2. CASE n # 0
    <3>1. n \in 1..n
      BY <2>2
    <3>2. QED
      BY <1>1, <3>1
  <2>3. QED
    BY <2>1, <2>2
<1>4. \A i \in (s + 1)..Len(file) : file[i] # "nl"
  <2> DEFINE J == {i \in (s + 1)..Len(file) : file[i] = "nl"}
  <2>1. SUFFICES ASSUME J # {} PROVE FALSE
    OBVIOUS
  <2>2. J \in SUBSET Nat
    BY <1>0, <1>2
  <2>3. PICK j \in J : \A y \in J : j <= y
    <3> HIDE DEF J
    <3>1. QED
      BY <2>1, <2>2, LeastElement
  <2>4. j \in (s + 1)..Len(file) /\ file[j] = "nl" /\ j \in Nat /\ j \in 1..Len(file)
    BY <1>0, <1>2, <2>2
  <2>5. file[s + 1] # "nl" /\ s + 1 \in 1..Len(file)
    <3>1. s + 1 \in 1..Len(file)
      BY <1>0, <1>2, <2>4
    <3>2. ASSUME file[s + 1] = "nl" PROVE FALSE
      <4>1. s + 1 > 1 /\ file[(s + 1) - 1] \in Line
        BY <3>1, <3>2 DEF Texts
      <4>2. (s + 1) - 1 = s /\ s # 0
        BY <1>2, <4>1
      <4>3. QED
        BY <1>3, <4>1, <4>2, StoreAssumption
    <3>3. QED
      BY <3>1, <3>2
  <2>6. s \in Starts
    <3>1. s \in 0..(Len(file) - 1)
      BY <1>0, <1>2, <2>5
    <3> HIDE DEF s
    <3>2. QED
      BY <1>3, <2>5, <3>1 DEF Starts
  <2>7. LineEnd(s) = j - 1
    <3>1. j - 1 \in s..Len(file) /\ (j - 1) + 1 = j
      BY <1>0, <1>2, <2>4
    <3>2. \A i \in (s + 1)..(j - 1) : file[i] # "nl"
      <4>1. TAKE i \in (s + 1)..(j - 1)
      <4>2. i \in (s + 1)..Len(file) /\ ~(j <= i)
        BY <1>0, <1>2, <2>4
      <4>3. QED
        BY <2>3, <4>2
    <3> HIDE DEF s, J
    <3>3. QED
      BY <1>2, <2>4, <3>1, <3>2, LineEndIs
  <2>8. Complete(s)
    BY <1>0, <2>4, <2>7 DEF Complete
  <2>9. LineEnd(s) = s + 1 /\ file[s + 1] \in Line
    <3> HIDE DEF s
    <3>1. QED
      BY <2>6, <2>8 DEF Readable, Parses
  <2>10. j = s + 2
    BY <1>2, <2>4, <2>7, <2>9
  <2>11. P(n + 1)
    <3>1. 2 * (n + 1) = s + 2 /\ 2 * (n + 1) - 1 = s + 1 /\ s + 2 <= Len(file)
      BY <1>0, <2>4, <2>10
    <3>2. ASSUME NEW h \in 1..(n + 1)
          PROVE  file[2 * h - 1] \in Line /\ file[2 * h] = "nl"
      <4>1. CASE h \in 1..n
        BY <1>1, <4>1
      <4>2. CASE h = n + 1
        BY <2>4, <2>9, <2>10, <3>1, <4>2
      <4>3. QED
        BY <4>1, <4>2
    <3>3. QED
      BY <3>1, <3>2
  <2>12. QED
    BY <1>1, <2>11
<1> DEFINE q == [h \in 1..n |-> file[2 * h - 1]]
<1>5. q \in Seq(Line) /\ Len(q) = n /\ \A h \in 1..n : q[h] = file[2 * h - 1]
  <2>1. \A h \in 1..n : file[2 * h - 1] \in Line
    BY <1>1
  <2>2. q \in [1..n -> Line]
    BY <2>1
  <2>3. q \in Seq(Line)
    BY <2>2
  <2>4. DOMAIN q = 1..n /\ \A h \in 1..n : q[h] = file[2 * h - 1]
    OBVIOUS
  <2> HIDE DEF q
  <2>5. QED
    BY <2>3, <2>4
<1> HIDE DEF q
<1>6. Tailed(file, q)
  BY <1>1, <1>2, <1>4, <1>5 DEF Tailed, Holds
<1>7. QED
  BY <1>5, <1>6

-----------------------------------------------------------------------------
(* The end the index knows is the end of the file. *)
LEMMA FileBytesIs ==
  ASSUME log \in Seq(Line), offsets = Index(Len(log))
  PROVE  FileBytes = 2 * Len(log)
<1>1. Len(log) \in Nat /\ Len(offsets) = Len(log) /\ (offsets = <<>> <=> Len(log) = 0)
  <2>1. Len(log) \in Nat /\ Len(Index(Len(log))) = Len(log)
    BY DEF Index
  <2>2. offsets \in Seq(Int)
    BY <2>1 DEF Index
  <2>3. QED
    BY <2>1, <2>2
<1>2. CASE Len(log) = 0
  BY <1>1, <1>2 DEF FileBytes
<1>3. CASE Len(log) # 0
  <2>1. offsets[Len(log)] = 2 * (Len(log) - 1)
    BY <1>1, <1>3 DEF Index
  <2>2. FileBytes = 2 * (Len(log) - 1) + 2
    BY <1>1, <1>3, <2>1 DEF FileBytes
  <2>3. QED
    BY <1>1, <2>2
<1>4. QED
  BY <1>2, <1>3

(* set_len keeps the cells before the cut, and never makes a newline. *)
LEMMA SetLenFacts ==
  ASSUME NEW f \in Seq(Cell), NEW n \in Nat
  PROVE  /\ SetLen(f, n) \in Seq(Cell) /\ Len(SetLen(f, n)) = n
         /\ \A i \in 1..n : SetLen(f, n)[i] = IF i <= Len(f) THEN f[i] ELSE "nul"
<1> DEFINE g == [i \in 1..n |-> IF i <= Len(f) THEN f[i] ELSE "nul"]
<1>1. \A i \in 1..n : g[i] \in Cell
  <2>1. TAKE i \in 1..n
  <2>2. CASE i <= Len(f)
    <3>1. i \in 1..Len(f)
      BY <2>2
    <3>2. f[i] \in Cell
      BY <3>1
    <3>3. QED
      BY <2>2, <3>2
  <2>3. CASE ~(i <= Len(f))
    BY <2>3 DEF Cell
  <2>4. QED
    BY <2>2, <2>3
<1>2. g \in [1..n -> Cell]
  BY <1>1
<1>3. DOMAIN g = 1..n /\ \A i \in 1..n : g[i] = IF i <= Len(f) THEN f[i] ELSE "nul"
  OBVIOUS
<1>4. SetLen(f, n) = g
  BY DEF SetLen
<1> HIDE DEF g
<1>5. g \in Seq(Cell)
  BY <1>2
<1>6. Len(g) = n
  BY <1>3, <1>5
<1>7. QED
  BY <1>3, <1>4, <1>5, <1>6

(* A cut leaves no blank line, and the lines before it. *)
LEMMA CutFacts ==
  ASSUME NEW f \in Seq(Cell), Texts(f), NEW n \in Nat, NEW q, NEW k \in Nat, Holds(f, q, k),
         2 * k <= n, 2 * k <= Len(f)
  PROVE  /\ SetLen(f, n) \in Seq(Cell) /\ Len(SetLen(f, n)) = n
         /\ Texts(SetLen(f, n)) /\ Holds(SetLen(f, n), q, k)
<1> DEFINE g == SetLen(f, n)
<1>1. /\ g \in Seq(Cell) /\ Len(g) = n
      /\ \A i \in 1..n : g[i] = IF i <= Len(f) THEN f[i] ELSE "nul"
  BY SetLenFacts
<1>2. Len(f) \in Nat
  OBVIOUS
<1> HIDE DEF g
<1>3. Holds(g, q, k)
  <2>1. ASSUME NEW h \in 1..k
        PROVE  g[2 * h - 1] = q[h] /\ g[2 * h] = "nl"
    <3>1. 2 * h - 1 \in 1..n /\ 2 * h \in 1..n /\ 2 * h - 1 <= Len(f) /\ 2 * h <= Len(f)
      BY <1>2
    <3>2. g[2 * h - 1] = f[2 * h - 1] /\ g[2 * h] = f[2 * h]
      BY <1>1, <3>1
    <3>3. QED
      BY <3>2 DEF Holds
  <2>2. QED
    BY <2>1 DEF Holds
<1>4. Texts(g)
  <2>1. ASSUME NEW i \in 1..n, g[i] = "nl"
        PROVE  i > 1 /\ g[i - 1] \in Line
    <3>1. i <= Len(f) /\ f[i] = "nl" /\ i \in 1..Len(f)
      BY <1>1, <1>2, <2>1
    <3>2. i > 1 /\ f[i - 1] \in Line
      BY <3>1 DEF Texts
    <3>3. i - 1 \in 1..n /\ i - 1 <= Len(f)
      BY <1>2, <3>1, <3>2
    <3>4. g[i - 1] = f[i - 1]
      BY <1>1, <3>3
    <3>5. QED
      BY <3>2, <3>4
  <2>2. QED
    BY <1>1, <2>1 DEF Texts
<1>5. QED
  BY <1>1, <1>3, <1>4 DEF g

(* What is left of lines that a cut takes is whole. *)
LEMMA CutWhole ==
  ASSUME NEW f \in Seq(Cell), Texts(f), NEW q \in Seq(Line), Holds(f, q, Len(q)),
         2 * Len(q) <= Len(f)
  PROVE  /\ SetLen(f, 2 * Len(q)) \in Seq(Cell) /\ Texts(SetLen(f, 2 * Len(q)))
         /\ Whole(SetLen(f, 2 * Len(q)), q)
<1> DEFINE n == 2 * Len(q)
           g == SetLen(f, n)
<1>1. Len(q) \in Nat /\ n \in Nat /\ 2 * Len(q) <= n
  OBVIOUS
<1>2. g \in Seq(Cell) /\ Len(g) = n /\ Texts(g) /\ Holds(g, q, Len(q))
  <2> HIDE DEF n
  <2>1. QED
    BY <1>1, CutFacts DEF n
<1> HIDE DEF g
<1>3. Whole(g, q)
  BY <1>1, <1>2 DEF Whole, Tailed
<1>4. QED
  BY <1>2, <1>3 DEF g

(* Holds speaks of the first lines only. *)
LEMMA HoldsSame ==
  ASSUME NEW f, NEW p, NEW q, NEW n \in Nat, Holds(f, p, n), \A h \in 1..n : p[h] = q[h]
  PROVE  Holds(f, q, n)
  BY DEF Holds

(* A write at the end keeps the lines before it. *)
LEMMA Written ==
  ASSUME NEW f \in Seq(Cell), Texts(f), NEW q, NEW k \in Nat, Holds(f, q, k), 2 * k <= Len(f),
         NEW l \in Line, NEW t \in Torn(l) \cup {<<l, "nl">>}
  PROVE  /\ f \o t \in Seq(Cell) /\ Texts(f \o t)
         /\ Holds(f \o t, q, k) /\ 2 * k <= Len(f \o t)
         /\ \A i \in 1..Len(f) : (f \o t)[i] = f[i]
         /\ t \in Torn(l) => \A i \in (Len(f) + 1)..Len(f \o t) : (f \o t)[i] # "nl"
<1> DEFINE g == f \o t
<1>1. t \in Seq(Cell) /\ Len(t) \in 0..2 /\ (Len(t) >= 1 => t[1] # "nl")
      /\ (Len(t) = 2 => t[1] \in Line) /\ (t \in Torn(l) => Len(t) <= 1)
  <2>1. l # "nl" /\ "nl" # "half"
    BY StoreAssumption
  <2>2. CASE t = <<>>
    BY <2>2
  <2>3. CASE t = <<"half">>
    BY <2>3 DEF Cell
  <2>4. CASE t = <<l>>
    BY <2>1, <2>4 DEF Cell
  <2>5. CASE t = <<l, "nl">>
    <3>1. t \in Seq(Cell) /\ Len(t) = 2 /\ t[1] = l
      BY <2>5 DEF Cell
    <3>2. t \notin Torn(l)
      <4>1. \A u : u = <<>> \/ u = <<"half">> \/ u = <<l>> => Len(u) # 2
        OBVIOUS
      <4>2. \A u : u \in Torn(l) => u = <<>> \/ u = <<"half">> \/ u = <<l>>
        BY DEF Torn
      <4>3. QED
        BY <3>1, <4>1, <4>2
    <3>3. QED
      BY <2>1, <3>1, <3>2
  <2>6. QED
    BY <2>2, <2>3, <2>4, <2>5 DEF Torn
<1>2. /\ g \in Seq(Cell) /\ Len(f) \in Nat /\ Len(t) \in Nat /\ Len(g) = Len(f) + Len(t)
      /\ (\A i \in 1..Len(f) : g[i] = f[i])
      /\ \A i \in 1..Len(t) : g[Len(f) + i] = t[i]
  BY <1>1
<1>3. Len(f) \in Nat /\ Len(t) \in Nat /\ Len(t) <= 2 /\ Len(g) = Len(f) + Len(t)
  BY <1>1, <1>2
<1> HIDE DEF g
<1>4. Holds(g, q, k) /\ 2 * k <= Len(g)
  <2>1. ASSUME NEW h \in 1..k
        PROVE  g[2 * h - 1] = q[h] /\ g[2 * h] = "nl"
    <3>1. 2 * h - 1 \in 1..Len(f) /\ 2 * h \in 1..Len(f)
      BY <1>2
    <3>2. QED
      BY <1>2, <3>1 DEF Holds
  <2>2. QED
    BY <1>2, <2>1 DEF Holds
<1>5. Texts(g)
  <2>1. ASSUME NEW i \in 1..Len(g), g[i] = "nl"
        PROVE  i > 1 /\ g[i - 1] \in Line
    <3>1. CASE i <= Len(f)
      <4>1. i \in 1..Len(f) /\ f[i] = "nl"
        BY <1>2, <2>1, <3>1
      <4>2. i > 1 /\ f[i - 1] \in Line
        BY <4>1 DEF Texts
      <4>3. i - 1 \in 1..Len(f)
        BY <1>2, <4>1, <4>2
      <4>4. QED
        BY <1>2, <4>2, <4>3
    <3>2. CASE i = Len(f) + 1
      <4>1. Len(t) >= 1 /\ 1 \in 1..Len(t)
        BY <1>2, <3>2
      <4>2. g[i] = t[1]
        BY <1>2, <3>2, <4>1
      <4>3. QED
        BY <1>1, <2>1, <4>1, <4>2
    <3>3. CASE i > Len(f) + 1
      <4>0. i <= Len(f) + Len(t) /\ i \in Int
        BY <1>3
      <4>1. Len(t) = 2 /\ i = Len(f) + 2 /\ i - 1 = Len(f) + 1 /\ 1 \in 1..Len(t) /\ i > 1
        <5>1. \A a, b, x \in Int : b <= 2 /\ x <= a + b /\ x > a + 1 => b = 2 /\ x = a + 2
          OBVIOUS
        <5>2. Len(f) \in Int /\ Len(t) \in Int /\ Len(f) >= 0
          BY <1>3
        <5>3. Len(t) = 2 /\ i = Len(f) + 2
          BY <1>3, <3>3, <4>0, <5>1, <5>2
        <5>4. QED
          BY <5>2, <5>3
      <4>2. g[i - 1] = t[1] /\ t[1] \in Line
        BY <1>1, <1>2, <4>1
      <4>3. QED
        BY <4>1, <4>2
    <3>4. i \in Int
      BY <1>3
    <3>5. QED
      BY <1>3, <3>1, <3>2, <3>3, <3>4
  <2>2. QED
    BY <2>1 DEF Texts
<1>6. ASSUME t \in Torn(l), NEW i \in (Len(f) + 1)..Len(g)
      PROVE  g[i] # "nl"
  <2>0. Len(t) <= 1
    BY <1>1, <1>6
  <2>1. Len(t) = 1 /\ i = Len(f) + 1 /\ 1 \in 1..Len(t)
    <3>1. \A a, b, x \in Int : b <= 1 /\ x <= a + b /\ x >= a + 1 => b = 1 /\ x = a + 1
      OBVIOUS
    <3>2. Len(f) \in Int /\ Len(t) \in Int /\ i \in Int /\ i <= Len(f) + Len(t) /\ i >= Len(f) + 1
      BY <1>3
    <3>3. Len(t) = 1 /\ i = Len(f) + 1
      BY <2>0, <3>1, <3>2
    <3>4. QED
      BY <3>3
  <2>2. g[i] = t[1]
    BY <1>2, <2>1
  <2>3. QED
    BY <1>1, <2>1, <2>2
<1>7. QED
  BY <1>2, <1>4, <1>5, <1>6 DEF g

(* Writing a line and its newline behind whole lines. *)
LEMMA LineAdded ==
  ASSUME NEW f \in Seq(Cell), NEW q \in Seq(Line), Whole(f, q), NEW l \in Line
  PROVE  Whole(f \o <<l, "nl">>, Append(q, l)) /\ Append(q, l) \in Seq(Line)
<1> DEFINE g == f \o <<l, "nl">>
           r == Append(q, l)
           n == Len(q)
<1>1. n \in Nat /\ Len(f) = 2 * n /\ <<l, "nl">> \in Seq(Cell) /\ Holds(f, q, n)
  BY DEF Whole, Tailed, Cell
<1>2. /\ g \in Seq(Cell) /\ Len(g) = 2 * n + 2
      /\ \A i \in 1..(2 * n) : g[i] = f[i]
      /\ g[2 * n + 1] = l /\ g[2 * n + 2] = "nl"
  BY <1>1
<1>3. r \in Seq(Line) /\ Len(r) = n + 1 /\ (\A h \in 1..n : r[h] = q[h]) /\ r[n + 1] = l
  BY <1>1
<1> HIDE DEF g, r
<1>4. ASSUME NEW h \in 1..(n + 1)
      PROVE  g[2 * h - 1] = r[h] /\ g[2 * h] = "nl"
  <2>1. CASE h \in 1..n
    <3>1. 2 * h - 1 \in 1..(2 * n) /\ 2 * h \in 1..(2 * n)
      BY <1>1, <2>1
    <3>2. f[2 * h - 1] = q[h] /\ f[2 * h] = "nl"
      BY <1>1, <2>1 DEF Holds
    <3>3. QED
      BY <1>2, <1>3, <2>1, <3>1, <3>2
  <2>2. CASE h = n + 1
    <3>1. 2 * h - 1 = 2 * n + 1 /\ 2 * h = 2 * n + 2
      BY <1>1, <2>2
    <3>2. QED
      BY <1>2, <1>3, <2>2, <3>1
  <2>3. QED
    BY <1>1, <2>1, <2>2
<1>5. Len(g) = 2 * Len(r) /\ Len(r) \in Nat
  BY <1>1, <1>2, <1>3
<1>6. Holds(g, r, Len(r))
  BY <1>3, <1>4 DEF Holds
<1>7. \A i \in (2 * Len(r) + 1)..Len(g) : g[i] # "nl"
  BY <1>5
<1>8. Whole(g, r)
  BY <1>5, <1>6, <1>7 DEF Whole, Tailed
<1>9. QED
  BY <1>3, <1>8 DEF g, r

-----------------------------------------------------------------------------
(* What the invariant says of a running process. *)
LEMMA RunningFacts ==
  ASSUME StoreInv, up
  PROVE  /\ Len(log) \in Nat /\ Firm \in 0..Len(log) /\ frayed \in 0..(Len(log) + 1)
         /\ frayed # 0 => Firm = frayed - 1
         /\ frayed = 0 => Firm = Len(log) /\ Len(file) = 2 * Len(log)
         /\ FileBytes = 2 * Len(log)
<1>1. Len(log) \in Nat /\ frayed \in 0..(Len(log) + 1) /\ log \in Seq(Line)
  BY DEF StoreInv, Types
<1>2. Firm \in 0..Len(log) /\ (frayed # 0 => Firm = frayed - 1) /\ (frayed = 0 => Firm = Len(log))
  BY <1>1 DEF Firm
<1>3. frayed = 0 => Len(file) = 2 * Len(log)
  BY DEF StoreInv, Whole
<1>4. FileBytes = 2 * Len(log)
  BY <1>1, FileBytesIs DEF StoreInv
<1>5. QED
  BY <1>1, <1>2, <1>3, <1>4

(* The invariant of a running process, from its parts. *)
LEMMA RunningInv ==
  ASSUME log' \in Seq(Line), up' = TRUE, file' \in Seq(Cell), Texts(file'),
         frayed' \in 0..(Len(log') + 1), offsets' = Index(Len(log')),
         Holds(file', log', Firm'), 2 * Firm' <= Len(file'),
         frayed' = 0 => Whole(file', log')
  PROVE  StoreInv'
  BY DEF StoreInv, Types

(* A line appended where the index ends. *)
LEMMA AppendLineStep ==
  ASSUME StoreInv, NEW l \in Line, AppendLine(l)
  PROVE  StoreInv'
<1> DEFINE n == Len(log)
<1>1. up = TRUE
  BY DEF AppendLine, Appending, StoreInv, Types
<1>2. /\ file' = file \o <<l, "nl">> /\ offsets' = Append(offsets, FileBytes)
      /\ log' = Append(log, l) /\ up' = up /\ frayed' = frayed
  BY DEF AppendLine
<1>3. /\ log \in Seq(Line) /\ file \in Seq(Cell) /\ Texts(file) /\ offsets = Index(n)
      /\ Holds(file, log, Firm) /\ 2 * Firm <= Len(file) /\ (frayed = 0 => Whole(file, log))
  BY <1>1 DEF StoreInv, Types
<1>4. n \in Nat /\ Firm \in 0..n /\ Firm \in Nat /\ frayed \in 0..(n + 1) /\ FileBytes = 2 * n
      /\ (frayed # 0 => Firm = frayed - 1)
  BY <1>1, RunningFacts
<1>5. log' \in Seq(Line) /\ Len(log') = n + 1 /\ \A h \in 1..n : log'[h] = log[h]
  BY <1>2, <1>3
<1>6. file' \in Seq(Cell) /\ Texts(file') /\ Holds(file', log, Firm) /\ 2 * Firm <= Len(file')
  BY <1>2, <1>3, <1>4, Written
<1>7. ASSUME frayed = 0
      PROVE  Whole(file', log') /\ Holds(file', log', Firm') /\ 2 * Firm' <= Len(file')
  <2>1. Whole(file', log')
    BY <1>2, <1>3, <1>7, LineAdded
  <2>2. Firm' = Len(log') /\ Holds(file', log', Len(log')) /\ 2 * Len(log') <= Len(file')
    BY <1>2, <1>7, <2>1 DEF Firm, Whole, Tailed
  <2>3. QED
    BY <2>1, <2>2
<1>8. ASSUME frayed # 0
      PROVE  Holds(file', log', Firm') /\ 2 * Firm' <= Len(file')
  <2>1. Firm' = Firm
    BY <1>2, <1>8 DEF Firm
  <2>2. \A h \in 1..Firm : log[h] = log'[h]
    BY <1>4, <1>5
  <2>3. Holds(file', log', Firm)
    BY <1>4, <1>6, <2>2, HoldsSame
  <2>4. QED
    BY <1>6, <2>1, <2>3
<1>9. offsets' = Index(n + 1)
  <2> HIDE DEF n
  <2>1. offsets' = Append(Index(n), 2 * n)
    BY <1>2, <1>3, <1>4
  <2>2. Index(n) \in Seq(Int) /\ Len(Index(n)) = n /\ \A h \in 1..n : Index(n)[h] = 2 * (h - 1)
    BY <1>4 DEF Index
  <2> DEFINE a == Append(Index(n), 2 * n)
  <2>3. a \in Seq(Int) /\ Len(a) = n + 1 /\ (\A h \in 1..n : a[h] = Index(n)[h]) /\ a[n + 1] = 2 * n
    BY <1>4, <2>2
  <2>4. Index(n + 1) \in Seq(Int) /\ Len(Index(n + 1)) = n + 1
        /\ \A h \in 1..(n + 1) : Index(n + 1)[h] = 2 * (h - 1)
    BY <1>4 DEF Index
  <2> HIDE DEF a
  <2>5. \A h \in 1..(n + 1) : a[h] = 2 * (h - 1)
    <3>1. TAKE h \in 1..(n + 1)
    <3>2. h \in 1..n \/ h = n + 1
      BY <1>4
    <3>3. CASE h \in 1..n
      BY <2>2, <2>3, <3>3
    <3>4. CASE h = n + 1
      <4>1. n = h - 1 /\ n \in Nat
        BY <1>4, <3>4
      <4>2. QED
        BY <2>3, <3>4, <4>1
    <3>5. QED
      BY <3>2, <3>3, <3>4
  <2>6. a = Index(n + 1)
    BY <2>3, <2>4, <2>5
  <2>7. QED
    BY <2>1, <2>6 DEF a
<1>10. QED
  BY <1>1, <1>2, <1>4, <1>5, <1>6, <1>7, <1>8, <1>9, RunningInv

(* A repair cuts at the end the index knows.  Where the file is shorter than *)
(* that it grows instead, behind the firm lines.                             *)
LEMMA RepairedStep ==
  ASSUME StoreInv, up, NEW l \in Line, NEW t \in Torn(l), Repaired(file \o t),
         UNCHANGED <<offsets, up, log>>
  PROVE  StoreInv'
<1> DEFINE n == Len(log)
           f == file \o t
<1>1. /\ log \in Seq(Line) /\ file \in Seq(Cell) /\ Texts(file) /\ offsets = Index(n)
      /\ Holds(file, log, Firm) /\ 2 * Firm <= Len(file) /\ (frayed = 0 => Whole(file, log))
  BY DEF StoreInv, Types
<1>2. n \in Nat /\ Firm \in 0..n /\ Firm \in Nat /\ frayed \in 0..(n + 1) /\ FileBytes = 2 * n
      /\ (frayed # 0 => Firm = frayed - 1) /\ (frayed = 0 => Firm = n)
  BY RunningFacts
<1>3. f \in Seq(Cell) /\ Texts(f) /\ Holds(f, log, Firm) /\ 2 * Firm <= Len(f)
  BY <1>1, <1>2, Written
<1>4. file' = SetLen(f, 2 * n) /\ frayed' = IF frayed > n THEN 0 ELSE frayed
  BY <1>2 DEF Repaired, FrayedUpTo
<1>5. log' = log /\ offsets' = offsets /\ up' = TRUE
  BY DEF StoreInv, Types
<1> HIDE DEF f
<1>6. file' \in Seq(Cell) /\ Texts(file') /\ Len(file') = 2 * n /\ Holds(file', log, Firm)
  <2>1. 2 * n \in Nat /\ 2 * Firm <= 2 * n
    BY <1>2
  <2> HIDE DEF n
  <2>2. QED
    BY <1>2, <1>3, <1>4, <2>1, CutFacts
<1>7. CASE frayed' = 0
  <2>1. Firm = n
    BY <1>2, <1>4, <1>7
  <2>2. Whole(file', log)
    BY <1>2, <1>6, <2>1 DEF Whole, Tailed
  <2>3. Firm' = n
    BY <1>5, <1>7 DEF Firm
  <2>4. QED
    BY <1>1, <1>2, <1>5, <1>6, <1>7, <2>1, <2>2, <2>3, RunningInv
<1>8. CASE frayed' # 0
  <2>1. frayed' = frayed /\ Firm' = Firm
    BY <1>2, <1>4, <1>8 DEF Firm
  <2>2. 2 * Firm <= Len(file')
    BY <1>2, <1>6
  <2>3. QED
    BY <1>1, <1>2, <1>5, <1>6, <1>8, <2>1, <2>2, RunningInv
<1>9. QED
  BY <1>7, <1>8

(* A repair that fails leaves what was written; the firm lines stay. *)
LEMMA UnrepairedStep ==
  ASSUME StoreInv, up, NEW l \in Line, NEW t \in Torn(l), Unrepaired(file \o t),
         UNCHANGED <<offsets, up, log>>
  PROVE  StoreInv'
<1> DEFINE n == Len(log)
           f == file \o t
<1>1. /\ log \in Seq(Line) /\ file \in Seq(Cell) /\ Texts(file) /\ offsets = Index(n)
      /\ Holds(file, log, Firm) /\ 2 * Firm <= Len(file) /\ (frayed = 0 => Whole(file, log))
  BY DEF StoreInv, Types
<1>2. n \in Nat /\ Firm \in 0..n /\ Firm \in Nat /\ frayed \in 0..(n + 1)
      /\ (frayed # 0 => Firm = frayed - 1) /\ (frayed = 0 => Firm = n)
  BY RunningFacts
<1>3. f \in Seq(Cell) /\ Texts(f) /\ Holds(f, log, Firm) /\ 2 * Firm <= Len(f)
  BY <1>1, <1>2, Written
<1>4. file' = f /\ frayed' = IF f # file /\ frayed = 0 THEN n + 1 ELSE frayed
  BY DEF Unrepaired
<1>5. log' = log /\ offsets' = offsets /\ up' = TRUE
  BY DEF StoreInv, Types
<1> HIDE DEF f
<1>6. Firm' = Firm /\ frayed' \in 0..(n + 1) /\ (frayed' = 0 => file' = file /\ frayed = 0)
  BY <1>2, <1>4, <1>5 DEF Firm
<1>7. QED
  BY <1>1, <1>3, <1>4, <1>5, <1>6, RunningInv

(* An append that fails, repaired or not. *)
LEMMA AppendFailsStep ==
  ASSUME StoreInv, NEW l \in Line, AppendFails(l)
  PROVE  StoreInv'
<1>1. up /\ UNCHANGED <<offsets, up, log>>
  BY DEF AppendFails, Appending
<1>2. PICK t \in Torn(l) : Repaired(file \o t) \/ Unrepaired(file \o t)
  BY DEF AppendFails
<1>3. QED
  BY <1>1, <1>2, RepairedStep, UnrepairedStep

(* A truncation cuts at the start of a line. *)
LEMMA TruncateStep ==
  ASSUME StoreInv, NEW h \in Nat, TruncateFrom(h)
  PROVE  StoreInv'
<1> DEFINE n == Len(log)
           k == h - 1
<1>1. up /\ up = TRUE
  BY DEF TruncateFrom, StoreInv, Types
<1>2. /\ file' = SetLen(file, offsets[h]) /\ offsets' = SubSeq(offsets, 1, k)
      /\ log' = SubSeq(log, 1, k) /\ up' = up /\ h \in 2..Len(offsets)
      /\ frayed' = IF frayed > k THEN 0 ELSE frayed
  BY DEF TruncateFrom, FrayedUpTo
<1>3. /\ log \in Seq(Line) /\ file \in Seq(Cell) /\ Texts(file) /\ offsets = Index(n)
      /\ Holds(file, log, Firm) /\ 2 * Firm <= Len(file)
  BY <1>1 DEF StoreInv, Types
<1>4. n \in Nat /\ Firm \in 0..n /\ frayed \in 0..(n + 1)
      /\ (frayed # 0 => Firm = frayed - 1) /\ (frayed = 0 => Firm = n)
  BY <1>1, RunningFacts
<1>5. Index(n) \in Seq(Int) /\ Len(Index(n)) = n /\ \A i \in 1..n : Index(n)[i] = 2 * (i - 1)
  BY <1>4 DEF Index
<1>6. k \in 1..n /\ k \in Nat /\ h \in 1..n /\ offsets[h] = 2 * k
  <2>1. h \in 2..n
    BY <1>2, <1>3, <1>5
  <2>2. QED
    BY <1>3, <1>4, <1>5, <2>1
<1>7. log' \in Seq(Line) /\ Len(log') = k /\ \A i \in 1..k : log'[i] = log[i]
  BY <1>2, <1>3, <1>4, <1>6
<1>8. offsets' = Index(k)
  <2> DEFINE a == SubSeq(Index(n), 1, k)
  <2>1. a \in Seq(Int) /\ Len(a) = k /\ \A i \in 1..k : a[i] = Index(n)[i]
    BY <1>4, <1>5, <1>6
  <2>2. Index(k) \in Seq(Int) /\ Len(Index(k)) = k /\ \A i \in 1..k : Index(k)[i] = 2 * (i - 1)
    BY <1>6 DEF Index
  <2> HIDE DEF a, k
  <2>3. \A i \in 1..k : a[i] = 2 * (i - 1)
    <3>1. TAKE i \in 1..k
    <3>2. i \in 1..n
      BY <1>4, <1>6
    <3>3. QED
      BY <1>5, <2>1, <3>2
  <2>4. a = Index(k)
    BY <2>1, <2>2, <2>3
  <2>5. QED
    BY <1>2, <1>3, <2>4 DEF a, k
<1>9. CASE frayed' = 0
  <2>1. k <= Firm
    BY <1>2, <1>4, <1>6, <1>9
  <2>2. Holds(file, log', k) /\ 2 * k <= Len(file)
    <3>1. \A i \in 1..k : file[2 * i - 1] = log'[i] /\ file[2 * i] = "nl"
      <4>1. TAKE i \in 1..k
      <4>2. i \in 1..Firm
        BY <1>4, <1>6, <2>1
      <4>3. QED
        BY <1>3, <1>7, <4>2 DEF Holds
    <3>2. 2 * k <= Len(file)
      BY <1>3, <1>4, <1>6, <2>1
    <3>3. QED
      BY <3>1, <3>2 DEF Holds
  <2> HIDE DEF k
  <2>3. file' \in Seq(Cell) /\ Texts(file') /\ Whole(file', log')
    <3>1. file' = SetLen(file, 2 * Len(log'))
      BY <1>2, <1>6, <1>7
    <3>2. Holds(file, log', Len(log')) /\ 2 * Len(log') <= Len(file)
      BY <1>7, <2>2
    <3>3. QED
      BY <1>3, <1>7, <3>1, <3>2, CutWhole
  <2>4. Firm' = k /\ Holds(file', log', k) /\ 2 * k <= Len(file')
    BY <1>7, <1>9, <2>3 DEF Firm, Whole, Tailed
  <2>5. frayed' \in 0..(Len(log') + 1)
    BY <1>6, <1>7, <1>9
  <2>6. QED
    BY <1>1, <1>2, <1>7, <1>8, <2>3, <2>4, <2>5, RunningInv
<1>10. CASE frayed' # 0
  <2>1. frayed' = frayed /\ Firm' = Firm /\ frayed <= k /\ frayed # 0 /\ Firm < k /\ Firm \in Nat
    BY <1>2, <1>4, <1>6, <1>10 DEF Firm
  <2>2. 2 * k \in Nat /\ 2 * Firm <= 2 * k /\ frayed' \in 0..(k + 1)
    BY <1>4, <1>6, <2>1
  <2> HIDE DEF k
  <2>3. file' \in Seq(Cell) /\ Texts(file') /\ Len(file') = 2 * k /\ Holds(file', log, Firm)
    BY <1>2, <1>3, <1>6, <2>1, <2>2, CutFacts
  <2>4. \A i \in 1..Firm : log[i] = log'[i]
    BY <1>6, <1>7, <2>1
  <2>5. Holds(file', log', Firm)
    BY <2>1, <2>3, <2>4, HoldsSame
  <2>6. QED
    BY <1>1, <1>2, <1>7, <1>8, <1>10, <2>1, <2>2, <2>3, <2>5, RunningInv
<1>11. QED
  BY <1>9, <1>10

(* A reset leaves the one line. *)
LEMMA ResetStep ==
  ASSUME StoreInv, NEW l \in Line, Reset(l)
  PROVE  StoreInv'
<1>1. up' = TRUE /\ file' = <<l, "nl">> /\ offsets' = <<0>> /\ log' = <<l>> /\ frayed' = 0
  BY DEF StoreInv, Types, Reset
<1>2. log' \in Seq(Line) /\ Len(log') = 1 /\ log'[1] = l /\ Firm' = 1
  BY <1>1 DEF Firm
<1>3. file' \in Seq(Cell) /\ Len(file') = 2 /\ file'[1] = l /\ file'[2] = "nl"
  BY <1>1 DEF Cell
<1>4. Holds(file', log', 1)
  <2>1. \A h \in 1..1 : 2 * h - 1 = 1 /\ 2 * h = 2 /\ h = 1
    OBVIOUS
  <2>2. QED
    BY <1>2, <1>3, <2>1 DEF Holds
<1>5. Whole(file', log')
  BY <1>2, <1>3, <1>4 DEF Whole, Tailed
<1>6. Texts(file')
  <2>1. l # "nl"
    BY StoreAssumption
  <2>2. \A i \in 1..2 : i = 1 \/ (i = 2 /\ i - 1 = 1)
    OBVIOUS
  <2>3. QED
    BY <1>3, <2>1, <2>2 DEF Texts
<1>7. offsets' = Index(1)
  <2>1. Index(1) \in Seq(Int) /\ Len(Index(1)) = 1 /\ Index(1)[1] = 0
    BY DEF Index
  <2>2. QED
    BY <1>1, <2>1
<1>8. QED
  BY <1>1, <1>2, <1>3, <1>4, <1>5, <1>6, <1>7, RunningInv

(* A crash, also inside an append, leaves the firm lines, and if the end was *)
(* not frayed at most one text more.                                         *)
LEMMA CrashStep ==
  ASSUME StoreInv, Crash
  PROVE  StoreInv'
<1>1. up /\ up' = FALSE /\ log' = log /\ frayed' = frayed
  BY DEF Crash
<1>2. /\ log \in Seq(Line) /\ file \in Seq(Cell) /\ Texts(file) /\ frayed \in 0..(Len(log) + 1)
      /\ Holds(file, log, Firm) /\ 2 * Firm <= Len(file) /\ (frayed = 0 => Whole(file, log))
  BY <1>1 DEF StoreInv, Types
<1>3. Firm \in Nat /\ Firm' = Firm /\ Len(log) \in Nat /\ (frayed = 0 => Firm = Len(log))
  BY <1>1, RunningFacts DEF Firm
<1>4. /\ file' \in Seq(Cell) /\ Texts(file') /\ Holds(file', log, Firm) /\ 2 * Firm <= Len(file')
      /\ frayed = 0 => \/ Tailed(file', log)
                       \/ \E l \in Line : Whole(file', Append(log, l))
  <2>1. CASE file' = file
    BY <1>2, <2>1 DEF Whole
  <2>2. ASSUME NEW l \in Line, NEW t \in Torn(l), file' = file \o t
        PROVE  /\ file' \in Seq(Cell) /\ Texts(file') /\ Holds(file', log, Firm) /\ 2 * Firm <= Len(file')
               /\ frayed = 0 => Tailed(file', log)
    <3>1. /\ file' \in Seq(Cell) /\ Texts(file') /\ Holds(file', log, Firm) /\ 2 * Firm <= Len(file')
          /\ \A i \in (Len(file) + 1)..Len(file') : file'[i] # "nl"
      BY <1>2, <1>3, <2>2, Written
    <3>2. frayed = 0 => Tailed(file', log)
      BY <1>2, <1>3, <3>1 DEF Whole, Tailed
    <3>3. QED
      BY <3>1, <3>2
  <2>3. ASSUME NEW l \in Line, file' = file \o <<l, "nl">>
        PROVE  /\ file' \in Seq(Cell) /\ Texts(file') /\ Holds(file', log, Firm) /\ 2 * Firm <= Len(file')
               /\ frayed = 0 => \E k \in Line : Whole(file', Append(log, k))
    <3>1. file' \in Seq(Cell) /\ Texts(file') /\ Holds(file', log, Firm) /\ 2 * Firm <= Len(file')
      BY <1>2, <1>3, <2>3, Written
    <3>2. frayed = 0 => Whole(file', Append(log, l))
      BY <1>2, <2>3, LineAdded
    <3>3. QED
      BY <3>1, <3>2
  <2>4. \/ file' = file
        \/ \E l \in Line : (\E t \in Torn(l) : file' = file \o t) \/ file' = file \o <<l, "nl">>
    BY DEF Crash
  <2>5. QED
    BY <2>1, <2>2, <2>3, <2>4
<1>5. QED
  BY <1>1, <1>2, <1>3, <1>4 DEF StoreInv, Types

-----------------------------------------------------------------------------
(* A scan of lines and a tail: the lines are found, and the tail if it       *)
(* parses; else it is cut off.                                               *)
LEMMA OpenFinds ==
  ASSUME file \in Seq(Cell), Texts(file), NEW q \in Seq(Line), Tailed(file, q), Open
  PROVE  /\ log' \in Seq(Line) /\ offsets' = Index(Len(log')) /\ up' = TRUE
         /\ file' \in Seq(Cell) /\ Texts(file')
         /\ \/ log' = q /\ frayed' = 0 /\ Whole(file', q)
            \/ /\ Len(log') = Len(q) + 1 /\ frayed' = Len(q) + 1 /\ file' = file
               /\ \A h \in 1..Len(q) : log'[h] = q[h]
               /\ Len(file) > 2 * Len(q)
<1> DEFINE n == Len(q)
           s == 2 * n
           found == {r \in Starts : Parses(r)}
           torn == {r \in Starts : ~Parses(r)}
<1>0. n \in Nat /\ s \in Nat /\ Len(file) \in Nat /\ Holds(file, q, n) /\ s <= Len(file)
  BY DEF Tailed
<1>1. /\ \A h \in 1..n : 2 * (h - 1) \in Starts /\ Parses(2 * (h - 1)) /\ Complete(2 * (h - 1))
      /\ \A r \in Starts : \/ \E h \in 1..n : r = 2 * (h - 1)
                           \/ r = s /\ Len(file) > s
      /\ Len(file) > s => s \in Starts /\ LineEnd(s) = Len(file)
  BY ScanFinds
<1>2. /\ offsets' = InOrder(found) /\ up' = TRUE
      /\ log' = [i \in 1..Len(offsets') |-> file[offsets'[i] + 1]]
      /\ file' = IF torn = {} THEN file ELSE SetLen(file, CHOOSE r \in torn : TRUE)
      /\ frayed' = IF \E r \in Starts : Parses(r) /\ ~Complete(r) THEN Len(log') ELSE 0
  BY DEF Open, Scanned, Kept
<1>3. \A h \in 1..n : 2 * (h - 1) + 1 = 2 * h - 1 /\ file[2 * h - 1] = q[h] /\ q[h] \in Line
  <2>1. \A h \in 1..n : file[2 * h - 1] = q[h] /\ q[h] \in Line
    BY <1>0 DEF Holds
  <2>2. QED
    BY <1>0, <2>1
<1>4. ASSUME NEW m \in Nat, found = {2 * (h - 1) : h \in 1..m}
      PROVE  /\ offsets' = Index(m) /\ DOMAIN log' = 1..m
             /\ \A h \in 1..m : log'[h] = file[2 * (h - 1) + 1]
  <2>1. offsets' = Index(m)
    BY <1>2, <1>4, InOrderIsIndex
  <2>2. Len(Index(m)) = m /\ \A h \in 1..m : Index(m)[h] = 2 * (h - 1)
    BY DEF Index
  <2>3. log' = [h \in 1..m |-> file[Index(m)[h] + 1]]
    BY <1>2, <2>1, <2>2
  <2>4. QED
    BY <2>1, <2>2, <2>3
<1>5. CASE Len(file) > s /\ Parses(s)
  <2>0. s \in Starts /\ LineEnd(s) = Len(file) /\ file[s + 1] \in Line /\ ~Complete(s) /\ s = 2 * ((n + 1) - 1)
    BY <1>0, <1>1, <1>5 DEF Parses, Complete
  <2>1. found = {2 * (h - 1) : h \in 1..(n + 1)}
    <3>1. ASSUME NEW r \in found
          PROVE  r \in {2 * (h - 1) : h \in 1..(n + 1)}
      <4>1. CASE \E h \in 1..n : r = 2 * (h - 1)
        <5>1. PICK h \in 1..n : r = 2 * (h - 1)
          BY <4>1
        <5>2. h \in 1..(n + 1)
          BY <1>0
        <5>3. QED
          BY <5>1, <5>2
      <4>2. CASE r = s
        <5>1. n + 1 \in 1..(n + 1)
          BY <1>0
        <5> HIDE DEF s
        <5>2. QED
          BY <2>0, <4>2, <5>1
      <4>3. QED
        BY <1>1, <4>1, <4>2
    <3>2. ASSUME NEW h \in 1..(n + 1)
          PROVE  2 * (h - 1) \in found
      <4>1. h \in 1..n \/ h = n + 1
        BY <1>0
      <4>2. CASE h \in 1..n
        BY <1>1, <4>2
      <4>3. CASE h = n + 1
        <5>1. 2 * (h - 1) = s
          BY <2>0, <4>3
        <5> HIDE DEF s
        <5>2. QED
          BY <1>5, <2>0, <5>1
      <4>4. QED
        BY <4>1, <4>2, <4>3
    <3>3. QED
      BY <3>1, <3>2
  <2>2. torn = {}
    <3>1. ASSUME NEW r \in Starts
          PROVE  Parses(r)
      <4>1. CASE \E h \in 1..n : r = 2 * (h - 1)
        BY <1>1, <4>1
      <4>2. CASE r = s
        BY <1>5, <4>2
      <4>3. QED
        BY <1>1, <4>1, <4>2
    <3>2. QED
      BY <3>1
  <2> HIDE DEF found, torn
  <2>3. /\ offsets' = Index(n + 1) /\ DOMAIN log' = 1..(n + 1)
        /\ \A h \in 1..(n + 1) : log'[h] = file[2 * (h - 1) + 1]
    <3>1. n + 1 \in Nat
      BY <1>0
    <3> HIDE DEF n
    <3>2. QED
      BY <1>4, <2>1, <3>1
  <2>4. \A h \in 1..n : log'[h] = q[h]
    <3>1. TAKE h \in 1..n
    <3>2. h \in 1..(n + 1)
      BY <1>0
    <3>3. QED
      BY <1>3, <2>3, <3>2
  <2>5. log'[n + 1] \in Line
    <3>1. n + 1 \in 1..(n + 1)
      BY <1>0
    <3>2. log'[n + 1] = file[s + 1]
      BY <2>0, <2>3, <3>1
    <3>3. QED
      BY <2>0, <3>2
  <2>6. log' \in Seq(Line) /\ Len(log') = n + 1
    <3>1. \A h \in 1..(n + 1) : log'[h] \in Line
      <4>1. TAKE h \in 1..(n + 1)
      <4>2. h \in 1..n \/ h = n + 1
        BY <1>0
      <4>3. QED
        BY <1>3, <2>4, <2>5, <4>2
    <3> DEFINE g == log'
    <3>2. g = [h \in 1..(n + 1) |-> file[Index(n + 1)[h] + 1]]
      <4>1. Len(Index(n + 1)) = n + 1
        BY <1>0 DEF Index
      <4>2. QED
        BY <1>2, <2>3, <4>1
    <3>3. g \in [1..(n + 1) -> Line]
      BY <3>1, <3>2
    <3> HIDE DEF g
    <3>4. g \in Seq(Line) /\ Len(g) = n + 1
      BY <1>0, <3>2, <3>3
    <3>5. QED
      BY <3>4 DEF g
  <2>7. frayed' = n + 1
    <3>1. \E r \in Starts : Parses(r) /\ ~Complete(r)
      BY <1>5, <2>0
    <3>2. QED
      BY <1>2, <2>6, <3>1
  <2>8. file' = file
    BY <1>2, <2>2
  <2>9. QED
    BY <1>2, <1>5, <2>3, <2>4, <2>6, <2>7, <2>8
<1>6. CASE ~(Len(file) > s /\ Parses(s))
  <2>1. found = {2 * (h - 1) : h \in 1..n}
    <3>1. \A h \in 1..n : 2 * (h - 1) \in found
      BY <1>1
    <3>2. \A r \in found : \E h \in 1..n : r = 2 * (h - 1)
      <4> HIDE DEF s
      <4>1. QED
        BY <1>1, <1>6
    <3>3. QED
      BY <3>1, <3>2
  <2>2. frayed' = 0
    <3>1. ASSUME NEW r \in Starts, Parses(r)
          PROVE  Complete(r)
      <4> HIDE DEF s
      <4>1. QED
        BY <1>1, <1>6, <3>1
    <3>2. QED
      BY <1>2, <3>1
  <2>3. offsets' = Index(n) /\ DOMAIN log' = 1..n /\ \A h \in 1..n : log'[h] = file[2 * (h - 1) + 1]
    <3> HIDE DEF found, n
    <3>1. QED
      BY <1>0, <1>4, <2>1
  <2>4. log' = q
    <3>1. \A h \in 1..n : log'[h] = q[h]
      BY <1>3, <2>3
    <3>2. q = [h \in 1..n |-> q[h]]
      OBVIOUS
    <3>3. log' = [h \in 1..n |-> file[Index(n)[h] + 1]]
      <4>1. Len(Index(n)) = n
        BY <1>0 DEF Index
      <4>2. QED
        BY <1>2, <2>3, <4>1
    <3>4. \A h \in 1..n : file[Index(n)[h] + 1] = q[h]
      BY <3>1, <3>3
    <3>5. QED
      BY <3>2, <3>3, <3>4
  <2>5. file' \in Seq(Cell) /\ Texts(file') /\ Whole(file', q)
    <3>1. CASE Len(file) > s
      <4>1. torn = {s}
        <5>1. s \in torn
          BY <1>1, <1>6, <3>1
        <5>2. \A r \in torn : r = s
          BY <1>1
        <5>3. QED
          BY <5>1, <5>2
      <4> HIDE DEF torn
      <4>2. file' = SetLen(file, s)
        BY <1>2, <4>1
      <4>3. QED
        BY <1>0, <4>2, CutWhole
    <3>2. CASE ~(Len(file) > s)
      <4>1. torn = {}
        BY <1>1, <3>2
      <4> HIDE DEF torn
      <4>2. file' = file /\ Len(file) = s
        BY <1>0, <1>2, <3>2, <4>1
      <4>3. QED
        BY <4>2 DEF Whole
    <3>3. QED
      BY <3>1, <3>2
  <2>6. QED
    BY <1>2, <2>2, <2>3, <2>4, <2>5
<1>7. QED
  BY <1>5, <1>6

(* The lines of a file are those that are firm, as far as these reach. *)
LEMMA FirmAreFound ==
  ASSUME NEW f \in Seq(Cell), NEW q \in Seq(Line), Tailed(f, q), NEW p \in Seq(Line),
         NEW k \in Nat, k <= Len(p), Holds(f, p, k), 2 * k <= Len(f)
  PROVE  k <= Len(q) /\ \A h \in 1..k : q[h] = p[h]
<1>1. Len(q) \in Nat /\ Len(f) \in Nat
  OBVIOUS
<1>2. k <= Len(q)
  <2>1. SUFFICES ASSUME Len(q) < k PROVE FALSE
    BY <1>1
  <2>2. Len(q) + 1 \in 1..k
    BY <1>1, <2>1
  <2>3. f[2 * (Len(q) + 1)] = "nl"
    BY <2>2 DEF Holds
  <2>4. 2 * (Len(q) + 1) \in (2 * Len(q) + 1)..Len(f)
    BY <1>1, <2>1
  <2>5. QED
    BY <2>3, <2>4 DEF Tailed
<1>3. ASSUME NEW h \in 1..k
      PROVE  q[h] = p[h]
  <2>1. h \in 1..Len(q)
    BY <1>1, <1>2
  <2>2. QED
    BY <2>1 DEF Tailed, Holds
<1>4. QED
  BY <1>2, <1>3

(* What a boot finds, from what a crash may have left. *)
LEMMA OpenStep ==
  ASSUME StoreInv, Open
  PROVE  /\ StoreInv'
         /\ log' \in Seq(Line) /\ Firm \in Nat /\ Firm <= Len(log) /\ Firm <= Len(log')
         /\ \A h \in 1..Firm : log'[h] = log[h]
         /\ frayed = 0 => Len(log') <= Len(log) + 1
<1>1. /\ log \in Seq(Line) /\ file \in Seq(Cell) /\ Texts(file) /\ frayed \in 0..(Len(log) + 1)
      /\ Holds(file, log, Firm) /\ 2 * Firm <= Len(file) /\ ~up /\ Readable
  BY DEF StoreInv, Types, Open
<1>2. Firm \in Nat /\ Firm <= Len(log) /\ Len(log) \in Nat
  BY <1>1 DEF Firm
<1>3. PICK q \in Seq(Line) : Tailed(file, q)
  BY <1>1, ReadableTailed
<1>4. Len(q) \in Nat /\ Firm <= Len(q) /\ \A h \in 1..Firm : q[h] = log[h]
  BY <1>1, <1>2, <1>3, FirmAreFound
<1>5. /\ log' \in Seq(Line) /\ offsets' = Index(Len(log')) /\ up' = TRUE
      /\ file' \in Seq(Cell) /\ Texts(file')
      /\ \/ log' = q /\ frayed' = 0 /\ Whole(file', q)
         \/ /\ Len(log') = Len(q) + 1 /\ frayed' = Len(q) + 1 /\ file' = file
            /\ \A h \in 1..Len(q) : log'[h] = q[h]
            /\ Len(file) > 2 * Len(q)
  BY <1>1, <1>3, OpenFinds
<1>6. ASSUME frayed = 0
      PROVE  \/ Len(q) <= Len(log)
             \/ Len(q) = Len(log) + 1 /\ Len(file) = 2 * Len(q)
  <2>1. Holds(file, q, Len(q)) /\ 2 * Len(q) <= Len(file)
    BY <1>3 DEF Tailed
  <2>2. CASE Tailed(file, log)
    <3>1. \A k \in Nat : k <= Len(q) /\ Holds(file, q, k) /\ 2 * k <= Len(file) => k <= Len(log)
      BY <1>1, <2>2, FirmAreFound
    <3>2. Len(q) <= Len(q)
      BY <1>4
    <3>3. QED
      BY <1>4, <2>1, <3>1, <3>2
  <2>3. ASSUME NEW l \in Line, Whole(file, Append(log, l))
        PROVE  Len(q) = Len(log) + 1 /\ Len(file) = 2 * Len(q)
    <3> DEFINE p == Append(log, l)
    <3>1. p \in Seq(Line) /\ Len(p) = Len(log) + 1
      BY <1>1
    <3>2. Tailed(file, p) /\ Len(file) = 2 * Len(p) /\ Holds(file, p, Len(p)) /\ 2 * Len(p) <= Len(file)
      BY <2>3 DEF Whole, Tailed
    <3> HIDE DEF p
    <3>3. \A k \in Nat : k <= Len(q) /\ Holds(file, q, k) /\ 2 * k <= Len(file) => k <= Len(p)
      BY <1>1, <3>1, <3>2, FirmAreFound
    <3>4. \A k \in Nat : k <= Len(p) /\ Holds(file, p, k) /\ 2 * k <= Len(file) => k <= Len(q)
      BY <1>1, <1>3, <3>1, FirmAreFound
    <3>5. Len(q) <= Len(q) /\ Len(p) <= Len(p) /\ Len(p) \in Nat
      BY <1>2, <1>4, <3>1
    <3>6. Len(q) <= Len(p) /\ Len(p) <= Len(q)
      BY <1>4, <2>1, <3>2, <3>3, <3>4, <3>5
    <3>7. QED
      BY <1>4, <3>1, <3>2, <3>5, <3>6
  <2>4. Tailed(file, log) \/ \E l \in Line : Whole(file, Append(log, l))
    BY <1>1, <1>6 DEF StoreInv
  <2>5. QED
    BY <2>2, <2>3, <2>4
<1>7. CASE log' = q /\ frayed' = 0 /\ Whole(file', q)
  <2>1. Firm' = Len(q) /\ Holds(file', log', Len(q)) /\ 2 * Len(q) <= Len(file')
    BY <1>7 DEF Firm, Whole, Tailed
  <2>2. StoreInv'
    BY <1>4, <1>5, <1>7, <2>1, RunningInv
  <2>3. frayed = 0 => Len(log') <= Len(log) + 1
    BY <1>2, <1>4, <1>6, <1>7
  <2>4. QED
    BY <1>2, <1>4, <1>5, <1>7, <2>2, <2>3
<1>8. CASE /\ Len(log') = Len(q) + 1 /\ frayed' = Len(q) + 1 /\ file' = file
           /\ \A h \in 1..Len(q) : log'[h] = q[h]
           /\ Len(file) > 2 * Len(q)
  <2>1. Firm' = Len(q) /\ frayed' # 0 /\ frayed' \in 0..(Len(log') + 1)
    BY <1>4, <1>8 DEF Firm
  <2>2. Holds(file', log', Len(q)) /\ 2 * Len(q) <= Len(file')
    <3>1. Holds(file, q, Len(q)) /\ 2 * Len(q) <= Len(file)
      BY <1>3 DEF Tailed
    <3>2. QED
      BY <1>8, <3>1 DEF Holds
  <2>3. StoreInv'
    BY <1>5, <2>1, <2>2, RunningInv
  <2>4. Firm <= Len(log') /\ \A h \in 1..Firm : log'[h] = log[h]
    <3>1. Firm <= Len(log')
      BY <1>2, <1>4, <1>8
    <3>2. ASSUME NEW h \in 1..Firm PROVE log'[h] = log[h]
      <4>1. h \in 1..Len(q)
        BY <1>2, <1>4
      <4>2. QED
        BY <1>4, <1>8, <4>1
    <3>3. QED
      BY <3>1, <3>2
  <2>5. frayed = 0 => Len(log') <= Len(log) + 1
    BY <1>2, <1>4, <1>6, <1>8
  <2>6. QED
    BY <1>2, <1>5, <2>3, <2>4, <2>5
<1>9. QED
  BY <1>5, <1>7, <1>8

(* An empty file and an empty index. *)
LEMMA StoreInit ==
  ASSUME Init
  PROVE  StoreInv
<1>1. file = <<>> /\ log = <<>> /\ up = FALSE /\ frayed = 0
  BY DEF Init
<1>2. Len(log) = 0 /\ Len(file) = 0 /\ file \in Seq(Cell) /\ log \in Seq(Line) /\ Firm = 0
  BY <1>1 DEF Firm
<1>3. Holds(file, log, 0) /\ Texts(file)
  BY <1>2 DEF Holds, Texts
<1>4. Tailed(file, log)
  BY <1>2, <1>3 DEF Tailed
<1>5. Types
  <2>1. up \in BOOLEAN
    BY <1>1, Zenon
  <2>2. frayed = 0 /\ Len(log) + 1 = 1
    BY <1>1, <1>2
  <2>3. frayed \in 0..(Len(log) + 1)
    BY <2>2
  <2>4. QED
    BY <1>2, <2>1, <2>3 DEF Types
<1>6. ~up /\ frayed = 0 /\ Holds(file, log, Firm) /\ 2 * Firm <= Len(file)
  BY <1>1, <1>2, <1>3
<1>7. QED
  BY <1>3, <1>4, <1>5, <1>6 DEF StoreInv

(* Every step keeps the invariant. *)
LEMMA StoreStep ==
  ASSUME StoreInv, [Next]_vars
  PROVE  StoreInv'
<1>1. CASE UNCHANGED vars
  BY <1>1 DEF vars, StoreInv, Types, Firm
<1>2. ASSUME NEW l \in Line, AppendLine(l)
      PROVE  StoreInv'
  BY <1>2, AppendLineStep
<1>3. ASSUME NEW l \in Line, AppendFails(l)
      PROVE  StoreInv'
  BY <1>3, AppendFailsStep
<1>4. ASSUME NEW l \in Line, Reset(l)
      PROVE  StoreInv'
  BY <1>4, ResetStep
<1>5. ASSUME NEW h \in 2..MaxLines, TruncateFrom(h)
      PROVE  StoreInv'
  <2>1. h \in Nat
    BY StoreAssumption
  <2>2. QED
    BY <1>5, <2>1, TruncateStep
<1>6. CASE Crash
  BY <1>6, CrashStep
<1>7. CASE Open
  BY <1>7, OpenStep
<1>8. QED
  BY <1>1, <1>2, <1>3, <1>4, <1>5, <1>6, <1>7 DEF Next

-----------------------------------------------------------------------------
(* The invariant holds in every reachable state. *)
LEMMA StoreInvAlways == Spec => []StoreInv
<1>1. Init => StoreInv
  BY StoreInit
<1>2. StoreInv /\ [Next]_vars => StoreInv'
  BY StoreStep
<1>3. QED
  BY <1>1, <1>2, PTL DEF Spec

(* Every height below a frayed end reads back the line the caller stored     *)
(* there, whatever was written behind it, and while no end has frayed the    *)
(* next append lands where the index will look for it (append and its        *)
(* repair, truncate_from, scan).                                             *)
THEOREM IndexFollowsFile == Spec => []IndexDescribesFile
<1>1. ASSUME StoreInv PROVE IndexDescribesFile
  <2>1. SUFFICES ASSUME up
                 PROVE  /\ Len(offsets) = Len(log) /\ Firm <= Len(log)
                        /\ \A h \in 1..Firm : Get(h) = log[h]
                        /\ frayed = 0 => FileBytes = Len(file)
    BY DEF IndexDescribesFile
  <2>2. /\ log \in Seq(Line) /\ file \in Seq(Cell) /\ offsets = Index(Len(log))
        /\ Holds(file, log, Firm) /\ 2 * Firm <= Len(file)
    BY <1>1, <2>1 DEF StoreInv, Types
  <2>3. Len(log) \in Nat /\ Firm \in 0..Len(log) /\ (frayed = 0 => Len(file) = 2 * Len(log))
        /\ FileBytes = 2 * Len(log)
    BY <1>1, <2>1, RunningFacts
  <2>4. Len(offsets) = Len(log) /\ \A i \in 1..Len(log) : offsets[i] = 2 * (i - 1)
    BY <2>2, <2>3 DEF Index
  <2>5. ASSUME NEW h \in 1..Firm
        PROVE  Get(h) = log[h]
    <3>1. h \in 1..Len(log) /\ Len(file) \in Nat
      BY <2>2, <2>3
    <3>2. offsets[h] < Len(file) /\ offsets[h] + 1 = 2 * h - 1
      BY <2>2, <2>3, <2>4, <3>1
    <3>3. file[2 * h - 1] = log[h]
      BY <2>2 DEF Holds
    <3>4. QED
      BY <3>2, <3>3 DEF Get
  <2>6. QED
    BY <2>3, <2>4, <2>5
<1>2. StoreInv => IndexDescribesFile
  BY <1>1
<1>3. QED
  BY <1>2, StoreInvAlways, PTL

(* Whenever the process dies, also between the two writes of an append, the  *)
(* next boot can read the file, if its end had not frayed before: scan_json  *)
(* meets no complete line that does not parse.                               *)
THEOREM BootReads == Spec => []FileReadable
<1>1. ASSUME StoreInv PROVE FileReadable
  <2>1. SUFFICES ASSUME frayed = 0 PROVE Readable
    BY DEF FileReadable
  <2>2. log \in Seq(Line) /\ file \in Seq(Cell) /\ \A l \in Line : Append(log, l) \in Seq(Line)
    BY <1>1 DEF StoreInv, Types
  <2>3. \/ Tailed(file, log)
        \/ \E l \in Line : Whole(file, Append(log, l))
    BY <1>1, <2>1 DEF StoreInv, Types, Whole
  <2>4. QED
    BY <2>2, <2>3, LinesReadable DEF Whole
<1>2. StoreInv => FileReadable
  BY <1>1
<1>3. QED
  BY <1>2, StoreInvAlways, PTL

(* A boot that succeeds finds every line below a frayed end, in its order,   *)
(* and while no end has frayed all the lines that append reported stored and *)
(* at most the one that was being stored.                                    *)
THEOREM BootKeepsLines == Spec => BootFindsLog
<1>1. ASSUME StoreInv, Open
      PROVE  /\ Len(log') >= Firm /\ SubSeq(log', 1, Firm) = SubSeq(log, 1, Firm)
             /\ frayed = 0 => Len(log') <= Len(log) + 1
  <2>1. /\ log' \in Seq(Line) /\ Firm \in Nat /\ Firm <= Len(log) /\ Firm <= Len(log')
        /\ \A h \in 1..Firm : log'[h] = log[h]
        /\ frayed = 0 => Len(log') <= Len(log) + 1
    BY <1>1, OpenStep
  <2>2. log \in Seq(Line)
    BY <1>1 DEF StoreInv, Types
  <2> DEFINE p == log'
  <2>3. p \in Seq(Line) /\ Firm <= Len(p) /\ \A h \in 1..Firm : p[h] = log[h]
    BY <2>1
  <2> HIDE DEF p
  <2>4. SubSeq(p, 1, Firm) = SubSeq(log, 1, Firm)
    BY <2>1, <2>2, <2>3, SamePrefix
  <2>5. Len(log') \in Nat
    BY <2>1
  <2>6. QED
    BY <2>1, <2>4, <2>5 DEF p
<1>2. StoreInv /\ [Next]_vars => [Open => /\ Len(log') >= Firm
                                          /\ SubSeq(log', 1, Firm) = SubSeq(log, 1, Firm)
                                          /\ frayed = 0 => Len(log') <= Len(log) + 1]_vars
  BY <1>1
<1>3. QED
  BY <1>2, StoreInvAlways, PTL DEF Spec, BootFindsLog

=============================================================================
