-------------------------------- MODULE Lemmas --------------------------------
(***************************************************************************)
(* Facts about numbers and finite sets that several proofs need: least and *)
(* greatest elements, ranks, sums, loops and folds, and induction in the   *)
(* form of sets, in which the provers can use it.                          *)
(***************************************************************************)
EXTENDS Integers, Functions, FiniteSetsExt, FiniteSetTheorems, WellFoundedInduction, TLAPS

(* A set of naturals that is not empty has a least element. *)
LEMMA LeastElement ==
  ASSUME NEW T \in SUBSET Nat, T # {}
  PROVE  \E x \in T : \A y \in T : x <= y
<1> DEFINE R == OpToRel(<, Nat)
<1>1. IsWellFoundedOn(R, Nat)
  BY NatLessThanWellFounded
<1>2. \A x, y \in Nat : y < x => <<y, x>> \in R
  BY DEF OpToRel
<1> HIDE DEF R
<1>3. PICK x \in T : \A y \in T : ~(<<y, x>> \in R)
  BY <1>1, WFMin
<1>4. x \in Nat /\ \A y \in T : y \in Nat /\ ~(y < x)
  BY <1>2, <1>3
<1>5. \A y \in T : x <= y
  BY <1>4
<1>6. QED
  BY <1>5

(* Induction: the least number that is missing has a predecessor that is not. *)
LEMMA SetInduction ==
  ASSUME NEW T, 0 \in T, \A n \in Nat : n \in T => n + 1 \in T
  PROVE  Nat \subseteq T
<1> DEFINE U == Nat \ T
<1>1. SUFFICES ASSUME U # {} PROVE FALSE
  OBVIOUS
<1>2. PICK x \in U : \A y \in U : x <= y
  BY <1>1, LeastElement
<1>3. x \in Nat /\ x \notin T /\ x # 0
  BY <1>2
<1>4. x - 1 \in Nat /\ (x - 1) + 1 = x
  BY <1>3
<1>5. x - 1 \notin U
  BY <1>2, <1>4
<1>6. QED
  BY <1>3, <1>4, <1>5

(* Min returns the least element. *)
LEMMA MinFacts ==
  ASSUME NEW T \in SUBSET Nat, T # {}
  PROVE  Min(T) \in T /\ \A y \in T : Min(T) <= y
<1>1. \E x \in T : \A y \in T : x =< y
  BY LeastElement
<1>2. QED
  BY <1>1 DEF Min

(* Max returns the greatest element of a set that has a bound. *)
LEMMA MaxFacts ==
  ASSUME NEW T \in SUBSET Nat, T # {}, NEW n \in Nat, \A y \in T : y <= n
  PROVE  Max(T) \in T /\ \A y \in T : Max(T) >= y
<1> DEFINE U == {n - y : y \in T}
<1>1. U \in SUBSET Nat /\ U # {}
  <2>1. \A y \in T : n - y \in Nat
    OBVIOUS
  <2>2. QED
    BY <2>1
<1>2. PICK u \in U : \A v \in U : u <= v
  BY <1>1, LeastElement
<1>3. PICK x \in T : u = n - x
  BY <1>2
<1>4. \A y \in T : x >= y
  <2>1. TAKE y \in T
  <2>2. n - x <= n - y /\ x \in Nat /\ y \in Nat
    BY <1>2, <1>3
  <2>3. QED
    BY <2>2
<1>5. \E z \in T : \A y \in T : z >= y
  BY <1>4
<1>6. QED
  BY <1>5 DEF Max

-----------------------------------------------------------------------------
(* Sums over finite sets.  SumFunctionOnSet adds in an order it chooses; the  *)
(* facts below are what any order gives.                                      *)

Some(s) == CHOOSE x \in s : TRUE

(* The equation of the sums of f over the sets in D. *)
SumEquation(f, D, g) ==
  g = [s \in D |-> IF s = {} THEN 0 ELSE f[Some(s)] + g[s \ {Some(s)}]]

Sums(f, S) == CHOOSE g : SumEquation(f, SUBSET S, g)

(* The sum of the library is the recursive one over subsets. *)
LEMMA SumIsSums ==
  ASSUME NEW f, NEW S
  PROVE  SumFunctionOnSet(f, S) = Sums(f, S)[S]
  BY DEF SumFunctionOnSet, FoldFunctionOnSet, MapThenFoldSet, Sums, SumEquation, Some

(* The subsets of S with at most n elements. *)
Small(S, n) == {s \in SUBSET S : Cardinality(s) <= n}

(* Subsets of at most n elements, from which the recursion is unfolded. *)
LEMMA SmallFacts ==
  ASSUME NEW S, IsFiniteSet(S), NEW n \in Nat
  PROVE  /\ Small(S, 0) = {{}}
         /\ \A s \in Small(S, n + 1) : s # {} =>
               Some(s) \in s /\ s \ {Some(s)} \in Small(S, n)
         /\ Small(S, n) \subseteq Small(S, n + 1)
         /\ Small(S, Cardinality(S)) = SUBSET S
<1>1. \A s \in SUBSET S : /\ IsFiniteSet(s) /\ Cardinality(s) \in Nat
                          /\ Cardinality(s) <= Cardinality(S)
                          /\ Cardinality(s) = 0 <=> s = {}
  BY FS_Subset, FS_CardinalityType, FS_EmptySet
<1>2. Small(S, 0) = {{}}
  BY <1>1 DEF Small
<1>3. ASSUME NEW s \in Small(S, n + 1), s # {}
      PROVE  Some(s) \in s /\ s \ {Some(s)} \in Small(S, n)
  <2>1. Some(s) \in s
    BY <1>3 DEF Some
  <2>2. s \in SUBSET S /\ IsFiniteSet(s) /\ Cardinality(s) \in Nat /\ Cardinality(s) <= n + 1
    BY <1>1 DEF Small
  <2>3. Cardinality(s \ {Some(s)}) = Cardinality(s) - 1
    BY <2>1, <2>2, FS_RemoveElement
  <2>4. s \ {Some(s)} \in SUBSET S /\ Cardinality(s) - 1 <= n
    BY <2>2
  <2>5. QED
    BY <2>1, <2>3, <2>4 DEF Small
<1>4. Small(S, n) \subseteq Small(S, n + 1)
  <2>1. ASSUME NEW s \in Small(S, n) PROVE s \in Small(S, n + 1)
    <3>1. s \in SUBSET S /\ Cardinality(s) \in Nat /\ Cardinality(s) <= n
      BY <1>1 DEF Small
    <3>2. QED
      BY <3>1 DEF Small
  <2>2. QED
    BY <2>1
<1>5. Small(S, Cardinality(S)) = SUBSET S
  BY <1>1 DEF Small
<1>6. QED
  BY <1>2, <1>3, <1>4, <1>5

(* The equation has a solution, size by size. *)
LEMMA SumsDefined ==
  ASSUME NEW f, NEW S, IsFiniteSet(S)
  PROVE  SumEquation(f, SUBSET S, Sums(f, S))
<1> DEFINE T == {n \in Nat : \E g : SumEquation(f, Small(S, n), g)}
<1>1. 0 \in T
  <2>1. Small(S, 0) = {{}}
    BY SmallFacts
  <2> DEFINE g == [s \in {{}} |-> 0]
  <2>2. SumEquation(f, {{}}, g)
    BY DEF SumEquation
  <2>3. QED
    BY <2>1, <2>2
<1>2. ASSUME NEW n \in Nat, n \in T
      PROVE  n + 1 \in T
  <2>1. PICK g : SumEquation(f, Small(S, n), g)
    BY <1>2
  <2> DEFINE h == [s \in Small(S, n + 1) |->
                     IF s = {} THEN 0 ELSE f[Some(s)] + g[s \ {Some(s)}]]
  <2>2. \A s \in Small(S, n) : h[s] = g[s]
    <3>1. TAKE s \in Small(S, n)
    <3>2. s \in Small(S, n + 1)
      BY SmallFacts
    <3>3. g[s] = IF s = {} THEN 0 ELSE f[Some(s)] + g[s \ {Some(s)}]
      BY <2>1 DEF SumEquation
    <3>4. QED
      BY <3>2, <3>3
  <2>3. \A s \in Small(S, n + 1) : s # {} => s \ {Some(s)} \in Small(S, n)
    BY SmallFacts
  <2>4. \A s \in Small(S, n + 1) :
           h[s] = IF s = {} THEN 0 ELSE f[Some(s)] + h[s \ {Some(s)}]
    BY <2>2, <2>3
  <2>5. h = [s \in Small(S, n + 1) |-> h[s]]
    OBVIOUS
  <2> HIDE DEF h
  <2>6. SumEquation(f, Small(S, n + 1), h)
    BY <2>4, <2>5 DEF SumEquation
  <2>7. QED
    BY <2>6
<1>3. Nat \subseteq T
  <2> HIDE DEF T
  <2>1. QED
    BY <1>1, <1>2, SetInduction
<1>4. Cardinality(S) \in Nat
  BY FS_CardinalityType
<1>5. \E g : SumEquation(f, SUBSET S, g)
  <2>1. Small(S, Cardinality(S)) = SUBSET S
    BY SmallFacts
  <2>2. \E g : SumEquation(f, Small(S, Cardinality(S)), g)
    BY <1>3, <1>4
  <2>3. QED
    BY <2>1, <2>2
<1>6. QED
  BY <1>5 DEF Sums

(* The recursion of a sum holds at every subset of a finite set. *)
LEMMA SumsStep ==
  ASSUME NEW f, NEW S, IsFiniteSet(S), NEW s \in SUBSET S
  PROVE  Sums(f, S)[s] = IF s = {} THEN 0 ELSE f[Some(s)] + Sums(f, S)[s \ {Some(s)}]
<1> DEFINE g == Sums(f, S)
<1>1. SumEquation(f, SUBSET S, g)
  BY SumsDefined
<1> HIDE DEF g
<1>2. g[s] = IF s = {} THEN 0 ELSE f[Some(s)] + g[s \ {Some(s)}]
  BY <1>1 DEF SumEquation
<1>3. QED
  BY <1>2 DEF g

(* The sum over a set is the same within any larger one, and depends only on *)
(* the values there.                                                         *)
LEMMA SumsAgree ==
  ASSUME NEW f, NEW g, NEW S, IsFiniteSet(S), NEW T \in SUBSET S, \A x \in T : f[x] = g[x]
  PROVE  \A s \in SUBSET T : Sums(f, S)[s] = Sums(g, T)[s]
<1> DEFINE N == {n \in Nat : \A s \in Small(T, n) : Sums(f, S)[s] = Sums(g, T)[s]}
<1>1. IsFiniteSet(T) /\ Cardinality(T) \in Nat
  BY FS_Subset, FS_CardinalityType
<1>2. Sums(f, S)[{}] = 0 /\ Sums(g, T)[{}] = 0
  BY <1>1, SumsStep
<1>3. 0 \in N
  <2>1. Small(T, 0) = {{}}
    BY <1>1, SmallFacts
  <2>2. QED
    BY <1>2, <2>1
<1>4. ASSUME NEW n \in Nat, n \in N
      PROVE  n + 1 \in N
  <2>1. ASSUME NEW s \in Small(T, n + 1), s # {}
        PROVE  Sums(f, S)[s] = Sums(g, T)[s]
    <3>1. s \in SUBSET T /\ s \in SUBSET S
      BY DEF Small
    <3>2. Some(s) \in s /\ s \ {Some(s)} \in Small(T, n)
      BY <1>1, <2>1, SmallFacts
    <3>3. Sums(f, S)[s \ {Some(s)}] = Sums(g, T)[s \ {Some(s)}]
      BY <1>4, <3>2
    <3>4. f[Some(s)] = g[Some(s)]
      BY <3>1, <3>2
    <3>5. Sums(f, S)[s] = f[Some(s)] + Sums(f, S)[s \ {Some(s)}]
      BY <3>1, <2>1, SumsStep
    <3>6. Sums(g, T)[s] = g[Some(s)] + Sums(g, T)[s \ {Some(s)}]
      <4>1. s \in SUBSET T /\ IsFiniteSet(T) /\ s # {}
        BY <3>1, <2>1, <1>1
      <4>2. QED
        BY <4>1, SumsStep
    <3>7. QED
      BY <3>3, <3>4, <3>5, <3>6
  <2>2. QED
    BY <2>1, <1>2
<1>5. Nat \subseteq N
  <2> HIDE DEF N
  <2>1. QED
    BY <1>3, <1>4, SetInduction
<1>6. Small(T, Cardinality(T)) = SUBSET T
  BY <1>1, SmallFacts
<1>7. QED
  BY <1>1, <1>5, <1>6

(* Sums of functions that agree on the set are equal. *)
LEMMA SumSame ==
  ASSUME NEW f, NEW g, NEW S, IsFiniteSet(S), \A x \in S : f[x] = g[x]
  PROVE  SumFunctionOnSet(f, S) = SumFunctionOnSet(g, S)
<1>1. Sums(f, S)[S] = Sums(g, S)[S]
  BY SumsAgree
<1>2. QED
  BY <1>1, SumIsSums

(* Any element may be added last. *)
LEMMA SumsAnyOrder ==
  ASSUME NEW f, NEW S, IsFiniteSet(S), \A x \in S : f[x] \in Int
  PROVE  \A s \in SUBSET S : /\ Sums(f, S)[s] \in Int
                             /\ \A x \in s : Sums(f, S)[s] = f[x] + Sums(f, S)[s \ {x}]
<1> DEFINE F == Sums(f, S)
           Good(s) == F[s] \in Int /\ \A x \in s : F[s] = f[x] + F[s \ {x}]
           N == {n \in Nat : \A s \in Small(S, n) : Good(s)}
<1>1. F[{}] = 0
  BY SumsStep
<1>2. 0 \in N
  <2>1. Small(S, 0) = {{}}
    BY SmallFacts
  <2>2. Good({})
    BY <1>1
  <2>3. \A s \in Small(S, 0) : Good(s)
    BY <2>1, <2>2
  <2>4. QED
    BY <2>3
<1>3. ASSUME NEW n \in Nat, n \in N
      PROVE  n + 1 \in N
  <2>1. ASSUME NEW s \in Small(S, n + 1), s # {}
        PROVE  Good(s)
    <3> DEFINE c == Some(s)
    <3>1. s \in SUBSET S /\ c \in s /\ s \ {c} \in Small(S, n)
      BY <2>1, SmallFacts DEF Small
    <3>2. F[s] = f[c] + F[s \ {c}]
      BY <3>1, <2>1, SumsStep
    <3> HIDE DEF c, F
    <3>3. F[s \ {c}] \in Int /\ \A x \in s \ {c} : F[s \ {c}] = f[x] + F[(s \ {c}) \ {x}]
      BY <1>3, <3>1
    <3>4. f[c] \in Int /\ F[s] \in Int
      BY <3>1, <3>2, <3>3
    <3>5. ASSUME NEW x \in s, x # c
          PROVE  F[s] = f[x] + F[s \ {x}]
      <4>1. s \ {x} \in Small(S, n)
        <5>1. IsFiniteSet(s) /\ Cardinality(s) \in Nat /\ Cardinality(s) <= n + 1
          BY <3>1, FS_Subset, FS_CardinalityType DEF Small
        <5>2. Cardinality(s \ {x}) = Cardinality(s) - 1
          BY <5>1, FS_RemoveElement
        <5>3. s \ {x} \in SUBSET S /\ Cardinality(s) - 1 <= n
          BY <3>1, <5>1
        <5>4. QED
          BY <5>2, <5>3 DEF Small
      <4>2. F[s \ {x}] = f[c] + F[(s \ {x}) \ {c}]
        BY <1>3, <3>1, <3>5, <4>1
      <4>3. (s \ {x}) \ {c} = (s \ {c}) \ {x}
        OBVIOUS
      <4>4. F[s \ {c}] = f[x] + F[(s \ {c}) \ {x}]
        BY <3>3, <3>5
      <4>5. (s \ {c}) \ {x} \in Small(S, n)
        <5>1. s \ {c} \in SUBSET S /\ IsFiniteSet(s \ {c}) /\ Cardinality(s \ {c}) \in Nat
              /\ Cardinality(s \ {c}) <= n
          BY <3>1, FS_Subset, FS_CardinalityType DEF Small
        <5>2. Cardinality((s \ {c}) \ {x}) \in Nat /\ Cardinality((s \ {c}) \ {x}) <= Cardinality(s \ {c})
          BY <5>1, FS_Subset, FS_CardinalityType
        <5>3. (s \ {c}) \ {x} \in SUBSET S /\ Cardinality((s \ {c}) \ {x}) <= n
          BY <5>1, <5>2
        <5>4. QED
          BY <5>3 DEF Small
      <4>6. F[(s \ {c}) \ {x}] \in Int /\ f[x] \in Int
        BY <1>3, <3>1, <4>5
      <4> DEFINE both == F[(s \ {c}) \ {x}]
      <4>7. F[s] = f[c] + (f[x] + both) /\ F[s \ {x}] = f[c] + both
        BY <3>2, <4>2, <4>3, <4>4
      <4>8. both \in Int
        BY <4>6
      <4> HIDE DEF both
      <4>9. f[c] + (f[x] + both) = f[x] + (f[c] + both)
        BY <3>4, <4>6, <4>8
      <4>10. QED
        BY <4>7, <4>9
    <3>6. QED
      BY <3>2, <3>4, <3>5
  <2>2. Good({})
    BY <1>1
  <2>3. \A s \in Small(S, n + 1) : Good(s)
    BY <2>1, <2>2
  <2>4. QED
    BY <2>3
<1>4. Nat \subseteq N
  <2> HIDE DEF N
  <2>1. QED
    BY <1>2, <1>3, SetInduction
<1>5. Small(S, Cardinality(S)) = SUBSET S /\ Cardinality(S) \in Nat
  BY SmallFacts, FS_CardinalityType
<1>6. QED
  BY <1>4, <1>5

(* The sum of integers is an integer, and takes each element apart. *)
LEMMA SumRemove ==
  ASSUME NEW f, NEW S, IsFiniteSet(S), \A x \in S : f[x] \in Int
  PROVE  /\ SumFunctionOnSet(f, S) \in Int
         /\ \A x \in S : SumFunctionOnSet(f, S) = f[x] + SumFunctionOnSet(f, S \ {x})
<1>1. Sums(f, S)[S] \in Int /\ \A x \in S : Sums(f, S)[S] = f[x] + Sums(f, S)[S \ {x}]
  <2>1. \A s \in SUBSET S : /\ Sums(f, S)[s] \in Int
                            /\ \A x \in s : Sums(f, S)[s] = f[x] + Sums(f, S)[s \ {x}]
    BY SumsAnyOrder
  <2>2. S \in SUBSET S
    OBVIOUS
  <2>3. QED
    BY <2>1, <2>2
<1>2. ASSUME NEW x \in S
      PROVE  Sums(f, S)[S \ {x}] = SumFunctionOnSet(f, S \ {x})
  <2>1. Sums(f, S)[S \ {x}] = Sums(f, S \ {x})[S \ {x}]
    <3>1. S \ {x} \in SUBSET S /\ S \ {x} \in SUBSET (S \ {x})
      OBVIOUS
    <3>2. \A s \in SUBSET (S \ {x}) : Sums(f, S)[s] = Sums(f, S \ {x})[s]
      BY <3>1, SumsAgree
    <3>3. QED
      BY <3>1, <3>2
  <2>2. QED
    BY <2>1, SumIsSums
<1>3. QED
  BY <1>1, <1>2, SumIsSums

(* Changing one value changes the sum by the difference. *)
LEMMA SumUpdate ==
  ASSUME NEW S, IsFiniteSet(S), NEW f \in [S -> Int], NEW g \in [S -> Int], NEW x \in S,
         \A y \in S \ {x} : g[y] = f[y]
  PROVE  /\ SumFunctionOnSet(f, S) \in Int
         /\ SumFunctionOnSet(g, S) = SumFunctionOnSet(f, S) - f[x] + g[x]
<1> DEFINE rest == SumFunctionOnSet(f, S \ {x})
<1>1. IsFiniteSet(S \ {x})
  BY FS_RemoveElement
<1>2. rest \in Int
  BY <1>1, SumRemove
<1>3. SumFunctionOnSet(g, S \ {x}) = rest
  BY <1>1, SumSame
<1>4. SumFunctionOnSet(f, S) = f[x] + rest /\ SumFunctionOnSet(g, S) = g[x] + rest
  BY <1>3, SumRemove
<1> HIDE DEF rest
<1>5. f[x] \in Int /\ g[x] \in Int
  OBVIOUS
<1>6. QED
  BY <1>2, <1>4, <1>5

(* Induction on the subsets of a finite set. *)
LEMMA FiniteInduction ==
  ASSUME NEW S, IsFiniteSet(S), NEW T, {} \in T,
         \A s \in SUBSET S : \A x \in S \ s : s \in T => s \cup {x} \in T
  PROVE  SUBSET S \subseteq T
<1> DEFINE N == {n \in Nat : Small(S, n) \subseteq T}
<1>1. 0 \in N
  <2>1. Small(S, 0) = {{}}
    BY SmallFacts
  <2>2. QED
    BY <2>1
<1>2. ASSUME NEW n \in Nat, n \in N
      PROVE  n + 1 \in N
  <2>1. ASSUME NEW s \in Small(S, n + 1), s # {}
        PROVE  s \in T
    <3> DEFINE x == Some(s)
               r == s \ {x}
    <3>1. s \in SUBSET S /\ x \in s /\ r \in Small(S, n)
      BY <2>1, SmallFacts DEF Small
    <3>2. r \in T
      BY <1>2, <3>1
    <3>3. r \in SUBSET S /\ x \in S \ r /\ s = r \cup {x}
      BY <3>1
    <3>4. QED
      BY <3>2, <3>3
  <2>2. Small(S, n + 1) \subseteq T
    BY <2>1
  <2>3. QED
    BY <2>2
<1>3. Nat \subseteq N
  <2> HIDE DEF N
  <2>1. QED
    BY <1>1, <1>2, SetInduction
<1>4. Small(S, Cardinality(S)) = SUBSET S /\ Cardinality(S) \in Nat
  BY SmallFacts, FS_CardinalityType
<1>5. QED
  BY <1>3, <1>4

(* A sum over nothing. *)
LEMMA SumEmpty ==
  ASSUME NEW f
  PROVE  SumFunctionOnSet(f, {}) = 0
<1>1. Sums(f, {})[{}] = 0
  BY SumsStep, FS_EmptySet
<1>2. QED
  BY <1>1, SumIsSums

(* A sum with one more element. *)
LEMMA SumAdd ==
  ASSUME NEW f, NEW S, IsFiniteSet(S), NEW x, x \notin S, f[x] \in Int, \A y \in S : f[y] \in Int
  PROVE  SumFunctionOnSet(f, S \cup {x}) = f[x] + SumFunctionOnSet(f, S)
<1> DEFINE T == S \cup {x}
<1>1. IsFiniteSet(T) /\ x \in T /\ T \ {x} = S /\ \A y \in T : f[y] \in Int
  BY FS_AddElement
<1> HIDE DEF T
<1>2. SumFunctionOnSet(f, T) = f[x] + SumFunctionOnSet(f, T \ {x})
  BY <1>1, SumRemove
<1>3. QED
  BY <1>1, <1>2 DEF T

(* A sum of zeros is zero. *)
LEMMA SumZero ==
  ASSUME NEW f, NEW S, IsFiniteSet(S), \A x \in S : f[x] = 0
  PROVE  SumFunctionOnSet(f, S) = 0
<1> DEFINE T == {s \in SUBSET S : SumFunctionOnSet(f, s) = 0}
<1>1. {} \in T
  BY SumEmpty
<1>2. ASSUME NEW s \in SUBSET S, NEW x \in S \ s, s \in T
      PROVE  s \cup {x} \in T
  <2>1. IsFiniteSet(s)
    BY FS_Subset
  <2>2. SumFunctionOnSet(f, s \cup {x}) = f[x] + SumFunctionOnSet(f, s)
    BY <2>1, SumAdd
  <2>3. f[x] = 0 /\ SumFunctionOnSet(f, s) = 0
    BY <1>2
  <2>4. QED
    BY <2>2, <2>3
<1>3. SUBSET S \subseteq T
  <2> HIDE DEF T
  <2>1. QED
    BY <1>1, <1>2, FiniteInduction
<1>4. QED
  BY <1>3

(* A sum of naturals is a natural, and no less than any of its parts. *)
LEMMA SumNat ==
  ASSUME NEW f, NEW S, IsFiniteSet(S), \A x \in S : f[x] \in Nat
  PROVE  SumFunctionOnSet(f, S) \in Nat
<1> DEFINE T == {s \in SUBSET S : SumFunctionOnSet(f, s) \in Nat}
<1>1. {} \in T
  BY SumEmpty
<1>2. ASSUME NEW s \in SUBSET S, NEW x \in S \ s, s \in T
      PROVE  s \cup {x} \in T
  <2>1. IsFiniteSet(s)
    BY FS_Subset
  <2>2. SumFunctionOnSet(f, s \cup {x}) = f[x] + SumFunctionOnSet(f, s)
    BY <2>1, SumAdd
  <2>3. f[x] \in Nat /\ SumFunctionOnSet(f, s) \in Nat
    BY <1>2
  <2>4. QED
    BY <2>2, <2>3
<1>3. SUBSET S \subseteq T
  <2> HIDE DEF T
  <2>1. QED
    BY <1>1, <1>2, FiniteInduction
<1>4. QED
  BY <1>3

(* No summand exceeds a sum of naturals. *)
LEMMA SumBound ==
  ASSUME NEW f, NEW S, IsFiniteSet(S), \A x \in S : f[x] \in Nat, NEW x \in S
  PROVE  f[x] <= SumFunctionOnSet(f, S)
<1>1. SumFunctionOnSet(f, S) = f[x] + SumFunctionOnSet(f, S \ {x})
  BY SumRemove
<1>2. SumFunctionOnSet(f, S \ {x}) \in Nat
  BY FS_RemoveElement, SumNat
<1>3. f[x] \in Nat
  OBVIOUS
<1>4. QED
  BY <1>1, <1>2, <1>3

(* The sum of a sum, term by term. *)
LEMMA SumPlus ==
  ASSUME NEW S, IsFiniteSet(S), NEW f, NEW g, NEW h,
         \A x \in S : f[x] \in Int /\ g[x] \in Int /\ h[x] = f[x] + g[x]
  PROVE  SumFunctionOnSet(h, S) = SumFunctionOnSet(f, S) + SumFunctionOnSet(g, S)
<1> DEFINE F(s) == SumFunctionOnSet(f, s)
           G(s) == SumFunctionOnSet(g, s)
           H(s) == SumFunctionOnSet(h, s)
           T == {s \in SUBSET S : H(s) = F(s) + G(s)}
<1>1. {} \in T
  <2>1. F({}) = 0 /\ G({}) = 0 /\ H({}) = 0
    BY SumEmpty
  <2>2. QED
    BY <2>1
<1>2. ASSUME NEW s \in SUBSET S, NEW x \in S \ s, s \in T
      PROVE  s \cup {x} \in T
  <2>1. IsFiniteSet(s) /\ \A y \in S : h[y] \in Int
    BY FS_Subset
  <2>2. /\ F(s \cup {x}) = f[x] + F(s) /\ G(s \cup {x}) = g[x] + G(s)
        /\ H(s \cup {x}) = h[x] + H(s)
    BY <2>1, SumAdd
  <2>3. F(s) \in Int /\ G(s) \in Int
    BY <2>1, SumRemove
  <2>4. f[x] \in Int /\ g[x] \in Int /\ h[x] = f[x] + g[x] /\ H(s) = F(s) + G(s)
    BY <1>2
  <2> HIDE DEF F, G, H
  <2>5. H(s \cup {x}) = F(s \cup {x}) + G(s \cup {x})
    BY <2>2, <2>3, <2>4
  <2>6. QED
    BY <2>5
<1>3. SUBSET S \subseteq T
  <2> HIDE DEF T
  <2>1. QED
    BY <1>1, <1>2, FiniteInduction
<1>4. QED
  BY <1>3

(* The sum of a difference, term by term. *)
LEMMA SumMinus ==
  ASSUME NEW S, IsFiniteSet(S), NEW f, NEW g, NEW h,
         \A x \in S : f[x] \in Int /\ g[x] \in Int /\ h[x] = f[x] - g[x]
  PROVE  SumFunctionOnSet(h, S) = SumFunctionOnSet(f, S) - SumFunctionOnSet(g, S)
<1> DEFINE F == SumFunctionOnSet(f, S)
           G == SumFunctionOnSet(g, S)
           H == SumFunctionOnSet(h, S)
<1>1. \A x \in S : h[x] \in Int /\ g[x] \in Int /\ f[x] = h[x] + g[x]
  OBVIOUS
<1>2. F = H + G
  BY <1>1, SumPlus
<1>3. G \in Int /\ H \in Int
  BY <1>1, SumRemove
<1> HIDE DEF F, G, H
<1>4. H = F - G
  BY <1>2, <1>3
<1>5. QED
  BY <1>4 DEF F, G, H

(* The sum over a part and over the rest. *)
LEMMA SumSplit ==
  ASSUME NEW S, IsFiniteSet(S), NEW f, \A x \in S : f[x] \in Int, NEW A \in SUBSET S
  PROVE  SumFunctionOnSet(f, S) = SumFunctionOnSet(f, A) + SumFunctionOnSet(f, S \ A)
<1> DEFINE F(s) == SumFunctionOnSet(f, s)
           T == {s \in SUBSET S : s \cap A = {} => F(A \cup s) = F(A) + F(s)}
<1>0. IsFiniteSet(A) /\ F(A) \in Int
  BY FS_Subset, SumRemove
<1>1. {} \in T
  <2>1. F({}) = 0 /\ A \cup {} = A
    BY SumEmpty
  <2> HIDE DEF F
  <2>2. F(A \cup {}) = F(A) + F({})
    BY <1>0, <2>1
  <2>3. QED
    BY <2>2
<1>2. ASSUME NEW s \in SUBSET S, NEW x \in S \ s, s \in T
      PROVE  s \cup {x} \in T
  <2> DEFINE t == s \cup {x}
  <2>1. SUFFICES ASSUME t \cap A = {} PROVE F(A \cup t) = F(A) + F(t)
    OBVIOUS
  <2>2. IsFiniteSet(s) /\ IsFiniteSet(A \cup s) /\ f[x] \in Int /\ x \notin A \cup s
        /\ s \cap A = {}
    BY <1>0, <2>1, FS_Subset, FS_Union
  <2>3. F(t) = f[x] + F(s)
    BY <2>2, SumAdd
  <2>4. F((A \cup s) \cup {x}) = f[x] + F(A \cup s)
    BY <2>2, SumAdd
  <2>5. F(s) \in Int /\ F(A \cup s) = F(A) + F(s)
    BY <1>2, <2>2, SumRemove
  <2>6. (A \cup s) \cup {x} = A \cup t
    OBVIOUS
  <2>7. F(A \cup t) = f[x] + F(A \cup s)
    BY <2>4, <2>6
  <2> HIDE DEF F, t
  <2>8. QED
    BY <1>0, <2>2, <2>3, <2>5, <2>7
<1>3. SUBSET S \subseteq T
  <2> HIDE DEF T
  <2>1. QED
    BY <1>1, <1>2, FiniteInduction
<1>4. S \ A \in SUBSET S /\ (S \ A) \cap A = {} /\ A \cup (S \ A) = S
  OBVIOUS
<1>5. S \ A \in T
  BY <1>3, <1>4
<1>6. F(A \cup (S \ A)) = F(A) + F(S \ A)
  BY <1>4, <1>5
<1>7. QED
  BY <1>4, <1>6

(* Terms that are zero may be left out. *)
LEMMA SumSubset ==
  ASSUME NEW S, IsFiniteSet(S), NEW R \in SUBSET S, NEW f,
         \A x \in S : f[x] \in Int, \A x \in S \ R : f[x] = 0
  PROVE  SumFunctionOnSet(f, R) = SumFunctionOnSet(f, S)
<1>1. IsFiniteSet(R) /\ IsFiniteSet(S \ R)
  BY FS_Subset
<1>2. SumFunctionOnSet(f, S \ R) = 0
  BY <1>1, SumZero
<1>3. SumFunctionOnSet(f, R) \in Int
  BY <1>1, SumRemove
<1>4. SumFunctionOnSet(f, S) = SumFunctionOnSet(f, R) + SumFunctionOnSet(f, S \ R)
  BY SumSplit
<1>5. QED
  BY <1>2, <1>3, <1>4

(* The terms may be named otherwise. *)
LEMMA SumImage ==
  ASSUME NEW S, IsFiniteSet(S), NEW m, NEW f, NEW g,
         \A x, y \in S : m[x] = m[y] => x = y,
         \A x \in S : f[m[x]] \in Int /\ g[x] = f[m[x]]
  PROVE  SumFunctionOnSet(f, {m[x] : x \in S}) = SumFunctionOnSet(g, S)
<1> DEFINE Im(s) == {m[x] : x \in s}
           F(s) == SumFunctionOnSet(f, Im(s))
           G(s) == SumFunctionOnSet(g, s)
           T == {s \in SUBSET S : F(s) = G(s)}
<1>1. {} \in T
  <2>1. Im({}) = {}
    OBVIOUS
  <2>2. F({}) = 0 /\ G({}) = 0
    BY <2>1, SumEmpty
  <2>3. QED
    BY <2>2
<1>2. ASSUME NEW s \in SUBSET S, NEW x \in S \ s, s \in T
      PROVE  s \cup {x} \in T
  <2>1. IsFiniteSet(s) /\ IsFiniteSet(Im(s))
    <3> DEFINE im == [y \in s |-> m[y]]
    <3>1. IsFiniteSet(s)
      BY FS_Subset
    <3>2. im \in Surjection(s, Im(s))
      BY DEF Surjection
    <3>3. QED
      BY <3>1, <3>2, FS_Surjection
  <2>2. Im(s \cup {x}) = Im(s) \cup {m[x]} /\ m[x] \notin Im(s)
    OBVIOUS
  <2>3. f[m[x]] \in Int /\ (\A y \in Im(s) : f[y] \in Int) /\ g[x] = f[m[x]]
    OBVIOUS
  <2>4. \A y \in s : g[y] \in Int
    OBVIOUS
  <2>5. G(s \cup {x}) = g[x] + G(s)
    BY <2>1, <2>3, <2>4, SumAdd
  <2>6. F(s \cup {x}) = f[m[x]] + F(s)
    <3> HIDE DEF Im
    <3>1. SumFunctionOnSet(f, Im(s) \cup {m[x]}) = f[m[x]] + SumFunctionOnSet(f, Im(s))
      BY <2>1, <2>2, <2>3, SumAdd
    <3>2. QED
      BY <2>2, <3>1
  <2>7. F(s) = G(s)
    BY <1>2
  <2> HIDE DEF F, G
  <2>8. F(s \cup {x}) = G(s \cup {x})
    BY <2>3, <2>5, <2>6, <2>7
  <2>9. QED
    BY <2>8
<1>3. SUBSET S \subseteq T
  <2> HIDE DEF T
  <2>1. QED
    BY <1>1, <1>2, FiniteInduction
<1>4. QED
  BY <1>3

(* SumFunction adds over the domain. *)
LEMMA SumFunctionIs ==
  ASSUME NEW S, NEW R, NEW f \in [S -> R]
  PROVE  SumFunction(f) = SumFunctionOnSet(f, S)
  BY DEF SumFunction, FoldFunction, SumFunctionOnSet

-----------------------------------------------------------------------------
(* Loops and folds: a recursive function over the first numbers, or over     *)
(* the sets of positions as FoldLeft has it, exists when its steps stay in   *)
(* one set.                                                                  *)

LoopEquation(G, b, n, f) == f = [k \in 0..n |-> IF k = 0 THEN b ELSE G[f[k - 1]]]

(* A loop of n steps over a set has a run. *)
LEMMA LoopDefined ==
  ASSUME NEW S, NEW b \in S, NEW G \in [S -> S], NEW n \in Nat
  PROVE  \E f : LoopEquation(G, b, n, f) /\ f \in [0..n -> S]
<1> DEFINE T == {m \in Nat : \E f : LoopEquation(G, b, m, f) /\ f \in [0..m -> S]}
<1>1. 0 \in T
  <2> DEFINE f == [k \in 0..0 |-> b]
  <2>1. LoopEquation(G, b, 0, f) /\ f \in [0..0 -> S]
    BY DEF LoopEquation
  <2> HIDE DEF f
  <2>2. \E g : LoopEquation(G, b, 0, g) /\ g \in [0..0 -> S]
    BY <2>1
  <2>3. QED
    BY <2>2
<1>2. ASSUME NEW m \in Nat, m \in T
      PROVE  m + 1 \in T
  <2>1. PICK f : LoopEquation(G, b, m, f) /\ f \in [0..m -> S]
    BY <1>2
  <2> DEFINE g == [k \in 0..(m + 1) |-> IF k = 0 THEN b ELSE G[f[k - 1]]]
  <2>2. \A k \in 0..m : g[k] = f[k]
    <3>1. \A k \in 0..m : f[k] = IF k = 0 THEN b ELSE G[f[k - 1]]
      BY <2>1 DEF LoopEquation
    <3>2. QED
      BY <3>1
  <2>3. \A k \in 0..(m + 1) : k # 0 => k - 1 \in 0..m
    OBVIOUS
  <2>4. \A k \in 0..(m + 1) : g[k] = IF k = 0 THEN b ELSE G[g[k - 1]]
    BY <2>2, <2>3
  <2>5. \A k \in 0..(m + 1) : g[k] \in S
    BY <2>1, <2>3
  <2>6. g = [k \in 0..(m + 1) |-> g[k]]
    OBVIOUS
  <2> HIDE DEF g
  <2>7. LoopEquation(G, b, m + 1, g) /\ g \in [0..(m + 1) -> S]
    BY <2>4, <2>5, <2>6 DEF LoopEquation
  <2>8. \E h : LoopEquation(G, b, m + 1, h) /\ h \in [0..(m + 1) -> S]
    BY <2>7
  <2>9. QED
    BY <2>8
<1>3. Nat \subseteq T
  <2> HIDE DEF T
  <2>1. QED
    BY <1>1, <1>2, SetInduction
<1>4. QED
  BY <1>3

(* Some predicate that the start has and a step keeps holds all along. *)
LEMMA LoopInduction ==
  ASSUME NEW n \in Nat, NEW T, 0 \in T, \A k \in 1..n : k - 1 \in T => k \in T
  PROVE  0..n \subseteq T
<1> DEFINE U == {k \in Nat : k <= n => k \in T}
<1>1. 0 \in U
  OBVIOUS
<1>2. ASSUME NEW k \in Nat, k \in U
      PROVE  k + 1 \in U
  <2>1. SUFFICES ASSUME k + 1 <= n PROVE k + 1 \in T
    OBVIOUS
  <2>2. k \in T /\ k + 1 \in 1..n /\ (k + 1) - 1 = k
    BY <1>2, <2>1
  <2>3. QED
    BY <2>2
<1>3. Nat \subseteq U
  <2> HIDE DEF U
  <2>1. QED
    BY <1>1, <1>2, SetInduction
<1>4. QED
  BY <1>3

FoldEquation(G, b, D, g) ==
  g = [s \in D |-> IF s = {} THEN b ELSE G[Max(s)][g[s \ {Max(s)}]]]

(* The positions of a sequence are finite and as many as its length. *)
LEMMA PositionsFinite ==
  ASSUME NEW n \in Nat
  PROVE  IsFiniteSet(1..n) /\ Cardinality(1..n) = n
<1>1. 1 \in Int /\ n \in Int
  OBVIOUS
<1>2. IsFiniteSet(1..n) /\ Cardinality(1..n) = IF 1 > n THEN 0 ELSE n - 1 + 1
  BY <1>1, FS_Interval
<1>3. QED
  BY <1>2

(* The last of a set of positions. *)
LEMMA LastPosition ==
  ASSUME NEW n \in Nat
  PROVE  /\ \A s \in SUBSET (1..n) : s # {} => Max(s) \in s
         /\ \A k \in 1..n : Max(1..k) = k /\ (1..k) \ {Max(1..k)} = 1..(k - 1)
<1>1. ASSUME NEW s \in SUBSET (1..n), s # {}
      PROVE  Max(s) \in s
  <2>1. s \in SUBSET Nat /\ \A y \in s : y <= n
    OBVIOUS
  <2>2. QED
    BY <1>1, <2>1, MaxFacts
<1>2. ASSUME NEW k \in 1..n
      PROVE  Max(1..k) = k /\ (1..k) \ {Max(1..k)} = 1..(k - 1)
  <2>1. 1..k \in SUBSET Nat /\ k \in 1..k /\ (\A y \in 1..k : y <= k) /\ k \in Nat
    OBVIOUS
  <2>2. 1..k # {}
    BY <2>1
  <2>3. Max(1..k) \in 1..k /\ \A y \in 1..k : Max(1..k) >= y
    BY <2>1, <2>2, MaxFacts
  <2>4. Max(1..k) = k
    BY <2>1, <2>3
  <2>5. (1..k) \ {k} = 1..(k - 1)
    OBVIOUS
  <2>6. QED
    BY <2>4, <2>5
<1>3. QED
  BY <1>1, <1>2

(* The first positions, which are what a fold has seen. *)
LEMMA FirstPositions ==
  ASSUME NEW n \in Nat
  PROVE  /\ 1..0 = {} /\ 0 \in 0..n /\ n \in 0..n /\ {} \in SUBSET (1..n)
         /\ \A k \in 1..n : /\ 1..k \in SUBSET (1..n) /\ 1..k # {}
                            /\ k \in 0..n /\ k - 1 \in 0..n
<1>1. ASSUME NEW k \in 1..n
      PROVE  1..k \in SUBSET (1..n) /\ 1..k # {} /\ k \in 0..n /\ k - 1 \in 0..n
  <2>1. \A i \in 1..k : i \in 1..n
    OBVIOUS
  <2>2. 1 \in 1..k /\ k \in 0..n /\ k - 1 \in 0..n
    OBVIOUS
  <2>3. QED
    BY <2>1, <2>2
<1>2. QED
  BY <1>1

(* A fold whose step depends on the position has a run over the             *)
(* positions.                                                               *)
LEMMA FoldDefined ==
  ASSUME NEW S, NEW b \in S, NEW n \in Nat, NEW G \in [1..n -> [S -> S]]
  PROVE  \E g : FoldEquation(G, b, SUBSET (1..n), g) /\ g \in [SUBSET (1..n) -> S]
<1> DEFINE D(m) == Small(1..n, m)
           T == {m \in Nat : \E g : FoldEquation(G, b, D(m), g) /\ g \in [D(m) -> S]}
<1>0. IsFiniteSet(1..n) /\ Cardinality(1..n) = n
  BY PositionsFinite
<1>1. 0 \in T
  <2>1. D(0) = {{}}
    BY <1>0, SmallFacts
  <2> DEFINE g == [s \in {{}} |-> b]
  <2>2. FoldEquation(G, b, {{}}, g) /\ g \in [{{}} -> S]
    BY DEF FoldEquation
  <2> HIDE DEF g, D
  <2>3. \E h : FoldEquation(G, b, D(0), h) /\ h \in [D(0) -> S]
    BY <2>1, <2>2
  <2>4. QED
    BY <2>3
<1>2. ASSUME NEW m \in Nat, m \in T
      PROVE  m + 1 \in T
  <2>1. PICK g : FoldEquation(G, b, D(m), g) /\ g \in [D(m) -> S]
    BY <1>2
  <2>2. D(m) \subseteq D(m + 1) /\ D(m + 1) \subseteq SUBSET (1..n)
    <3>1. Small(1..n, m) \subseteq Small(1..n, m + 1)
      BY <1>0, SmallFacts
    <3>2. \A s \in Small(1..n, m + 1) : s \in SUBSET (1..n)
      BY DEF Small
    <3>3. QED
      BY <3>1, <3>2
  <2>3. ASSUME NEW s \in D(m + 1), s # {}
        PROVE  Max(s) \in 1..n /\ s \ {Max(s)} \in D(m)
    <3>1. s \in SUBSET (1..n) /\ Max(s) \in s
      BY <2>2, <2>3, LastPosition
    <3>2. IsFiniteSet(s) /\ Cardinality(s) \in Nat /\ Cardinality(s) <= m + 1
      BY <1>0, <3>1, FS_Subset, FS_CardinalityType DEF Small
    <3>3. Cardinality(s \ {Max(s)}) = Cardinality(s) - 1
      BY <3>1, <3>2, FS_RemoveElement
    <3>4. s \ {Max(s)} \in SUBSET (1..n)
      BY <3>1
    <3>5. \A c \in Nat : c <= m + 1 => c - 1 <= m
      OBVIOUS
    <3>6. Cardinality(s \ {Max(s)}) <= m
      BY <3>2, <3>3, <3>5
    <3>7. QED
      BY <3>1, <3>4, <3>6 DEF Small
  <2> HIDE DEF D
  <2> DEFINE h == [s \in D(m + 1) |-> IF s = {} THEN b ELSE G[Max(s)][g[s \ {Max(s)}]]]
  <2>4. \A s \in D(m) : h[s] = g[s]
    <3>1. \A s \in D(m) : g[s] = IF s = {} THEN b ELSE G[Max(s)][g[s \ {Max(s)}]]
      BY <2>1 DEF FoldEquation
    <3>2. QED
      BY <2>2, <3>1
  <2>5. \A s \in D(m + 1) : h[s] = IF s = {} THEN b ELSE G[Max(s)][h[s \ {Max(s)}]]
    BY <2>3, <2>4
  <2>6. \A s \in D(m + 1) : h[s] \in S
    <3>1. TAKE s \in D(m + 1)
    <3>2. CASE s = {}
      BY <3>2
    <3>3. CASE s # {}
      <4>1. Max(s) \in 1..n /\ s \ {Max(s)} \in D(m)
        BY <2>3, <3>3
      <4>2. g[s \ {Max(s)}] \in S /\ G[Max(s)] \in [S -> S]
        BY <2>1, <4>1
      <4>3. QED
        BY <3>3, <4>2
    <3>4. QED
      BY <3>2, <3>3
  <2>7. h = [s \in D(m + 1) |-> h[s]]
    OBVIOUS
  <2> HIDE DEF h
  <2>8. FoldEquation(G, b, D(m + 1), h) /\ h \in [D(m + 1) -> S]
    BY <2>5, <2>6, <2>7 DEF FoldEquation
  <2>9. \E x : FoldEquation(G, b, D(m + 1), x) /\ x \in [D(m + 1) -> S]
    BY <2>8
  <2>10. QED
    BY <2>9
<1>3. Nat \subseteq T
  <2> HIDE DEF T
  <2>1. QED
    BY <1>1, <1>2, SetInduction
<1>4. D(n) = SUBSET (1..n)
  BY <1>0, SmallFacts
<1>5. \E g : FoldEquation(G, b, D(n), g) /\ g \in [D(n) -> S]
  BY <1>3
<1> HIDE DEF D
<1>6. QED
  BY <1>4, <1>5

-----------------------------------------------------------------------------
(* In a strict order of the positions 1..n, exactly one has k - 1 before it. *)
StrictOrder(n, R) ==
  /\ \A i \in 1..n : <<i, i>> \notin R
  /\ \A i, j, k \in 1..n : <<i, j>> \in R /\ <<j, k>> \in R => <<i, k>> \in R
  /\ \A i, j \in 1..n : i # j => <<i, j>> \in R \/ <<j, i>> \in R

(* In a strict order of n things the ranks are 1 to n, each of one thing. *)
LEMMA RanksAreNumbers ==
  ASSUME NEW n \in Nat, NEW R, StrictOrder(n, R)
  PROVE  /\ \A j \in 1..n : Cardinality({i \in 1..n : <<i, j>> \in R}) + 1 \in 1..n
         /\ \A k \in 1..n : \E j \in 1..n : Cardinality({i \in 1..n : <<i, j>> \in R}) + 1 = k
         /\ \A i, j \in 1..n : Cardinality({h \in 1..n : <<h, i>> \in R})
                                 = Cardinality({h \in 1..n : <<h, j>> \in R}) => i = j
<1> DEFINE B(j) == {i \in 1..n : <<i, j>> \in R}
           C(j) == Cardinality(B(j))
           f == [j \in 1..n |-> C(j) + 1]
<1>0. IsFiniteSet(1..n) /\ Cardinality(1..n) = n
  BY PositionsFinite
<1>1. ASSUME NEW j \in 1..n
      PROVE  C(j) \in Nat /\ C(j) <= n - 1 /\ IsFiniteSet(B(j))
  <2>1. IsFiniteSet((1..n) \ {j}) /\ Cardinality((1..n) \ {j}) = n - 1
    BY <1>0, FS_RemoveElement
  <2>2. B(j) \in SUBSET ((1..n) \ {j})
    BY DEF StrictOrder
  <2> HIDE DEF B
  <2>3. IsFiniteSet(B(j)) /\ Cardinality(B(j)) <= n - 1
    BY <2>1, <2>2, FS_Subset
  <2>4. QED
    BY <2>3, FS_CardinalityType
<1>2. ASSUME NEW i \in 1..n, NEW j \in 1..n, <<i, j>> \in R
      PROVE  C(i) < C(j)
  <2>1. B(i) \in SUBSET (B(j) \ {i}) /\ i \in B(j)
    BY <1>2 DEF StrictOrder
  <2>2. IsFiniteSet(B(j)) /\ C(j) \in Nat /\ C(i) \in Nat
    BY <1>1
  <2> HIDE DEF B
  <2>3. IsFiniteSet(B(j) \ {i}) /\ Cardinality(B(j) \ {i}) = C(j) - 1
    BY <2>1, <2>2, FS_RemoveElement
  <2>4. C(i) <= C(j) - 1
    BY <2>1, <2>3, FS_Subset
  <2> HIDE DEF C
  <2>5. QED
    BY <2>2, <2>4
<1> HIDE DEF B, C
<1>3. \A i, j \in 1..n : C(i) = C(j) => i = j
  <2>1. TAKE i, j \in 1..n
  <2>2. SUFFICES ASSUME i # j PROVE C(i) # C(j)
    OBVIOUS
  <2>3. C(i) < C(j) \/ C(j) < C(i)
    BY <1>2, <2>2 DEF StrictOrder
  <2>4. QED
    BY <1>1, <2>3
<1>4. \A j \in 1..n : C(j) + 1 \in 1..n
  BY <1>1
<1>5. \A k \in 1..n : \E j \in 1..n : C(j) + 1 = k
  <2>1. f \in [1..n -> 1..n] /\ \A j \in 1..n : f[j] = C(j) + 1
    BY <1>4
  <2> HIDE DEF f
  <2>2. \A i, j \in 1..n : f[i] = f[j] => i = j
    <3>1. \A i \in 1..n : C(i) \in Nat
      BY <1>1
    <3>2. \A i, j \in 1..n : f[i] = f[j] => C(i) = C(j)
      BY <2>1, <3>1
    <3>3. QED
      BY <1>3, <3>2
  <2>3. f \in Injection(1..n, 1..n)
    BY <2>1, <2>2 DEF Injection, IsInjective
  <2>4. f \in Surjection(1..n, 1..n)
    BY <1>0, <2>3, FS_Injection
  <2>5. \A k \in 1..n : \E j \in 1..n : f[j] = k
    BY <2>4 DEF Surjection
  <2>6. QED
    BY <2>1, <2>5
<1>6. QED
  BY <1>3, <1>4, <1>5 DEF B, C

-----------------------------------------------------------------------------
(* Small and finite sets. *)

(* A finite set that is not empty has an element of greatest measure. *)
LEMMA Greatest ==
  ASSUME NEW S, IsFiniteSet(S), S # {}, NEW f, \A p \in S : f[p] \in Nat
  PROVE  \E p \in S : \A q \in S : f[q] <= f[p]
<1> DEFINE T == {s \in SUBSET S : s # {} => \E p \in s : \A q \in s : f[q] <= f[p]}
<1>1. {} \in T
  OBVIOUS
<1>2. ASSUME NEW s \in SUBSET S, NEW x \in S \ s, s \in T
      PROVE  s \cup {x} \in T
  <2>1. s \cup {x} \in SUBSET S
    OBVIOUS
  <2>2. \E p \in s \cup {x} : \A q \in s \cup {x} : f[q] <= f[p]
    <3>1. CASE s = {}
      BY <3>1
    <3>2. CASE s # {}
      <4>1. PICK p \in s : \A q \in s : f[q] <= f[p]
        BY <1>2, <3>2
      <4>2. CASE f[x] <= f[p]
        BY <4>1, <4>2
      <4>3. CASE ~(f[x] <= f[p])
        <5>1. f[p] \in Nat /\ f[x] \in Nat /\ \A q \in s : f[q] \in Nat
          OBVIOUS
        <5>2. \A q \in s \cup {x} : f[q] <= f[x]
          BY <4>1, <4>3, <5>1
        <5>3. QED
          BY <5>2
      <4>4. QED
        BY <4>2, <4>3
    <3>3. QED
      BY <3>1, <3>2
  <2>3. QED
    BY <2>1, <2>2
<1> HIDE DEF T
<1>3. SUBSET S \subseteq T
  BY <1>1, <1>2, FiniteInduction
<1>4. S \in T
  BY <1>3
<1>5. QED
  BY <1>4 DEF T

(* A set of at most one, two or three elements. *)
LEMMA FewElements ==
  ASSUME NEW S, IsFiniteSet(S)
  PROVE  /\ Cardinality(S) <= 1 => \E x : S \subseteq {x}
         /\ Cardinality(S) <= 2 => \E x, y : S \subseteq {x, y}
         /\ Cardinality(S) <= 3 => \E x, y, z : S \subseteq {x, y, z}
<1>1. ASSUME NEW U, IsFiniteSet(U), Cardinality(U) <= 1
      PROVE  \E x : U \subseteq {x}
  <2>1. Cardinality(U) \in Nat
    BY <1>1, FS_CardinalityType
  <2>2. Cardinality(U) = 0 \/ Cardinality(U) = 1
    BY <1>1, <2>1
  <2>3. CASE Cardinality(U) = 0
    <3>1. U = {}
      BY <1>1, <2>3, FS_EmptySet
    <3>2. QED
      BY <3>1
  <2>4. CASE Cardinality(U) = 1
    <3>1. PICK x : U = {x}
      BY <1>1, <2>4, FS_Singleton
    <3>2. QED
      BY <3>1
  <2>5. QED
    BY <2>2, <2>3, <2>4
<1>2. ASSUME NEW U, IsFiniteSet(U), NEW u \in U
      PROVE  /\ IsFiniteSet(U \ {u}) /\ Cardinality(U) \in Nat
             /\ Cardinality(U \ {u}) = Cardinality(U) - 1 /\ U \subseteq (U \ {u}) \cup {u}
  BY <1>2, FS_RemoveElement, FS_CardinalityType
<1>3. ASSUME NEW U, IsFiniteSet(U), Cardinality(U) <= 2
      PROVE  \E x, y : U \subseteq {x, y}
  <2>1. CASE U = {}
    BY <2>1
  <2>2. CASE U # {}
    <3>1. PICK u \in U : TRUE
      BY <2>2
    <3>2. IsFiniteSet(U \ {u}) /\ Cardinality(U \ {u}) <= 1
      BY <1>2, <1>3, <3>1
    <3>3. PICK x : U \ {u} \subseteq {x}
      BY <1>1, <3>2
    <3>4. U \subseteq {x, u}
      BY <3>3
    <3>5. QED
      BY <3>4
  <2>3. QED
    BY <2>1, <2>2
<1>4. ASSUME Cardinality(S) <= 3
      PROVE  \E x, y, z : S \subseteq {x, y, z}
  <2>1. CASE S = {}
    BY <2>1
  <2>2. CASE S # {}
    <3>1. PICK u \in S : TRUE
      BY <2>2
    <3>2. IsFiniteSet(S \ {u}) /\ Cardinality(S \ {u}) <= 2
      BY <1>2, <1>4, <3>1
    <3>3. PICK x, y : S \ {u} \subseteq {x, y}
      BY <1>3, <3>2
    <3>4. S \subseteq {x, y, u}
      BY <3>3
    <3>5. QED
      BY <3>4
  <2>3. QED
    BY <2>1, <2>2
<1>5. QED
  BY <1>1, <1>3, <1>4
=============================================================================
