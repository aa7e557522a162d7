---------------------------- MODULE SumTheorems ----------------------------
(* Sums over finite sets of integers.  The sum is computed by picking the      *)
(* elements in some order; these facts do not depend on which.  Induction over *)
(* the size of a set is over the set of the sizes for which a fact holds.      *)
EXTENDS Integers, FiniteSetsExt, FiniteSetTheorems, WellFoundedInduction, TLAPS

Sum(f, S) == MapThenSumSet(LAMBDA x : f[x], S)

Pick(s) == CHOOSE x \in s : TRUE
Body(f, s, g) == IF s = {} THEN 0 ELSE f[Pick(s)] + g[s \ {Pick(s)}]
Table(f, S) == CHOOSE g : g = [s \in SUBSET S |-> Body(f, s, g)]
Solves(g, f, S) == \A s \in SUBSET S : g[s] = Body(f, s, g)
Small(S, n) == {s \in SUBSET S : Cardinality(s) <= n}

LEMMA Least ==
    ASSUME NEW T, T \subseteq Nat, T # {}
    PROVE  \E x \in T : \A y \in T : x <= y
<1> DEFINE R == OpToRel(<, Nat)
<1>1. IsWellFoundedOn(R, Nat)
  BY NatLessThanWellFounded
<1>2. \A x, y \in Nat : <<y, x>> \in R <=> y < x
  BY DEF OpToRel
<1> HIDE DEF R
<1>3. PICK x \in T : \A y \in T : ~ (<<y, x>> \in R)
  BY <1>1, WFMin
<1>4. ASSUME NEW y \in T
      PROVE  x <= y
  <2>1. x \in Nat /\ y \in Nat
    OBVIOUS
  <2>2. ~ (y < x)
    BY <1>2, <1>3, <2>1
  <2> QED BY <2>1, <2>2
<1> QED BY <1>4

LEMMA SizeInduction ==
    ASSUME NEW T, 0 \in T, \A n \in Nat : n \in T => n + 1 \in T
    PROVE  Nat \subseteq T
<1> SUFFICES ASSUME Nat \ T # {}
             PROVE  FALSE
  OBVIOUS
<1>1. PICK x \in Nat \ T : \A y \in Nat \ T : x <= y
  BY Least
<1>2. x # 0 /\ x - 1 \in Nat /\ x - 1 \notin Nat \ T
  BY <1>1
<1>3. (x - 1) + 1 = x /\ x - 1 \in T
  BY <1>1, <1>2
<1> QED BY <1>1, <1>3

LEMMA SumUnfolds ==
    ASSUME NEW f, NEW S
    PROVE  Sum(f, S) = Table(f, S)[S]
  BY DEF Sum, MapThenSumSet, MapThenFoldSet, Table, Body, Pick

LEMMA SmallSets ==
    ASSUME NEW S, IsFiniteSet(S), NEW s \in SUBSET S, s # {}, NEW x \in s
    PROVE  /\ IsFiniteSet(s) /\ Cardinality(s) \in Nat \ {0}
           /\ s \ {x} \in SUBSET S /\ IsFiniteSet(s \ {x})
           /\ Cardinality(s \ {x}) = Cardinality(s) - 1
<1>1. IsFiniteSet(s)
  BY FS_Subset
<1>2. Cardinality(s) \in Nat /\ Cardinality(s) # 0
  BY <1>1, FS_CardinalityType, FS_EmptySet
<1>3. IsFiniteSet(s \ {x}) /\ Cardinality(s \ {x}) = Cardinality(s) - 1
  BY <1>1, FS_RemoveElement
<1> QED BY <1>1, <1>2, <1>3

LEMMA PickIn ==
    ASSUME NEW s, s # {}
    PROVE  Pick(s) \in s
  BY DEF Pick

LEMMA SmallZero ==
    ASSUME NEW S, IsFiniteSet(S)
    PROVE  \A s \in Small(S, 0) : s = {}
<1>1. \A s \in SUBSET S : s # {} => Cardinality(s) \in Nat \ {0}
  BY SmallSets
<1> QED BY <1>1 DEF Small

LEMMA SmallSmaller ==
    ASSUME NEW S, IsFiniteSet(S), NEW n \in Nat, NEW s \in Small(S, n + 1), s # {}
    PROVE  Pick(s) \in S /\ s \ {Pick(s)} \in Small(S, n) /\ s \ {Pick(s)} \in Small(S, n + 1)
<1>1. s \in SUBSET S /\ Cardinality(s) <= n + 1 /\ Pick(s) \in s
  BY PickIn DEF Small
<1>2. /\ Cardinality(s) \in Nat \ {0} /\ s \ {Pick(s)} \in SUBSET S
      /\ Cardinality(s \ {Pick(s)}) = Cardinality(s) - 1
  BY <1>1, SmallSets
<1> QED BY <1>1, <1>2 DEF Small

LEMMA TableExists ==
    ASSUME NEW S, IsFiniteSet(S), NEW f, \A x \in S : f[x] \in Int
    PROVE  \E g \in [SUBSET S -> Int] : Solves(g, f, S)
<1> DEFINE T == {n \in Nat : \E g \in [Small(S, n) -> Int] :
                                \A s \in Small(S, n) : g[s] = Body(f, s, g)}
<1>1. 0 \in T
  <2> DEFINE g == [s \in Small(S, 0) |-> 0]
  <2>1. \A s \in Small(S, 0) : s = {}
    BY SmallZero
  <2>2. g \in [Small(S, 0) -> Int] /\ \A s \in Small(S, 0) : g[s] = Body(f, s, g)
    BY <2>1 DEF Body
  <2> QED BY <2>2
<1>2. ASSUME NEW n \in Nat, n \in T
      PROVE  n + 1 \in T
  <2>1. PICK g \in [Small(S, n) -> Int] : \A s \in Small(S, n) : g[s] = Body(f, s, g)
    BY <1>2
  <2> DEFINE h == [s \in Small(S, n + 1) |-> Body(f, s, g)]
  <2>2. ASSUME NEW s \in Small(S, n + 1), s # {}
        PROVE  Pick(s) \in S /\ s \ {Pick(s)} \in Small(S, n) /\ s \ {Pick(s)} \in Small(S, n + 1)
    BY <2>2, SmallSmaller
  <2>3. \A s \in Small(S, n) : s \in Small(S, n + 1) /\ h[s] = g[s]
    <3>1. \A s \in SUBSET S : Cardinality(s) \in Nat
      BY FS_Subset, FS_CardinalityType
    <3>2. \A s \in Small(S, n) : s \in Small(S, n + 1)
      BY <3>1 DEF Small
    <3> QED BY <2>1, <3>2
  <2>4. ASSUME NEW s \in Small(S, n + 1)
        PROVE  h[s] \in Int /\ h[s] = Body(f, s, h)
    <3>1. CASE s = {}
      BY <3>1 DEF Body
    <3>2. CASE s # {}
      <4>1. f[Pick(s)] \in Int /\ g[s \ {Pick(s)}] \in Int /\ h[s \ {Pick(s)}] = g[s \ {Pick(s)}]
        BY <2>1, <2>2, <2>3, <3>2
      <4> QED BY <3>2, <4>1 DEF Body
    <3> QED BY <3>1, <3>2
  <2>5. h \in [Small(S, n + 1) -> Int]
    BY <2>4
  <2> HIDE DEF h
  <2>6. \E k \in [Small(S, n + 1) -> Int] : \A s \in Small(S, n + 1) : k[s] = Body(f, s, k)
    BY <2>4, <2>5
  <2> QED BY <2>6
<1> HIDE DEF T
<1>3. Cardinality(S) \in T
  BY <1>1, <1>2, SizeInduction, FS_CardinalityType
<1>4. Small(S, Cardinality(S)) = SUBSET S
  <2>1. \A s \in SUBSET S : Cardinality(s) <= Cardinality(S)
    BY FS_Subset
  <2> QED BY <2>1 DEF Small
<1> QED BY <1>3, <1>4 DEF T, Solves

LEMMA TableUnique ==
    ASSUME NEW S, IsFiniteSet(S), NEW f, NEW g, NEW h, Solves(g, f, S), Solves(h, f, S)
    PROVE  \A s \in SUBSET S : g[s] = h[s]
<1> USE DEF Solves
<1> DEFINE T == {n \in Nat : \A s \in Small(S, n) : g[s] = h[s]}
<1>1. 0 \in T
  <2>1. \A s \in Small(S, 0) : s = {}
    BY SmallZero
  <2>2. {} \in SUBSET S
    OBVIOUS
  <2>3. g[{}] = h[{}]
    BY <2>2 DEF Body
  <2> QED BY <2>1, <2>3
<1>2. ASSUME NEW n \in Nat, n \in T
      PROVE  n + 1 \in T
  <2>1. ASSUME NEW s \in Small(S, n + 1)
        PROVE  g[s] = h[s]
    <3>1. CASE s = {}
      BY <3>1 DEF Body
    <3>2. CASE s # {}
      <4>1. s \in SUBSET S /\ s \ {Pick(s)} \in Small(S, n)
        BY <3>2, SmallSmaller DEF Small
      <4>2. g[s \ {Pick(s)}] = h[s \ {Pick(s)}]
        BY <1>2, <4>1
      <4> QED BY <3>2, <4>1, <4>2 DEF Body
    <3> QED BY <3>1, <3>2
  <2> QED BY <2>1
<1> HIDE DEF T
<1>3. Cardinality(S) \in T
  BY <1>1, <1>2, SizeInduction, FS_CardinalityType
<1>4. \A s \in SUBSET S : s \in Small(S, Cardinality(S))
  BY FS_Subset DEF Small
<1> QED BY <1>3, <1>4 DEF T

LEMMA TableIs ==
    ASSUME NEW S, IsFiniteSet(S), NEW f, \A x \in S : f[x] \in Int
    PROVE  Solves(Table(f, S), f, S) /\ \A s \in SUBSET S : Table(f, S)[s] \in Int
<1>1. PICK g \in [SUBSET S -> Int] : Solves(g, f, S)
  BY TableExists
<1>2. g = [s \in SUBSET S |-> Body(f, s, g)]
  BY <1>1 DEF Solves
<1>3. Table(f, S) = [s \in SUBSET S |-> Body(f, s, Table(f, S))]
  BY <1>2 DEF Table
<1>4. Solves(Table(f, S), f, S)
  BY <1>3 DEF Solves
<1>5. \A s \in SUBSET S : Table(f, S)[s] = g[s]
  BY <1>1, <1>4, TableUnique
<1> QED BY <1>1, <1>4, <1>5

LEMMA SumOfPart ==
    ASSUME NEW S, IsFiniteSet(S), NEW f, \A x \in S : f[x] \in Int, NEW U \in SUBSET S
    PROVE  Sum(f, U) = Table(f, S)[U] /\ Sum(f, U) \in Int
<1>1. IsFiniteSet(U) /\ \A x \in U : f[x] \in Int
  BY FS_Subset
<1>2. Solves(Table(f, U), f, U) /\ Table(f, U)[U] \in Int
  BY <1>1, TableIs
<1>3. Solves(Table(f, S), f, U)
  BY TableIs DEF Solves
<1>4. \A s \in SUBSET U : Table(f, U)[s] = Table(f, S)[s]
  BY <1>1, <1>2, <1>3, TableUnique
<1> QED BY <1>2, <1>4, SumUnfolds

LEMMA SumEmpty ==
    ASSUME NEW f
    PROVE  Sum(f, {}) = 0
<1>1. IsFiniteSet({}) /\ \A x \in {} : f[x] \in Int
  BY FS_EmptySet
<1>2. Table(f, {})[{}] = Body(f, {}, Table(f, {}))
  BY <1>1, TableIs DEF Solves
<1> QED BY <1>2, SumUnfolds DEF Body

\* What a sum is.
LEMMA SumSteps ==
    ASSUME NEW S, IsFiniteSet(S), NEW f, \A x \in S : f[x] \in Int
    PROVE  /\ Sum(f, {}) = 0
           /\ S # {} => Pick(S) \in S /\ Sum(f, S) = f[Pick(S)] + Sum(f, S \ {Pick(S)})
<1>1. /\ Table(f, S)[S] = Body(f, S, Table(f, S))
      /\ Table(f, S)[{}] = Body(f, {}, Table(f, S))
  BY TableIs DEF Solves
<1>2. Sum(f, S) = Table(f, S)[S] /\ Sum(f, {}) = Table(f, S)[{}]
  BY SumOfPart
<1>3. Sum(f, S \ {Pick(S)}) = Table(f, S)[S \ {Pick(S)}]
  BY SumOfPart
<1> QED BY <1>1, <1>2, <1>3, PickIn DEF Body

\* Any element may be taken first.
LEMMA SumRemove ==
    ASSUME NEW S, IsFiniteSet(S), NEW f, \A x \in S : f[x] \in Int, NEW x \in S
    PROVE  Sum(f, S) = f[x] + Sum(f, S \ {x})
<1> DEFINE T == {n \in Nat : \A s \in Small(S, n) : \A y \in s : Sum(f, s) = f[y] + Sum(f, s \ {y})}
<1>1. 0 \in T
  BY SmallZero
<1>2. ASSUME NEW n \in Nat, n \in T
      PROVE  n + 1 \in T
  <2>1. ASSUME NEW s \in Small(S, n + 1), NEW y \in s
        PROVE  Sum(f, s) = f[y] + Sum(f, s \ {y})
    <3> DEFINE z == Pick(s)
    <3>1. /\ s \in SUBSET S /\ IsFiniteSet(s) /\ z \in s /\ s # {} /\ \A v \in s : f[v] \in Int
          /\ Sum(f, s) = f[z] + Sum(f, s \ {z})
      BY PickIn, FS_Subset, SumSteps DEF Small
    <3>2. CASE y = z
      BY <3>1, <3>2
    <3>3. CASE y # z
      <4>1. s \ {z} \in Small(S, n) /\ s \ {y} \in Small(S, n)
        <5>1. Cardinality(s) \in Nat /\ Cardinality(s) <= n + 1
          BY <3>1, FS_CardinalityType DEF Small
        <5>2. Cardinality(s \ {z}) = Cardinality(s) - 1 /\ Cardinality(s \ {y}) = Cardinality(s) - 1
          BY <3>1, FS_RemoveElement
        <5> QED BY <3>1, <5>1, <5>2 DEF Small
      <4>2. Sum(f, s \ {z}) = f[y] + Sum(f, (s \ {z}) \ {y})
        BY <1>2, <3>1, <3>3, <4>1
      <4>3. Sum(f, s \ {y}) = f[z] + Sum(f, (s \ {y}) \ {z})
        BY <1>2, <3>1, <3>3, <4>1
      <4>4. Sum(f, (s \ {z}) \ {y}) = Sum(f, (s \ {y}) \ {z})
        <5>1. (s \ {z}) \ {y} = (s \ {y}) \ {z}
          OBVIOUS
        <5> QED BY <5>1
      <4>5. f[y] \in Int /\ f[z] \in Int /\ Sum(f, (s \ {y}) \ {z}) \in Int
        BY <3>1, SumOfPart
      <4> QED BY <3>1, <4>2, <4>3, <4>4, <4>5
    <3> QED BY <3>2, <3>3
  <2> QED BY <2>1
<1> HIDE DEF T
<1>3. Cardinality(S) \in T
  BY <1>1, <1>2, SizeInduction, FS_CardinalityType
<1>4. S \in Small(S, Cardinality(S))
  BY FS_Subset DEF Small
<1> QED BY <1>3, <1>4 DEF T

\* What remains of a set, which is smaller.
LEMMA SumRest ==
    ASSUME NEW S, IsFiniteSet(S), NEW f, \A x \in S : f[x] \in Int,
           NEW n \in Nat, NEW s \in Small(S, n + 1), s # {}
    PROVE  /\ Pick(s) \in s /\ Pick(s) \in S /\ s \ {Pick(s)} \in Small(S, n)
           /\ Sum(f, s) = f[Pick(s)] + Sum(f, s \ {Pick(s)})
           /\ f[Pick(s)] \in Int /\ Sum(f, s \ {Pick(s)}) \in Int
<1>1. s \in SUBSET S /\ IsFiniteSet(s) /\ \A v \in s : f[v] \in Int
  BY FS_Subset DEF Small
<1>2. Pick(s) \in S /\ s \ {Pick(s)} \in Small(S, n)
  BY SmallSmaller
<1>3. Sum(f, s \ {Pick(s)}) \in Int
  BY <1>1, SumOfPart
<1> QED BY <1>1, <1>2, <1>3, SumSteps, PickIn

LEMMA WholeIsSmall ==
    ASSUME NEW S, IsFiniteSet(S)
    PROVE  Cardinality(S) \in Nat /\ S \in Small(S, Cardinality(S))
  BY FS_CardinalityType, FS_Subset DEF Small

LEMMA SumPlus ==
    ASSUME NEW S, IsFiniteSet(S), NEW f, \A x \in S : f[x] \in Int, NEW g, \A x \in S : g[x] \in Int,
           NEW h, \A x \in S : h[x] = f[x] + g[x]
    PROVE  Sum(h, S) = Sum(f, S) + Sum(g, S)
<1> DEFINE T == {n \in Nat : \A s \in Small(S, n) : Sum(h, s) = Sum(f, s) + Sum(g, s)}
<1>0. \A x \in S : h[x] \in Int
  OBVIOUS
<1>1. Sum(h, {}) = Sum(f, {}) + Sum(g, {})
  BY SumEmpty
<1>2. 0 \in T
  BY <1>1, SmallZero
<1>3. ASSUME NEW n \in Nat, n \in T
      PROVE  n + 1 \in T
  <2>1. ASSUME NEW s \in Small(S, n + 1), s # {}
        PROVE  Sum(h, s) = Sum(f, s) + Sum(g, s)
    <3> DEFINE z == Pick(s)
               r == s \ {Pick(s)}
    <3>1. /\ z \in S /\ r \in Small(S, n)
          /\ Sum(f, s) = f[z] + Sum(f, r) /\ f[z] \in Int /\ Sum(f, r) \in Int
      BY <2>1, SumRest
    <3>2. Sum(g, s) = g[z] + Sum(g, r) /\ g[z] \in Int /\ Sum(g, r) \in Int
      BY <2>1, SumRest
    <3>3. Sum(h, s) = h[z] + Sum(h, r)
      BY <1>0, <2>1, SumRest
    <3>4. Sum(h, r) = Sum(f, r) + Sum(g, r) /\ h[z] = f[z] + g[z]
      BY <1>3, <3>1
    <3> HIDE DEF z, r
    <3> QED BY <3>1, <3>2, <3>3, <3>4
  <2> QED BY <1>1, <2>1
<1> HIDE DEF T
<1>4. Cardinality(S) \in T
  BY <1>2, <1>3, SizeInduction, WholeIsSmall
<1> QED BY <1>4, WholeIsSmall DEF T

LEMMA SumMonotone ==
    ASSUME NEW S, IsFiniteSet(S), NEW f, \A x \in S : f[x] \in Int, NEW g, \A x \in S : g[x] \in Int,
           \A x \in S : f[x] <= g[x]
    PROVE  Sum(f, S) <= Sum(g, S)
<1> DEFINE T == {n \in Nat : \A s \in Small(S, n) : Sum(f, s) <= Sum(g, s)}
<1>1. Sum(f, {}) <= Sum(g, {})
  BY SumEmpty
<1>2. 0 \in T
  BY <1>1, SmallZero
<1>3. ASSUME NEW n \in Nat, n \in T
      PROVE  n + 1 \in T
  <2>1. ASSUME NEW s \in Small(S, n + 1), s # {}
        PROVE  Sum(f, s) <= Sum(g, s)
    <3> DEFINE z == Pick(s)
               r == s \ {Pick(s)}
    <3>1. /\ z \in S /\ r \in Small(S, n)
          /\ Sum(f, s) = f[z] + Sum(f, r) /\ f[z] \in Int /\ Sum(f, r) \in Int
      BY <2>1, SumRest, ZenonT(40)
    <3>2. Sum(g, s) = g[z] + Sum(g, r) /\ g[z] \in Int /\ Sum(g, r) \in Int
      BY <2>1, SumRest, ZenonT(40)
    <3>3. Sum(f, r) <= Sum(g, r) /\ f[z] <= g[z]
      BY <1>3, <3>1
    <3> HIDE DEF z, r
    <3> QED BY <3>1, <3>2, <3>3
  <2> QED BY <1>1, <2>1
<1> HIDE DEF T
<1>4. Cardinality(S) \in T
  BY <1>2, <1>3, SizeInduction, WholeIsSmall
<1> QED BY <1>4, WholeIsSmall DEF T

LEMMA SumEqual ==
    ASSUME NEW S, IsFiniteSet(S), NEW f, \A x \in S : f[x] \in Int, NEW g,
           \A x \in S : f[x] = g[x]
    PROVE  Sum(f, S) = Sum(g, S) /\ Sum(f, S) \in Int
<1>1. \A x \in S : g[x] \in Int /\ f[x] <= g[x] /\ g[x] <= f[x]
  OBVIOUS
<1>2. Sum(f, S) <= Sum(g, S) /\ Sum(g, S) <= Sum(f, S)
  BY <1>1, SumMonotone
<1>3. Sum(f, S) \in Int /\ Sum(g, S) \in Int
  BY <1>1, SumOfPart
<1> QED BY <1>2, <1>3

\* One element changes.
LEMMA SumUpdate ==
    ASSUME NEW S, IsFiniteSet(S), NEW f, \A x \in S : f[x] \in Int, NEW y \in S,
           NEW g, g[y] \in Int, \A x \in S \ {y} : g[x] = f[x]
    PROVE  Sum(g, S) = Sum(f, S) + g[y] - f[y] /\ Sum(g, S) \in Int
<1>1. \A x \in S : g[x] \in Int
  OBVIOUS
<1>2. Sum(f, S) = f[y] + Sum(f, S \ {y}) /\ Sum(g, S) = g[y] + Sum(g, S \ {y})
  BY <1>1, SumRemove
<1>3. Sum(f, S \ {y}) = Sum(g, S \ {y}) /\ Sum(f, S \ {y}) \in Int
  <2>1. IsFiniteSet(S \ {y}) /\ \A x \in S \ {y} : f[x] \in Int
    BY FS_Subset
  <2> QED BY <2>1, SumEqual
<1> QED BY <1>2, <1>3

\* What is zero may be left out.
LEMMA SumExtend ==
    ASSUME NEW U, IsFiniteSet(U), NEW f, \A x \in U : f[x] \in Int, NEW S \in SUBSET U,
           \A x \in U \ S : f[x] = 0
    PROVE  Sum(f, U) = Sum(f, S)
<1> DEFINE T == {n \in Nat : \A s \in Small(U, n) : Sum(f, s) = Sum(f, s \cap S)}
<1>1. 0 \in T
  <2>1. \A s \in Small(U, 0) : s \cap S = s
    BY SmallZero
  <2> QED BY <2>1
<1>2. ASSUME NEW n \in Nat, n \in T
      PROVE  n + 1 \in T
  <2>1. ASSUME NEW s \in Small(U, n + 1), s # {}
        PROVE  Sum(f, s) = Sum(f, s \cap S)
    <3> DEFINE z == Pick(s)
               r == s \ {Pick(s)}
    <3>1. /\ z \in s /\ z \in U /\ r \in Small(U, n)
          /\ Sum(f, s) = f[z] + Sum(f, r) /\ f[z] \in Int /\ Sum(f, r) \in Int
      BY <2>1, SumRest, ZenonT(40)
    <3>2. Sum(f, r) = Sum(f, r \cap S)
      BY <1>2, <3>1
    <3>3. CASE z \in S
      <4>1. s \cap S \in SUBSET U /\ IsFiniteSet(s \cap S) /\ \A x \in s \cap S : f[x] \in Int
        BY FS_Subset
      <4>2. Sum(f, s \cap S) = f[z] + Sum(f, (s \cap S) \ {z})
        BY <3>1, <3>3, <4>1, SumRemove
      <4>3. (s \cap S) \ {z} = r \cap S
        OBVIOUS
      <4>4. Sum(f, (s \cap S) \ {z}) = Sum(f, r \cap S)
        BY <4>3
      <4> QED BY <3>1, <3>2, <4>2, <4>4
    <3>4. CASE z \notin S
      <4>1. f[z] = 0 /\ r \cap S = s \cap S
        BY <3>1, <3>4
      <4>2. Sum(f, r \cap S) = Sum(f, s \cap S)
        BY <4>1
      <4> QED BY <3>1, <3>2, <4>1, <4>2
    <3> QED BY <3>3, <3>4
  <2>2. ASSUME NEW s \in Small(U, n + 1), s = {}
        PROVE  Sum(f, s) = Sum(f, s \cap S)
    <3>1. s \cap S = s
      BY <2>2
    <3> QED BY <3>1
  <2>3. \A s \in Small(U, n + 1) : Sum(f, s) = Sum(f, s \cap S)
    BY <2>1, <2>2
  <2> QED BY <2>3
<1> HIDE DEF T
<1>3. Cardinality(U) \in T
  BY <1>1, <1>2, SizeInduction, WholeIsSmall
<1>4. U \cap S = S
  OBVIOUS
<1>5. Sum(f, U) = Sum(f, U \cap S)
  BY <1>3, WholeIsSmall DEF T
<1> QED BY <1>4, <1>5

\* A sum of zeros.
LEMMA SumZero ==
    ASSUME NEW S, IsFiniteSet(S), NEW f, \A x \in S : f[x] = 0
    PROVE  Sum(f, S) = 0
<1>1. {} \in SUBSET S /\ \A x \in S : f[x] \in Int
  OBVIOUS
<1>2. Sum(f, S) = Sum(f, {})
  BY <1>1, SumExtend
<1> QED BY <1>2, SumEmpty

\* A sum of natural numbers is at least each of them.
LEMMA SumNatural ==
    ASSUME NEW S, IsFiniteSet(S), NEW f, \A x \in S : f[x] \in Nat
    PROVE  Sum(f, S) \in Nat /\ \A x \in S : f[x] <= Sum(f, S)
<1>1. \A x \in S : f[x] \in Int
  OBVIOUS
<1>2. ASSUME NEW U \in SUBSET S
      PROVE  Sum(f, U) \in Int /\ 0 <= Sum(f, U)
  <2> DEFINE z == [x \in U |-> 0]
  <2>1. IsFiniteSet(U)
    BY FS_Subset
  <2>2. \A x \in U : z[x] = 0 /\ z[x] \in Int /\ z[x] <= f[x] /\ f[x] \in Int
    OBVIOUS
  <2> HIDE DEF z
  <2>3. Sum(z, U) = 0
    BY <2>1, <2>2, SumZero
  <2>4. Sum(z, U) <= Sum(f, U)
    BY <2>1, <2>2, SumMonotone
  <2>5. Sum(f, U) \in Int
    BY <1>1, SumOfPart
  <2> QED BY <2>3, <2>4, <2>5
<1>3. \A x \in S : Sum(f, S) = f[x] + Sum(f, S \ {x})
  BY <1>1, SumRemove
<1>4. S \in SUBSET S /\ \A x \in S : S \ {x} \in SUBSET S
  OBVIOUS
<1>5. ASSUME NEW x \in S
      PROVE  f[x] <= Sum(f, S)
  <2> DEFINE U == S \ {x}
  <2>1. Sum(f, S) = f[x] + Sum(f, U) /\ U \in SUBSET S /\ f[x] \in Nat
    BY <1>3, <1>4
  <2> HIDE DEF U
  <2>2. Sum(f, U) \in Int /\ 0 <= Sum(f, U)
    BY <1>2, <2>1
  <2> QED BY <2>1, <2>2
<1> QED BY <1>2, <1>4, <1>5

\* A sum of multiples.
LEMMA SumTimes ==
    ASSUME NEW S, IsFiniteSet(S), NEW f, \A x \in S : f[x] \in Int, NEW k \in Int,
           NEW h, \A x \in S : h[x] = k * f[x]
    PROVE  Sum(h, S) = k * Sum(f, S) /\ Sum(f, S) \in Int
<1> DEFINE T == {n \in Nat : \A s \in Small(S, n) : Sum(h, s) = k * Sum(f, s)}
<1>0. \A x \in S : h[x] \in Int
  OBVIOUS
<1>1. Sum(h, {}) = k * Sum(f, {})
  BY SumEmpty
<1>2. 0 \in T
  BY <1>1, SmallZero
<1>3. ASSUME NEW n \in Nat, n \in T
      PROVE  n + 1 \in T
  <2>1. ASSUME NEW s \in Small(S, n + 1), s # {}
        PROVE  Sum(h, s) = k * Sum(f, s)
    <3> DEFINE z == Pick(s)
               r == s \ {Pick(s)}
    <3>1. /\ z \in S /\ r \in Small(S, n)
          /\ Sum(f, s) = f[z] + Sum(f, r) /\ f[z] \in Int /\ Sum(f, r) \in Int
      BY <2>1, SumRest
    <3>2. Sum(h, s) = h[z] + Sum(h, r)
      BY <1>0, <2>1, SumRest
    <3>3. Sum(h, r) = k * Sum(f, r) /\ h[z] = k * f[z]
      BY <1>3, <3>1
    <3> HIDE DEF z, r
    <3> QED BY <3>1, <3>2, <3>3
  <2>2. \A s \in Small(S, n + 1) : Sum(h, s) = k * Sum(f, s)
    BY <1>1, <2>1, Zenon
  <2>3. n + 1 \in Nat
    OBVIOUS
  <2> QED BY <2>2, <2>3, Zenon
<1> HIDE DEF T
<1>4. Cardinality(S) \in T
  BY <1>2, <1>3, SizeInduction, WholeIsSmall
<1> QED BY <1>4, WholeIsSmall, SumOfPart DEF T

\* A sum of ones counts.
LEMMA SumOnes ==
    ASSUME NEW S, IsFiniteSet(S), NEW f, \A x \in S : f[x] = 1
    PROVE  Sum(f, S) = Cardinality(S)
<1> DEFINE T == {n \in Nat : \A s \in Small(S, n) : Sum(f, s) = Cardinality(s)}
<1>0. \A x \in S : f[x] \in Int
  OBVIOUS
<1>1. Sum(f, {}) = Cardinality({})
  BY SumEmpty, FS_EmptySet
<1>2. 0 \in T
  BY <1>1, SmallZero
<1>3. ASSUME NEW n \in Nat, n \in T
      PROVE  n + 1 \in T
  <2>1. ASSUME NEW s \in Small(S, n + 1), s # {}
        PROVE  Sum(f, s) = Cardinality(s)
    <3> DEFINE z == Pick(s)
               r == s \ {Pick(s)}
    <3>1. z \in S /\ z \in s /\ r \in Small(S, n) /\ Sum(f, s) = f[z] + Sum(f, r)
      BY <1>0, <2>1, SumRest
    <3>2. s \in SUBSET S
      BY DEF Small
    <3>3. Cardinality(s) \in Nat /\ Cardinality(r) = Cardinality(s) - 1
      BY <3>1, <3>2, SmallSets
    <3>4. Sum(f, r) = Cardinality(r) /\ f[z] = 1
      BY <1>3, <3>1
    <3> HIDE DEF z, r
    <3> QED BY <3>1, <3>3, <3>4
  <2> QED BY <1>1, <2>1
<1> HIDE DEF T
<1>4. Cardinality(S) \in T
  BY <1>2, <1>3, SizeInduction, WholeIsSmall
<1> QED BY <1>4, WholeIsSmall DEF T
=============================================================================
