------------------------- MODULE InductionTheorems --------------------------
(***************************************************************************)
(* Induction over data.  The library's induction theorems take a predicate *)
(* as a parameter; here the predicate is given as the set of the numbers   *)
(* that satisfy it, and the body of a recursive definition as a function.  *)
(* What a sum over a set promises follows: its value does not depend on    *)
(* the order in which the elements are chosen.                             *)
(***************************************************************************)
EXTENDS Sums, Integers, FiniteSetTheorems, NaturalsInduction,
        WellFoundedInduction, TLAPS

\* Every set of numbers has a least one.
LEMMA LeastExists ==
  ASSUME NEW T \in SUBSET Nat, T # {}
  PROVE  \E m \in T : \A n \in T : ~(n < m)
<1>. DEFINE R == {p \in Nat \X Nat : p[1] < p[2]}
<1>1. IsWellFoundedOn(R, Nat)
  BY NatLessThanWellFounded DEF OpToRel
<1>2. \A m, n \in Nat : n < m => <<n, m>> \in R
  OBVIOUS
<1>. HIDE DEF R
<1>3. PICK m \in T : \A n \in T : ~(<<n, m>> \in R)
  BY <1>1, WFMin
<1>. QED
  BY <1>2, <1>3

\* S is the set of the numbers that satisfy what is to be proved.
LEMMA InductionOnNat ==
  ASSUME NEW S \in SUBSET Nat, 0 \in S, \A n \in S : n + 1 \in S
  PROVE  S = Nat
<1>. SUFFICES ASSUME Nat \ S # {} PROVE FALSE
  OBVIOUS
<1>1. PICK m \in Nat \ S : \A n \in Nat \ S : ~(n < m)
  <2>. DEFINE T == Nat \ S
  <2>1. T \in SUBSET Nat /\ T # {}
    OBVIOUS
  <2>. HIDE DEF T
  <2>2. \E m \in T : \A n \in T : ~(n < m)
    BY <2>1, LeastExists
  <2>. QED
    BY <2>2 DEF T
<1>2. m # 0 /\ m - 1 \in Nat
  BY <1>1
<1>3. m - 1 \in S
  BY <1>1, <1>2
<1>4. (m - 1) + 1 \in S
  BY <1>3
<1>. QED
  BY <1>1, <1>4

LEMMA InductionUpTo ==
  ASSUME NEW N \in Nat, NEW S, 0 \in S, \A n \in 1 .. N : n - 1 \in S => n \in S
  PROVE  \A n \in 0 .. N : n \in S
<1>. DEFINE T == {n \in Nat : n <= N => n \in S}
<1>1. T \in SUBSET Nat /\ 0 \in T
  OBVIOUS
<1>2. ASSUME NEW n \in T PROVE n + 1 \in T
  <2>. SUFFICES ASSUME n + 1 <= N PROVE n + 1 \in S
    OBVIOUS
  <2>. DEFINE k == n + 1
  <2>1. k \in 1 .. N /\ k - 1 = n /\ n \in S
    OBVIOUS
  <2>. HIDE DEF k
  <2>2. k \in S
    BY <2>1
  <2>. QED
    BY <2>2 DEF k
<1>. HIDE DEF T
<1>3. T = Nat
  BY <1>1, <1>2, InductionOnNat
<1>. QED
  BY <1>3 DEF T

\* Two recursive functions with the same steps up to N.
SameSteps(g, h, N) ==
  g[0] = h[0] /\ \A n \in 1 .. N : g[n - 1] = h[n - 1] => g[n] = h[n]

LEMMA RecursionsAgree ==
  ASSUME NEW N \in Nat, NEW g, NEW h, SameSteps(g, h, N)
  PROVE  \A n \in 0 .. N : g[n] = h[n]
<1>. DEFINE S == {n \in 0 .. N : g[n] = h[n]}
<1>1. 0 \in S /\ \A n \in 1 .. N : n - 1 \in S => n \in S
  BY DEF SameSteps
<1>. HIDE DEF S
<1>2. \A n \in 0 .. N : n \in S
  BY <1>1, InductionUpTo
<1>. QED
  BY <1>2 DEF S

(***************************************************************************)
(* A function defined by recursion on 0 .. n, whose next value is given by *)
(* a function `step` of the number and the value before, exists.           *)
(***************************************************************************)
Recursion(h, base, N, step) ==
  h = [n \in 0 .. N |-> IF n = 0 THEN base ELSE step[n][h[n - 1]]]

StepsIn(T, N, step) == \A n \in 1 .. N, v \in T : step[n][v] \in T

LEMMA RecursionExists ==
  ASSUME NEW T, NEW base \in T, NEW N \in Nat, NEW step, StepsIn(T, N, step)
  PROVE  \E h \in [0 .. N -> T] : Recursion(h, base, N, step)
<1>. DEFINE Defines(h, k) ==
              /\ h \in [0 .. k -> T]
              /\ h[0] = base /\ \A n \in 1 .. k : h[n] = step[n][h[n - 1]]
            S == {k \in Nat : k <= N => \E h : Defines(h, k)}
<1>0. \A n \in 1 .. N, v \in T : step[n][v] \in T
  BY DEF StepsIn
<1>1. 0 \in S
  <2>. DEFINE h == [n \in 0 .. 0 |-> base]
  <2>1. Defines(h, 0)
    OBVIOUS
  <2>. QED
    BY <2>1
<1>2. ASSUME NEW k \in S PROVE k + 1 \in S
  <2>. SUFFICES ASSUME k + 1 <= N PROVE \E h : Defines(h, k + 1)
    OBVIOUS
  <2>1. PICK h : Defines(h, k)
    BY <1>2
  <2>. DEFINE g == [n \in 0 .. k + 1 |-> IF n <= k THEN h[n] ELSE step[n][h[k]]]
  <2>2. h[k] \in T /\ k + 1 \in 1 .. N
    BY <2>1
  <2>3. step[k + 1][h[k]] \in T
    BY <1>0, <2>2
  <2>4. g \in [0 .. k + 1 -> T]
    BY <2>1, <2>3
  <2>5. g[0] = base
    BY <2>1
  <2>6. ASSUME NEW n \in 1 .. k + 1 PROVE g[n] = step[n][g[n - 1]]
    <3>1. n - 1 \in 0 .. k /\ g[n - 1] = h[n - 1]
      BY <2>6
    <3>2. CASE n <= k
      BY <2>1, <3>1, <3>2
    <3>3. CASE n = k + 1
      BY <3>1, <3>3
    <3>. QED
      BY <3>2, <3>3
  <2>. QED
    BY <2>4, <2>5, <2>6
<1>3. N \in S
  <2>. HIDE DEF S
  <2>1. S = Nat
    <3>1. S \in SUBSET Nat
      BY DEF S
    <3>. QED
      BY <1>1, <1>2, <3>1, InductionOnNat
  <2>. QED
    BY <2>1
<1>4. PICK h : Defines(h, N)
  BY <1>3
<1>5. h = [n \in 0 .. N |-> IF n = 0 THEN base ELSE step[n][h[n - 1]]]
  <2>1. h = [n \in 0 .. N |-> h[n]]
    BY <1>4
  <2>2. \A n \in 0 .. N : h[n] = IF n = 0 THEN base ELSE step[n][h[n - 1]]
    BY <1>4
  <2>. QED
    BY <2>1, <2>2
<1>. QED
  BY <1>4, <1>5 DEF Recursion

-----------------------------------------------------------------------------
(***************************************************************************)
(* Sums.  SumOver is the fold of the community modules: a function on the  *)
(* subsets of the domain, defined by recursion on the set.                 *)
(***************************************************************************)
Pick(s) == CHOOSE x \in s : TRUE

IsTotals(it, f, D) ==
  it = [s \in SUBSET D |-> IF s = {} THEN 0 ELSE f[Pick(s)] + it[s \ {Pick(s)}]]

Totals(f) == CHOOSE it : IsTotals(it, f, DOMAIN f)

\* The sum of f over a part of its domain.
PartSum(f, s) == Totals(f)[s]

\* MapThenSumSet chooses the elements in the order of Pick.
LEMMA SumIsPartSum ==
  ASSUME NEW f
  PROVE  SumOver(f) = PartSum(f, DOMAIN f)
BY DEF SumOver, MapThenSumSet, MapThenFoldSet, PartSum, Totals, IsTotals, Pick

\* Taking away an element of a finite set leaves one element less.
LEMMA OneLess ==
  ASSUME NEW s, IsFiniteSet(s), NEW x \in s, NEW n \in Nat, Cardinality(s) = n + 1
  PROVE  IsFiniteSet(s \ {x}) /\ Cardinality(s \ {x}) = n
<1>1. IsFiniteSet(s \ {x}) /\ Cardinality(s \ {x}) = Cardinality(s) - 1
  BY FS_RemoveElement
<1>. QED
  BY <1>1

\* The recursive function that a fold chooses exists.
LEMMA TotalsExist ==
  ASSUME NEW f, IsFiniteSet(DOMAIN f)
  PROVE  IsTotals(Totals(f), f, DOMAIN f)
<1>. DEFINE D == DOMAIN f
            Layer(n) == {s \in SUBSET D : Cardinality(s) <= n}
            Body(s, g) == IF s = {} THEN 0 ELSE f[Pick(s)] + g[s \ {Pick(s)}]
            Defines(g, n) == \A s \in Layer(n) : g[s] = Body(s, g)
            S == {n \in Nat : \E g : Defines(g, n)}
<1>1. \A s \in SUBSET D : IsFiniteSet(s) /\ Cardinality(s) \in Nat
                           /\ Cardinality(s) <= Cardinality(D)
  BY FS_Subset, FS_CardinalityType
<1>2. \A s \in SUBSET D : s # {} => Pick(s) \in s
  BY DEF Pick
<1>3. 0 \in S
  <2>. DEFINE g == [s \in SUBSET D |-> 0]
  <2>1. \A s \in Layer(0) : s = {}
    BY <1>1, FS_EmptySet
  <2>2. Defines(g, 0)
    BY <2>1
  <2>. QED
    BY <2>2
<1>4. ASSUME NEW n \in S PROVE n + 1 \in S
  <2>1. PICK g : Defines(g, n)
    BY <1>4
  <2>. DEFINE h == [s \in SUBSET D |-> Body(s, g)]
  <2>2. ASSUME NEW s \in Layer(n) PROVE h[s] = g[s]
    BY <2>1, <2>2
  <2>3. ASSUME NEW s \in Layer(n + 1) PROVE h[s] = Body(s, h)
    <3>1. CASE s = {}
      BY <3>1
    <3>2. CASE s # {}
      <4>. DEFINE u == s \ {Pick(s)}
      <4>1. Pick(s) \in s /\ IsFiniteSet(s) /\ Cardinality(s) \in Nat
            /\ Cardinality(s) # 0 /\ n \in Nat
        BY <1>1, <1>2, <3>2, FS_EmptySet
      <4>2. Cardinality(u) = Cardinality(s) - 1
        BY <4>1, FS_RemoveElement
      <4>3. u \in Layer(n)
        BY <4>1, <4>2
      <4>4. h[u] = g[u]
        BY <2>2, <4>3
      <4>. QED
        BY <3>2, <4>4
    <3>. QED
      BY <3>1, <3>2
  <2>. HIDE DEF h, Layer
  <2>. QED
    BY <2>3
<1>5. Cardinality(D) \in S
  <2>1. S \in SUBSET Nat
    OBVIOUS
  <2>. HIDE DEF S
  <2>2. S = Nat
    BY <1>3, <1>4, <2>1, InductionOnNat
  <2>. QED
    BY <2>2, FS_CardinalityType
<1>6. PICK g : Defines(g, Cardinality(D))
  BY <1>5
<1>. DEFINE it == [s \in SUBSET D |-> g[s]]
<1>7. \A s \in SUBSET D : it[s] = Body(s, it)
  <2>. SUFFICES ASSUME NEW s \in SUBSET D PROVE it[s] = Body(s, it)
    OBVIOUS
  <2>1. s \in Layer(Cardinality(D))
    BY <1>1
  <2>2. g[s] = Body(s, g)
    BY <1>6, <2>1
  <2>. QED
    BY <2>2
<1>8. IsTotals(it, f, D)
  <2>1. it = [s \in SUBSET D |-> it[s]]
    OBVIOUS
  <2>. HIDE DEF it
  <2>. QED
    BY <1>7, <2>1 DEF IsTotals
<1>. HIDE DEF it
<1>. QED
  BY <1>8 DEF Totals

(***************************************************************************)
(* The fold takes its elements in an order that CHOOSE fixes; any other    *)
(* order gives the same sum.                                               *)
(***************************************************************************)
LEMMA PartSumFacts ==
  ASSUME NEW f, IsFiniteSet(DOMAIN f), \A x \in DOMAIN f : f[x] \in Int
  PROVE  /\ PartSum(f, {}) = 0
         /\ \A s \in SUBSET DOMAIN f :
              /\ PartSum(f, s) \in Int
              /\ \A x \in s : PartSum(f, s) = f[x] + PartSum(f, s \ {x})
<1>. DEFINE D == DOMAIN f
            P(s) == PartSum(f, s)
            Fine(s) == P(s) \in Int /\ \A x \in s : P(s) = f[x] + P(s \ {x})
<1>1. \A s \in SUBSET D : IsFiniteSet(s) /\ Cardinality(s) \in Nat
  BY FS_Subset, FS_CardinalityType
<1>2. P({}) = 0
  BY TotalsExist DEF IsTotals, PartSum
<1>3. ASSUME NEW s \in SUBSET D, s # {}
      PROVE  Pick(s) \in s /\ P(s) = f[Pick(s)] + P(s \ {Pick(s)})
  <2>1. Pick(s) \in s
    BY <1>3 DEF Pick
  <2>2. P(s) = f[Pick(s)] + P(s \ {Pick(s)})
    BY <1>3, TotalsExist DEF IsTotals, PartSum
  <2>. QED
    BY <2>1, <2>2
<1>. HIDE DEF P
<1>4. \A s \in SUBSET D : Cardinality(s) <= 0 => Fine(s)
  <2>1. ASSUME NEW s \in SUBSET D, Cardinality(s) <= 0 PROVE s = {}
    <3>1. Cardinality(s) = 0
      BY <1>1, <2>1
    <3>. QED
      BY <1>1, <3>1, FS_EmptySet
  <2>2. Fine({})
    BY <1>2
  <2>. HIDE DEF Fine
  <2>. QED
    BY <2>1, <2>2
<1>5. ASSUME NEW n \in Nat, \A s \in SUBSET D : Cardinality(s) <= n => Fine(s),
             NEW s \in SUBSET D, Cardinality(s) <= n + 1
      PROVE  Fine(s)
  <2>1. CASE Cardinality(s) <= n
    BY <1>5, <2>1
  <2>2. CASE ~(Cardinality(s) <= n)
    <3>. DEFINE p == Pick(s)
                u == s \ {p}
    <3>1. Cardinality(s) = n + 1 /\ s # {}
      BY <1>1, <1>5, <2>2, FS_EmptySet
    <3>2. p \in s /\ P(s) = f[p] + P(u)
      BY <1>3, <3>1
    <3>. HIDE DEF p
    <3>3. Cardinality(u) = n /\ u \in SUBSET D
      BY <1>1, <3>1, <3>2, OneLess
    <3>. HIDE DEF u
    <3>4. P(u) \in Int /\ \A x \in u : P(u) = f[x] + P(u \ {x})
      BY <3>3, <1>5
    <3>5. ASSUME NEW x \in s, x # p PROVE P(s) = f[x] + P(s \ {x})
      <4>. DEFINE v == s \ {x}
      <4>1. Cardinality(v) = n /\ v \in SUBSET D /\ p \in v
        BY <1>1, <3>1, <3>2, <3>5, OneLess
      <4>. HIDE DEF v
      <4>2. \A y \in v : P(v) = f[y] + P(v \ {y})
        BY <4>1, <1>5
      <4>3. P(v) = f[p] + P(v \ {p})
        BY <4>1, <4>2
      <4>4. P(u) = f[x] + P(u \ {x})
        BY <3>4, <3>5 DEF u
      <4>5. v \ {p} = u \ {x}
        BY DEF u, v
      <4>6. P(u \ {x}) \in Int
        <5>1. IsFiniteSet(u) /\ u \ {x} \in SUBSET u
          BY <1>1, <3>3
        <5>2. Cardinality(u \ {x}) <= Cardinality(u)
          BY <5>1, FS_Subset
        <5>. QED
          BY <1>5, <3>3, <5>2
      <4>7. P(s) = f[x] + P(v)
        <5>1. f[p] \in Int /\ f[x] \in Int
          BY <3>2
        <5>. DEFINE c == P(u \ {x})
        <5>2. P(v) = f[p] + c /\ P(u) = f[x] + c /\ c \in Int
          BY <4>3, <4>4, <4>5, <4>6
        <5>. HIDE DEF c
        <5>. QED
          BY <3>2, <5>1, <5>2
      <4>. QED
        BY <4>7 DEF v
    <3>6. P(s) \in Int
      BY <3>2, <3>4
    <3>7. P(s) = f[p] + P(s \ {p})
      BY <3>2 DEF u
    <3>. QED
      BY <3>5, <3>6, <3>7
  <2>. QED
    BY <2>1, <2>2
<1>6. \A n \in Nat : \A s \in SUBSET D : Cardinality(s) <= n => Fine(s)
  <2>. HIDE DEF Fine
  <2>. DEFINE S == {n \in Nat : \A s \in SUBSET D : Cardinality(s) <= n => Fine(s)}
  <2>1. S \in SUBSET Nat /\ 0 \in S
    BY <1>4
  <2>2. \A n \in S : n + 1 \in S
    BY <1>5
  <2>3. S = Nat
    <3>. HIDE DEF S
    <3>. QED
      BY <2>1, <2>2, InductionOnNat
  <2>. QED
    BY <2>3
<1>7. \A s \in SUBSET D : Fine(s)
  BY <1>1, <1>6
<1>. QED
  BY <1>2, <1>7 DEF P

\* The sum over a part, and over one element more.
LEMMA PartSumAdd ==
  ASSUME NEW f, IsFiniteSet(DOMAIN f), \A x \in DOMAIN f : f[x] \in Int,
         NEW s \in SUBSET DOMAIN f, NEW y \in DOMAIN f, y \notin s
  PROVE  PartSum(f, s \cup {y}) = f[y] + PartSum(f, s)
<1>. DEFINE w == s \cup {y}
<1>1. w \in SUBSET DOMAIN f /\ y \in w
  OBVIOUS
<1>2. w \ {y} = s
  OBVIOUS
<1>. HIDE DEF w
<1>3. PartSum(f, w) = f[y] + PartSum(f, w \ {y})
  BY <1>1, PartSumFacts
<1>. QED
  BY <1>2, <1>3 DEF w

\* G is the set of the subsets of D that satisfy what is to be proved.
LEMMA InductionOnSubsets ==
  ASSUME NEW D, IsFiniteSet(D), NEW G, {} \in G,
         \A s \in SUBSET D : \A x \in D \ s : s \in G => s \cup {x} \in G
  PROVE  \A s \in SUBSET D : s \in G
<1>1. \A s \in SUBSET D : IsFiniteSet(s) /\ Cardinality(s) \in Nat
  BY FS_Subset, FS_CardinalityType
<1>. DEFINE S == {n \in Nat : \A s \in SUBSET D : Cardinality(s) = n => s \in G}
<1>2. 0 \in S
  BY <1>1, FS_EmptySet
<1>3. ASSUME NEW n \in S PROVE n + 1 \in S
  <2>. SUFFICES ASSUME NEW s \in SUBSET D, Cardinality(s) = n + 1 PROVE s \in G
    OBVIOUS
  <2>1. PICK x : x \in s
    BY FS_EmptySet
  <2>. DEFINE u == s \ {x}
  <2>2. Cardinality(u) = n
    BY <1>1, <2>1, OneLess
  <2>3. u \in SUBSET D /\ x \in D \ u /\ u \cup {x} = s
    BY <2>1
  <2>. HIDE DEF u
  <2>4. u \in G
    BY <1>3, <2>2, <2>3
  <2>. QED
    BY <2>3, <2>4
<1>4. S = Nat
  <2>1. S \in SUBSET Nat
    OBVIOUS
  <2>. HIDE DEF S
  <2>. QED
    BY <1>2, <1>3, <2>1, InductionOnNat
<1>. QED
  BY <1>1, <1>4

\* The sum depends on the values of the elements summed alone.
LEMMA PartSumSame ==
  ASSUME NEW f, IsFiniteSet(DOMAIN f), \A x \in DOMAIN f : f[x] \in Int,
         NEW g, IsFiniteSet(DOMAIN g), \A x \in DOMAIN g : g[x] \in Int,
         NEW D, D \subseteq DOMAIN f, D \subseteq DOMAIN g,
         \A x \in D : f[x] = g[x]
  PROVE  PartSum(f, D) = PartSum(g, D)
<1>. DEFINE G == {s \in SUBSET D : PartSum(f, s) = PartSum(g, s)}
<1>1. IsFiniteSet(D)
  BY FS_Subset
<1>2. {} \in G
  BY PartSumFacts
<1>3. ASSUME NEW s \in SUBSET D, NEW x \in D \ s, s \in G
      PROVE  s \cup {x} \in G
  <2>1. PartSum(f, s \cup {x}) = f[x] + PartSum(f, s)
    BY PartSumAdd
  <2>2. PartSum(g, s \cup {x}) = g[x] + PartSum(g, s)
    BY PartSumAdd
  <2>. QED
    BY <1>3, <2>1, <2>2
<1>4. D \in G
  <2>. HIDE DEF G
  <2>. QED
    BY <1>1, <1>2, <1>3, InductionOnSubsets
<1>. QED
  BY <1>4

\* A sum of integers is an integer.
LEMMA SumType ==
  ASSUME NEW f, IsFiniteSet(DOMAIN f), \A x \in DOMAIN f : f[x] \in Int
  PROVE  SumOver(f) \in Int
BY SumIsPartSum, PartSumFacts

\* Nothing to add.
LEMMA SumNone ==
  ASSUME NEW f, DOMAIN f = {}
  PROVE  SumOver(f) = 0
BY SumIsPartSum, PartSumFacts, FS_EmptySet

\* One more element.
LEMMA SumExtend ==
  ASSUME NEW f, IsFiniteSet(DOMAIN f), \A x \in DOMAIN f : f[x] \in Int,
         NEW g, NEW y, y \notin DOMAIN f, DOMAIN g = DOMAIN f \cup {y},
         g[y] \in Int, \A x \in DOMAIN f : g[x] = f[x]
  PROVE  SumOver(g) = SumOver(f) + g[y]
<1>. DEFINE D == DOMAIN f
<1>1. IsFiniteSet(DOMAIN g) /\ \A x \in DOMAIN g : g[x] \in Int
  BY FS_AddElement
<1>2. PartSum(g, D \cup {y}) = g[y] + PartSum(g, D)
  BY <1>1, PartSumAdd
<1>3. PartSum(f, D) = PartSum(g, D)
  BY <1>1, PartSumSame
<1>4. PartSum(f, D) \in Int
  BY PartSumFacts
<1>. QED
  BY <1>2, <1>3, <1>4, SumIsPartSum

\* One element changed.
LEMMA SumUpdate ==
  ASSUME NEW f, IsFiniteSet(DOMAIN f), \A x \in DOMAIN f : f[x] \in Int,
         NEW y \in DOMAIN f, NEW g, DOMAIN g = DOMAIN f, g[y] \in Int,
         \A x \in DOMAIN f \ {y} : g[x] = f[x]
  PROVE  SumOver(g) = SumOver(f) - f[y] + g[y]
<1>. DEFINE D == DOMAIN f
            u == D \ {y}
<1>1. \A x \in DOMAIN g : g[x] \in Int
  OBVIOUS
<1>2. PartSum(f, D) = f[y] + PartSum(f, u) /\ PartSum(g, D) = g[y] + PartSum(g, u)
  BY <1>1, PartSumFacts
<1>3. PartSum(f, u) = PartSum(g, u)
  BY <1>1, PartSumSame
<1>4. PartSum(f, u) \in Int
  BY PartSumFacts
<1>. QED
  BY <1>2, <1>3, <1>4, SumIsPartSum

\* Nothing but zeros to add.
LEMMA SumZero ==
  ASSUME NEW f, IsFiniteSet(DOMAIN f), \A x \in DOMAIN f : f[x] = 0
  PROVE  SumOver(f) = 0
<1>. DEFINE D == DOMAIN f
            G == {s \in SUBSET D : PartSum(f, s) = 0}
<1>1. {} \in G
  BY PartSumFacts
<1>2. ASSUME NEW s \in SUBSET D, NEW x \in D \ s, s \in G
      PROVE  s \cup {x} \in G
  <2>1. PartSum(f, s \cup {x}) = f[x] + PartSum(f, s)
    BY PartSumAdd
  <2>. QED
    BY <1>2, <2>1
<1>3. D \in G
  <2>1. IsFiniteSet(D) /\ D \in SUBSET D
    OBVIOUS
  <2>. HIDE DEF G, D
  <2>. QED
    BY <1>1, <1>2, <2>1, InductionOnSubsets
<1>. QED
  BY <1>3, SumIsPartSum
=============================================================================
