---------------------------- MODULE SumTheorems -----------------------------
(***************************************************************************)
(* Sums of integer functions with a finite domain, as the books of the     *)
(* stability pool and of the dispatcher are added up: FoldFunction(+, 0,   *)
(* f) takes the elements in an order of its own, and here it is shown that *)
(* the order does not matter, what one element contributes, and how the    *)
(* sums of two functions compare.                                          *)
(***************************************************************************)
EXTENDS Integers, FiniteSets, Functions, FiniteSetTheorems, NaturalsInduction,
        WellFoundedInduction, TLAPS

Total(f) == FoldFunction(+, 0, f)

\* The element the fold takes first.
First(s) == CHOOSE x \in s : TRUE

\* One step of the fold, and the function of all sets it is the value of.
Fold(f, g, s) == IF s = {} THEN 0 ELSE f[First(s)] + g[s \ {First(s)}]

IsFold(f, g) == g = [s \in SUBSET DOMAIN f |-> Fold(f, g, s)]

TheFold(f) == CHOOSE g : IsFold(f, g)

\* f on a part of its domain.
On(f, s) == [x \in s |-> f[x]]

-----------------------------------------------------------------------------
\* A set of natural numbers that is not empty has a least element.
LEMMA LeastNumber ==
    ASSUME NEW S, S \subseteq Nat, S # {}
    PROVE  \E i \in S : \A j \in S : i <= j
<1>1. \E i \in S : \A j \in S : ~(<<j, i>> \in OpToRel(<, Nat))
  BY WFMin, NatLessThanWellFounded, Zenon
<1>2. PICK i \in S : \A j \in S : ~(<<j, i>> \in OpToRel(<, Nat))
  BY <1>1
<1>3. ASSUME NEW j \in S PROVE i <= j
  <2>0. i \in Nat /\ j \in Nat
    OBVIOUS
  <2>1. ~(<<j, i>> \in OpToRel(<, Nat))
    BY <1>2
  <2>2. ~(j < i)
    BY <2>0, <2>1 DEF OpToRel
  <2> HIDE <2>1
  <2> QED BY <2>0, <2>2
<1> QED BY <1>3

\* The sum is the value of the fold at the whole domain.
LEMMA TotalIsFold ==
    ASSUME NEW f
    PROVE  Total(f) = TheFold(f)[DOMAIN f]
BY DEF Total, TheFold, IsFold, Fold, First, FoldFunction, FoldFunctionOnSet, MapThenFoldSet

\* A subset of a finite set, and one element taken out of it.
LEMMA Smaller ==
    ASSUME NEW S, IsFiniteSet(S), NEW s \in SUBSET S
    PROVE  /\ IsFiniteSet(s) /\ Cardinality(s) \in Nat
           /\ \A x \in s : /\ s \ {x} \in SUBSET S
                           /\ Cardinality(s \ {x}) = Cardinality(s) - 1
                           /\ Cardinality(s \ {x}) \in Nat
<1>1. IsFiniteSet(s) /\ Cardinality(s) \in Nat
  BY FS_Subset, FS_CardinalityType
<1>2. ASSUME NEW x \in s
      PROVE  /\ s \ {x} \in SUBSET S
             /\ Cardinality(s \ {x}) = Cardinality(s) - 1
             /\ Cardinality(s \ {x}) \in Nat
  <2>1. IsFiniteSet(s \ {x}) /\ Cardinality(s \ {x}) = Cardinality(s) - 1
    BY <1>1, <1>2, FS_RemoveElement
  <2>2. Cardinality(s \ {x}) \in Nat
    BY <2>1, FS_CardinalityType
  <2> QED BY <2>1, <2>2
<1> QED BY <1>1, <1>2

\* The fold picks an element of the set.
LEMMA FirstIsElement ==
    ASSUME NEW s, s # {}
    PROVE  First(s) \in s
BY DEF First

\* Induction over the numbers, and over the subsets of a finite set: a set
\* that holds a subset whenever it holds what is left of it without any one
\* of its elements holds them all.
LEMMA NumberInduction ==
    ASSUME NEW Good, 0 \in Good, \A n \in Nat : n \in Good => n + 1 \in Good
    PROVE  \A n \in Nat : n \in Good
<1> DEFINE Bad == {n \in Nat : n \notin Good}
<1>1. SUFFICES ASSUME Bad # {} PROVE FALSE
  OBVIOUS
<1>2. PICK n \in Bad : \A m \in Bad : n <= m
  <2>1. Bad \subseteq Nat
    OBVIOUS
  <2> HIDE DEF Bad
  <2> QED BY <1>1, <2>1, LeastNumber
<1>3. n \in Nat /\ n # 0
  OBVIOUS
<1>4. n - 1 \in Nat /\ ~(n <= n - 1) /\ (n - 1) + 1 = n
  BY <1>3
<1>5. n - 1 \in Good
  BY <1>2, <1>4
<1>6. (n - 1) + 1 \in Good
  BY <1>4, <1>5
<1> QED BY <1>4, <1>6

LEMMA SubsetInduction ==
    ASSUME NEW S, IsFiniteSet(S), NEW Good,
           \A s \in SUBSET S : (\A x \in s : s \ {x} \in Good) => s \in Good
    PROVE  \A s \in SUBSET S : s \in Good
<1> DEFINE Bad == {s \in SUBSET S : s \notin Good}
           Sizes == {Cardinality(s) : s \in Bad}
<1>1. SUFFICES ASSUME Bad # {} PROVE FALSE
  OBVIOUS
<1>2. PICK n \in Sizes : \A m \in Sizes : n <= m
  <2>1. Sizes \subseteq Nat
    BY Smaller
  <2>2. Sizes # {}
    BY <1>1
  <2> HIDE DEF Sizes
  <2> QED BY <2>1, <2>2, LeastNumber
<1>3. PICK s \in SUBSET S : s \notin Good /\ n = Cardinality(s)
  OBVIOUS
<1>4. ASSUME NEW x \in s PROVE s \ {x} \in Good
  <2>1. /\ s \ {x} \in SUBSET S /\ Cardinality(s) \in Nat
        /\ Cardinality(s \ {x}) = Cardinality(s) - 1
    BY Smaller
  <2>2. ~(n <= Cardinality(s \ {x}))
    BY <1>3, <2>1
  <2>3. Cardinality(s \ {x}) \notin Sizes
    BY <1>2, <2>2
  <2> DEFINE t == s \ {x}
  <2>4. t \in SUBSET S /\ Cardinality(t) \notin Sizes
    BY <2>1, <2>3
  <2> HIDE DEF t
  <2>5. t \notin Bad
    BY <2>4
  <2>6. t \in Good
    BY <2>4, <2>5
  <2> QED BY <2>6 DEF t
<1> QED BY <1>3, <1>4

-----------------------------------------------------------------------------
(* The fold exists, and does not depend on the order. *)

\* The fold up to a number of elements.
Layer(S, n) == {s \in SUBSET S : Cardinality(s) <= n}

LayerFold(f, g, n) ==
    /\ g \in [Layer(DOMAIN f, n) -> Int]
    /\ \A s \in Layer(DOMAIN f, n) : g[s] = Fold(f, g, s)

\* A fold of all sets of up to n elements is one of one element more.
LEMMA NextLayer ==
    ASSUME NEW S, IsFiniteSet(S), NEW f \in [S -> Int], NEW n \in Nat, NEW g, LayerFold(f, g, n)
    PROVE  \E h : LayerFold(f, h, n + 1)
<1> DEFINE h == [s \in Layer(S, n + 1) |-> Fold(f, g, s)]
<1>1. ASSUME NEW s \in Layer(S, n + 1), s # {}
      PROVE  First(s) \in s /\ f[First(s)] \in Int /\ s \ {First(s)} \in Layer(S, n)
  <2>1. First(s) \in s /\ s \in SUBSET S /\ Cardinality(s) <= n + 1
    BY <1>1, FirstIsElement DEF Layer
  <2>2. /\ Cardinality(s) \in Nat /\ s \ {First(s)} \in SUBSET S
        /\ Cardinality(s \ {First(s)}) = Cardinality(s) - 1
    BY <2>1, Smaller
  <2>3. Cardinality(s \ {First(s)}) <= n
    BY <2>1, <2>2
  <2> QED BY <2>1, <2>2, <2>3 DEF Layer
<1>2. ASSUME NEW s \in Layer(S, n)
      PROVE  s \in Layer(S, n + 1) /\ g[s] = Fold(f, g, s) /\ g[s] \in Int
  <2>1. s \in SUBSET S /\ Cardinality(s) <= n /\ Cardinality(s) \in Nat
    BY Smaller DEF Layer
  <2>2. Cardinality(s) <= n + 1
    BY <2>1
  <2> QED BY <2>1, <2>2 DEF Layer, LayerFold
<1>3. h \in [Layer(S, n + 1) -> Int]
  <2> SUFFICES ASSUME NEW s \in Layer(S, n + 1) PROVE Fold(f, g, s) \in Int
    OBVIOUS
  <2>1. CASE s = {}
    BY <2>1 DEF Fold
  <2>2. CASE s # {}
    <3>1. f[First(s)] \in Int /\ g[s \ {First(s)}] \in Int
      BY <2>2, <1>1, <1>2
    <3> QED BY <2>2, <3>1 DEF Fold
  <2> QED BY <2>1, <2>2
<1>4. ASSUME NEW s \in Layer(S, n) PROVE h[s] = g[s]
  BY <1>2
<1>5. ASSUME NEW s \in Layer(S, n + 1) PROVE h[s] = Fold(f, h, s)
  <2>0. h[s] = Fold(f, g, s)
    OBVIOUS
  <2> HIDE DEF h
  <2>1. CASE s = {}
    BY <2>0, <2>1 DEF Fold
  <2>2. CASE s # {}
    <3>1. h[s \ {First(s)}] = g[s \ {First(s)}]
      BY <2>2, <1>1, <1>4
    <3> QED BY <2>0, <2>2, <3>1 DEF Fold
  <2> QED BY <2>1, <2>2
<1>6. DOMAIN f = S
  OBVIOUS
<1> HIDE DEF h
<1> QED BY <1>3, <1>5, <1>6 DEF LayerFold

\* The fold of a function with a finite domain exists.
LEMMA FoldExists ==
    ASSUME NEW S, IsFiniteSet(S), NEW f \in [S -> Int]
    PROVE  /\ IsFold(f, TheFold(f))
           /\ \A s \in SUBSET S : /\ TheFold(f)[s] \in Int
                                  /\ TheFold(f)[s] = Fold(f, TheFold(f), s)
<1> DEFINE Good == {n \in Nat : \E g : LayerFold(f, g, n)}
<1>0. DOMAIN f = S
  OBVIOUS
<1>1. 0 \in Good
  <2> DEFINE g == [s \in Layer(S, 0) |-> 0]
  <2>1. ASSUME NEW s \in Layer(S, 0) PROVE s = {}
    <3>1. s \in SUBSET S /\ Cardinality(s) <= 0 /\ Cardinality(s) \in Nat /\ IsFiniteSet(s)
      BY Smaller DEF Layer
    <3>2. Cardinality(s) = 0
      BY <3>1
    <3> QED BY <3>1, <3>2, FS_EmptySet
  <2>2. \A s \in Layer(S, 0) : g[s] = Fold(f, g, s)
    BY <2>1 DEF Fold
  <2>3. g \in [Layer(S, 0) -> Int]
    OBVIOUS
  <2> HIDE DEF g
  <2>4. LayerFold(f, g, 0)
    BY <1>0, <2>2, <2>3 DEF LayerFold
  <2> QED BY <2>4
<1>2. ASSUME NEW n \in Nat, n \in Good PROVE n + 1 \in Good
  BY <1>2, NextLayer
<1>3. PICK g : LayerFold(f, g, Cardinality(S))
  <2>1. Cardinality(S) \in Nat
    BY FS_CardinalityType
  <2>2. \A n \in Nat : n \in Good
    <3> HIDE DEF Good
    <3> QED BY <1>1, <1>2, NumberInduction
  <2> QED BY <2>1, <2>2
<1>4. Layer(S, Cardinality(S)) = SUBSET S
  BY FS_Subset DEF Layer
<1>5. IsFold(f, g)
  BY <1>0, <1>3, <1>4 DEF LayerFold, IsFold
<1>6. IsFold(f, TheFold(f))
  BY <1>5 DEF TheFold
<1> DEFINE w == TheFold(f)
<1> HIDE DEF w
<1>7. IsFold(f, w)
  BY <1>6 DEF w
<1>8. \A s \in SUBSET S : w[s] = Fold(f, w, s)
  BY <1>0, <1>7 DEF IsFold
<1>9. \A s \in SUBSET S : w[s] \in Int
  <2> DEFINE Whole == {s \in SUBSET S : w[s] \in Int}
  <2>1. ASSUME NEW s \in SUBSET S, \A x \in s : s \ {x} \in Whole PROVE s \in Whole
    <3> SUFFICES w[s] \in Int
      OBVIOUS
    <3>0. w[s] = Fold(f, w, s)
      BY <1>8
    <3>1. CASE s = {}
      BY <3>0, <3>1 DEF Fold
    <3>2. CASE s # {}
      <4>1. First(s) \in s /\ f[First(s)] \in Int
        BY <3>2, FirstIsElement
      <4>2. w[s \ {First(s)}] \in Int
        BY <2>1, <4>1
      <4> QED BY <3>0, <3>2, <4>1, <4>2 DEF Fold
    <3> QED BY <3>1, <3>2
  <2>2. \A s \in SUBSET S : s \in Whole
    <3> HIDE DEF Whole
    <3> QED BY <2>1, SubsetInduction
  <2> QED BY <2>2
<1> QED BY <1>6, <1>8, <1>9 DEF w

\* The order does not matter: any element may be taken first.
LEMMA AnyFirst ==
    ASSUME NEW S, IsFiniteSet(S), NEW f \in [S -> Int]
    PROVE  \A s \in SUBSET S : \A x \in s : TheFold(f)[s] = f[x] + TheFold(f)[s \ {x}]
<1> DEFINE w == TheFold(f)
           Any(s) == \A x \in s : w[s] = f[x] + w[s \ {x}]
           Good == {s \in SUBSET S : Any(s)}
<1>1. \A s \in SUBSET S : w[s] \in Int /\ w[s] = Fold(f, w, s)
  BY FoldExists, Zenon
<1> HIDE DEF w
<1>2. ASSUME NEW s \in SUBSET S, \A x \in s : s \ {x} \in Good, NEW x \in s
      PROVE  w[s] = f[x] + w[s \ {x}]
  <2> DEFINE y == First(s)
  <2>1. y \in s /\ w[s] = f[y] + w[s \ {y}]
    BY <1>1, FirstIsElement DEF Fold
  <2> HIDE DEF y
  <2>2. CASE y = x
    BY <2>1, <2>2
  <2>3. CASE y # x
    <3> DEFINE r == (s \ {x}) \ {y}
    <3>1. s \ {y} \in Good /\ s \ {x} \in Good /\ x \in s \ {y} /\ y \in s \ {x}
      BY <1>2, <2>1, <2>3
    <3>2. Any(s \ {y}) /\ Any(s \ {x})
      BY <3>1
    <3>3. w[s \ {y}] = f[x] + w[(s \ {y}) \ {x}] /\ w[s \ {x}] = f[y] + w[r]
      BY <3>1, <3>2
    <3>4. (s \ {y}) \ {x} = r /\ r \in SUBSET S
      OBVIOUS
    <3>5. f[x] \in Int /\ f[y] \in Int /\ w[r] \in Int
      BY <1>1, <2>1, <3>4
    <3> HIDE DEF r
    <3>6. w[s \ {y}] = f[x] + w[r]
      BY <3>3, <3>4
    <3> QED BY <2>1, <3>3, <3>5, <3>6
  <2> QED BY <2>2, <2>3
<1>3. ASSUME NEW s \in SUBSET S, \A x \in s : s \ {x} \in Good PROVE s \in Good
  BY <1>2, <1>3
<1>4. \A s \in SUBSET S : s \in Good
  <2> HIDE DEF Good
  <2> QED BY <1>3, SubsetInduction
<1>5. \A s \in SUBSET S : Any(s)
  BY <1>4
<1> QED BY <1>5 DEF w

\* The sum over a part of the domain is a value of the fold.
LEMMA FoldOfPart ==
    ASSUME NEW S, IsFiniteSet(S), NEW f \in [S -> Int], NEW T \in SUBSET S
    PROVE  Total(On(f, T)) = TheFold(f)[T]
<1> DEFINE w == TheFold(f)
           g == On(f, T)
           v == TheFold(g)
           Good == {s \in SUBSET T : w[s] = v[s]}
<1>1. g \in [T -> Int] /\ IsFiniteSet(T) /\ DOMAIN g = T /\ \A x \in T : g[x] = f[x]
  BY FS_Subset DEF On
<1>2. \A s \in SUBSET T : w[s] = Fold(f, w, s)
  <2>1. \A s \in SUBSET S : w[s] \in Int /\ w[s] = Fold(f, w, s)
    BY FoldExists, Zenon
  <2> HIDE DEF w
  <2> QED BY <2>1
<1>3. \A s \in SUBSET T : v[s] = Fold(g, v, s)
  <2> HIDE DEF g
  <2>1. \A s \in SUBSET T : v[s] \in Int /\ v[s] = Fold(g, v, s)
    BY <1>1, FoldExists, Zenon
  <2> QED BY <2>1, Zenon
<1>4. Total(g) = v[T]
  BY <1>1, TotalIsFold
<1> HIDE DEF w, g, v
<1>5. ASSUME NEW s \in SUBSET T, \A x \in s : s \ {x} \in Good PROVE w[s] = v[s]
  <2>1. CASE s = {}
    BY <1>2, <1>3, <2>1 DEF Fold
  <2>2. CASE s # {}
    <3>1. First(s) \in s /\ g[First(s)] = f[First(s)]
      BY <1>1, <2>2, FirstIsElement
    <3>2. w[s \ {First(s)}] = v[s \ {First(s)}]
      BY <1>5, <3>1
    <3>3. w[s] = Fold(f, w, s) /\ v[s] = Fold(g, v, s)
      BY <1>2, <1>3
    <3> QED BY <2>2, <3>1, <3>2, <3>3 DEF Fold
  <2> QED BY <2>1, <2>2
<1>6. \A s \in SUBSET T : s \in Good
  <2>1. \A s \in SUBSET T : (\A x \in s : s \ {x} \in Good) => s \in Good
    BY <1>5
  <2> HIDE DEF Good
  <2> QED BY <1>1, <2>1, SubsetInduction
<1>7. w[T] = v[T]
  BY <1>6
<1> QED BY <1>4, <1>7 DEF w, g

-----------------------------------------------------------------------------
(* What a sum is. *)

\* The sum of no elements is zero, a sum is an integer, and any element adds
\* its value to the sum of the others.
THEOREM SumOfParts ==
    ASSUME NEW S, IsFiniteSet(S), NEW f \in [S -> Int]
    PROVE  /\ Total(On(f, {})) = 0
           /\ \A s \in SUBSET S : Total(On(f, s)) \in Int
           /\ \A s \in SUBSET S : \A x \in s : Total(On(f, s)) = f[x] + Total(On(f, s \ {x}))
           /\ On(f, S) = f
<1>1. \A s \in SUBSET S : Total(On(f, s)) = TheFold(f)[s]
  BY FoldOfPart
<1>2. \A s \in SUBSET S : TheFold(f)[s] \in Int /\ TheFold(f)[s] = Fold(f, TheFold(f), s)
  BY FoldExists, Zenon
<1>3. Total(On(f, {})) = 0
  BY <1>1, <1>2 DEF Fold
<1>4. \A s \in SUBSET S : \A x \in s : Total(On(f, s)) = f[x] + Total(On(f, s \ {x}))
  <2> TAKE s \in SUBSET S
  <2> TAKE x \in s
  <2>1. s \ {x} \in SUBSET S
    OBVIOUS
  <2>2. Total(On(f, s)) = TheFold(f)[s] /\ Total(On(f, s \ {x})) = TheFold(f)[s \ {x}]
    BY <1>1, <2>1
  <2>3. TheFold(f)[s] = f[x] + TheFold(f)[s \ {x}]
    BY AnyFirst
  <2> QED BY <2>2, <2>3
<1>5. On(f, S) = f
  BY DEF On
<1> QED BY <1>1, <1>2, <1>3, <1>4, <1>5

\* Sums are compared element by element, each side with a weight of its own.
THEOREM SumsCompare ==
    ASSUME NEW S, IsFiniteSet(S), NEW f \in [S -> Int], NEW g \in [S -> Int],
           NEW a \in Int, NEW b \in Int, \A x \in S : a * f[x] <= b * g[x]
    PROVE  a * Total(f) <= b * Total(g)
<1> DEFINE Good == {s \in SUBSET S : a * Total(On(f, s)) <= b * Total(On(g, s))}
<1>1. ASSUME NEW s \in SUBSET S, \A x \in s : s \ {x} \in Good
      PROVE  a * Total(On(f, s)) <= b * Total(On(g, s))
  <2>1. CASE s = {}
    <3>1. Total(On(f, s)) = 0 /\ Total(On(g, s)) = 0
      BY <2>1, SumOfParts
    <3> QED BY <3>1
  <2>2. CASE s # {}
    <3>1. PICK x \in s : TRUE
      BY <2>2
    <3> DEFINE F == Total(On(f, s \ {x}))
               G == Total(On(g, s \ {x}))
    <3>2. Total(On(f, s)) = f[x] + F /\ Total(On(g, s)) = g[x] + G
      BY <3>1, SumOfParts
    <3>3. F \in Int /\ G \in Int
      BY SumOfParts
    <3>4. a * F <= b * G
      BY <1>1, <3>1
    <3>5. f[x] \in Int /\ g[x] \in Int /\ a * f[x] <= b * g[x]
      BY <3>1
    <3> HIDE DEF F, G
    <3>6. a * (f[x] + F) = a * f[x] + a * F /\ b * (g[x] + G) = b * g[x] + b * G
      BY <3>3, <3>5
    <3>7. a * f[x] \in Int /\ a * F \in Int /\ b * g[x] \in Int /\ b * G \in Int
      BY <3>3, <3>5
    <3> QED BY <3>2, <3>4, <3>5, <3>6, <3>7
  <2> QED BY <2>1, <2>2
<1>2. \A s \in SUBSET S : s \in Good
  <2>1. \A s \in SUBSET S : (\A x \in s : s \ {x} \in Good) => s \in Good
    BY <1>1
  <2> HIDE DEF Good
  <2> QED BY <2>1, SubsetInduction
<1>3. a * Total(On(f, S)) <= b * Total(On(g, S))
  BY <1>2
<1>4. On(f, S) = f /\ On(g, S) = g
  BY SumOfParts
<1> QED BY <1>3, <1>4

\* One element out of a sum: what it adds to the others.
THEOREM SumWithout ==
    ASSUME NEW S, IsFiniteSet(S), NEW f \in [S -> Int], NEW x \in S
    PROVE  /\ Total(f) = f[x] + Total(On(f, S \ {x}))
           /\ Total(f) \in Int /\ Total(On(f, S \ {x})) \in Int
BY SumOfParts

\* A sum of natural numbers is one, and no part of it exceeds it.
THEOREM PartsWithinSum ==
    ASSUME NEW S, IsFiniteSet(S), NEW f \in [S -> Nat], NEW T \in SUBSET S
    PROVE  /\ Total(f) \in Nat /\ Total(On(f, T)) \in Nat
           /\ Total(On(f, T)) <= Total(f)
<1> DEFINE Good == {s \in SUBSET S : /\ Total(On(f, s)) \in Nat
                                     /\ Total(On(f, s \cap T)) \in Nat
                                     /\ Total(On(f, s \cap T)) <= Total(On(f, s))}
<1>0. f \in [S -> Int]
  OBVIOUS
<1>1. ASSUME NEW s \in SUBSET S, \A x \in s : s \ {x} \in Good
      PROVE  /\ Total(On(f, s)) \in Nat
             /\ Total(On(f, s \cap T)) \in Nat
             /\ Total(On(f, s \cap T)) <= Total(On(f, s))
  <2>1. CASE s = {}
    <3>1. Total(On(f, s)) = 0 /\ s \cap T = s
      BY <1>0, <2>1, SumOfParts
    <3> QED BY <3>1
  <2>2. CASE s # {}
    <3>1. PICK x \in s : TRUE
      BY <2>2
    <3> DEFINE r == s \ {x}
               F == Total(On(f, r))
               G == Total(On(f, r \cap T))
    <3>2. Total(On(f, s)) = f[x] + F
      BY <1>0, <3>1, SumOfParts
    <3>3. F \in Nat /\ G \in Nat /\ G <= F
      BY <1>1, <3>1
    <3>4. f[x] \in Nat
      BY <3>1
    <3>5. CASE x \in T
      <4>1. s \cap T \in SUBSET S /\ x \in s \cap T /\ (s \cap T) \ {x} = r \cap T
        BY <3>1, <3>5
      <4>2. Total(On(f, s \cap T)) = f[x] + G
        BY <1>0, <4>1, SumOfParts
      <4> HIDE DEF F, G
      <4> QED BY <3>2, <3>3, <3>4, <4>2
    <3>6. CASE x \notin T
      <4>1. s \cap T = r \cap T
        BY <3>6
      <4>2. Total(On(f, s \cap T)) = G
        BY <4>1
      <4> HIDE DEF F, G
      <4> QED BY <3>2, <3>3, <3>4, <4>2
    <3> QED BY <3>5, <3>6
  <2> QED BY <2>1, <2>2
<1>2. \A s \in SUBSET S : s \in Good
  <2>1. \A s \in SUBSET S : (\A x \in s : s \ {x} \in Good) => s \in Good
    BY <1>1
  <2> HIDE DEF Good
  <2> QED BY <2>1, SubsetInduction
<1>3. S \in Good
  BY <1>2
<1>4. On(f, S) = f /\ S \cap T = T
  BY <1>0, SumOfParts
<1> QED BY <1>3, <1>4

=============================================================================
