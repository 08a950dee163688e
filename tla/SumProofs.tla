----------------------------- MODULE SumProofs -----------------------------
(***************************************************************************)
(* Sums over a finite set.  SumFunctionOnSet of the community modules is a *)
(* recursion over the subsets; here is that the recursion exists, that it  *)
(* is unique, and that it does not matter which element it takes next.     *)
(*                                                                         *)
(* The library's induction theorems take an operator as a parameter, which *)
(* no prover here instantiates: the least number, the smallest set that    *)
(* breaks a claim does their work.                                         *)
(***************************************************************************)
EXTENDS Integers, FiniteSets, Functions, FiniteSetTheorems, WellFoundedInduction, TLAPS

\* The element the sum takes next.
Pick(s) == CHOOSE x \in s : TRUE

\* f is the recursion of SumFunctionOnSet, unrolled over the subsets of S.
Adds(f, S, w) ==
  f = [s \in SUBSET S |-> IF s = {} THEN 0 ELSE w[Pick(s)] + f[s \ {Pick(s)}]]

\* Any element may be taken next.
TakesAny(f, S, w) == \A t \in SUBSET S : \A z \in t : f[t] = w[z] + f[t \ {z}]

\* A set of naturals that holds a number has a least one.
LEMMA HasLeast ==
  ASSUME NEW T, T \subseteq Nat, T # {}
  PROVE  \E n \in T : \A m \in T : n <= m
<1> DEFINE R == {ss \in Nat \X Nat : ss[1] < ss[2]}
<1>1. IsWellFoundedOn(R, Nat)
  BY NatLessThanWellFounded DEF OpToRel
<1>2. PICK x \in T : \A y \in T : ~(<<y, x>> \in R)
  <2> HIDE DEF R
  <2> QED
    BY <1>1, WFMin
<1>3. \A y \in T : x <= y
  <2> SUFFICES ASSUME NEW y \in T, ~(x <= y) PROVE FALSE
    OBVIOUS
  <2>1. x \in Nat /\ y \in Nat
    OBVIOUS
  <2>2. y < x
    BY <2>1
  <2>3. <<y, x>> \in R
    BY <2>1, <2>2
  <2> QED
    BY <2>3, <1>2
<1> QED
  BY <1>3

\* f begins at a and goes on by G.
Recurses(f, a, G) == f[0] = a /\ \A n \in Nat : f[n + 1] = G[n][f[n]]

\* A recursion over the naturals has a solution.
LEMMA HasRecursion ==
  ASSUME NEW S, NEW a \in S, NEW G \in [Nat -> [S -> S]]
  PROVE  \E f \in [Nat -> S] : Recurses(f, a, G)
<1> DEFINE Goes(f, n) == /\ f \in [0 .. n -> S] /\ f[0] = a
                         /\ \A i \in 0 .. n - 1 : f[i + 1] = G[i][f[i]]
<1>1. ASSUME NEW n \in Nat PROVE \E f : Goes(f, n)
  <2> DEFINE Bad == {m \in Nat : ~ \E f : Goes(f, m)}
  <2> SUFFICES ASSUME Bad # {} PROVE FALSE
    OBVIOUS
  <2>1. PICK m \in Bad : \A l \in Bad : m <= l
    <3>1. Bad \subseteq Nat
      OBVIOUS
    <3> HIDE DEF Bad
    <3> QED
      BY <3>1, HasLeast
  <2>2. CASE m = 0
    <3>1. Goes([i \in 0 .. 0 |-> a], 0)
      OBVIOUS
    <3> HIDE DEF Goes
    <3> QED
      BY <2>2, <3>1
  <2>3. CASE m # 0
    <3>1. m \in Nat /\ m - 1 \in Nat /\ ~(m <= m - 1)
      BY <2>3
    <3>2. m - 1 \notin Bad
      <4> HIDE DEF Bad
      <4> QED
        BY <2>1, <3>1
    <3>3. PICK f : Goes(f, m - 1)
      BY <3>1, <3>2
    <3> DEFINE x == G[m - 1][f[m - 1]]
               g == [i \in 0 .. m |-> IF i = m THEN x ELSE f[i]]
    <3>4. x \in S
      BY <3>1, <3>3
    <3>5. \A i \in 0 .. m : i # m => f[i] \in S
      BY <3>1, <3>3
    <3> HIDE DEF x
    <3>6. g \in [0 .. m -> S] /\ g[0] = a
      BY <2>3, <3>1, <3>3, <3>4, <3>5
    <3>7. ASSUME NEW i \in 0 .. m - 1 PROVE g[i + 1] = G[i][g[i]]
      <4>1. g[i] = f[i] /\ i + 1 \in 0 .. m
        BY <3>1
      <4>2. CASE i = m - 1
        BY <3>1, <4>1, <4>2 DEF x
      <4>3. CASE i # m - 1
        <5>1. i \in 0 .. (m - 1) - 1 /\ g[i + 1] = f[i + 1]
          BY <3>1, <4>3
        <5>2. f[i + 1] = G[i][f[i]]
          BY <3>3, <5>1
        <5> QED
          BY <4>1, <5>1, <5>2
      <4> QED
        BY <4>2, <4>3
    <3>8. Goes(g, m)
      BY <3>6, <3>7
    <3> HIDE DEF Goes, g
    <3> QED
      BY <3>8
  <2> QED
    BY <2>2, <2>3
<1>2. ASSUME NEW n \in Nat, NEW f, NEW g, Goes(f, n), Goes(g, n + 1)
      PROVE  f[n] = g[n]
  <2> DEFINE Bad == {i \in Nat : i \in 0 .. n /\ f[i] # g[i]}
  <2>1. ASSUME Bad # {} PROVE FALSE
    <3>1. PICK m \in Bad : \A l \in Bad : m <= l
      <4>1. Bad \subseteq Nat
        OBVIOUS
      <4> HIDE DEF Bad
      <4> QED
        BY <2>1, <4>1, HasLeast
    <3>2. m \in 0 .. n /\ f[m] # g[m] /\ m # 0
      BY <1>2
    <3>3. /\ m - 1 \in 0 .. n - 1 /\ m - 1 \in 0 .. (n + 1) - 1 /\ m - 1 \in 0 .. n
          /\ m - 1 \in Nat /\ ~(m <= m - 1) /\ (m - 1) + 1 = m
      BY <3>2
    <3>4. f[m - 1] = g[m - 1]
      BY <3>1, <3>3
    <3>5. f[(m - 1) + 1] = G[m - 1][f[m - 1]] /\ g[(m - 1) + 1] = G[m - 1][g[m - 1]]
      BY <1>2, <3>3
    <3> QED
      BY <3>2, <3>3, <3>4, <3>5
  <2>2. n \in 0 .. n
    OBVIOUS
  <2> QED
    BY <2>1, <2>2
<1> DEFINE at == [n \in Nat |-> CHOOSE f : Goes(f, n)]
           h == [n \in Nat |-> at[n][n]]
<1>3. \A n \in Nat : Goes(at[n], n)
  <2> HIDE DEF Goes
  <2> QED
    BY <1>1
<1>4. h \in [Nat -> S]
  <2> HIDE DEF at
  <2>1. \A n \in Nat : at[n][n] \in S
    BY <1>3
  <2> QED
    BY <2>1
<1>5. h[0] = a
  <2> HIDE DEF at
  <2> QED
    BY <1>3
<1>6. ASSUME NEW n \in Nat PROVE h[n + 1] = G[n][h[n]]
  <2>1. n + 1 \in Nat /\ n \in 0 .. (n + 1) - 1
    OBVIOUS
  <2>2. Goes(at[n], n) /\ Goes(at[n + 1], n + 1)
    <3> HIDE DEF Goes, at
    <3> QED
      BY <1>3, <2>1
  <2>3. at[n][n] = at[n + 1][n]
    <3> HIDE DEF Goes, at
    <3> QED
      BY <1>2, <2>2
  <2> HIDE DEF at
  <2>4. at[n + 1][n + 1] = G[n][at[n + 1][n]]
    BY <2>1, <2>2
  <2> QED
    BY <2>1, <2>3, <2>4
<1> HIDE DEF h
<1> QED
  BY <1>4, <1>5, <1>6 DEF Recurses

\* Of the sets of a family some are smallest.
LEMMA HasSmallest ==
  ASSUME NEW S, IsFiniteSet(S), NEW F, F \subseteq SUBSET S, F # {}
  PROVE  \E s \in F : \A t \in F : Cardinality(s) <= Cardinality(t)
<1> DEFINE T == {Cardinality(s) : s \in F}
<1>1. T \subseteq Nat
  BY FS_Subset, FS_CardinalityType
<1>2. T # {}
  OBVIOUS
<1> HIDE DEF T
<1>3. PICK n \in T : \A m \in T : n <= m
  BY <1>1, <1>2, HasLeast
<1> QED
  BY <1>3 DEF T

\* And some are largest.
LEMMA HasLargest ==
  ASSUME NEW S, IsFiniteSet(S), NEW F, F \subseteq SUBSET S, F # {}
  PROVE  \E s \in F : \A t \in F : Cardinality(t) <= Cardinality(s)
<1> DEFINE n == Cardinality(S)
           T == {n - Cardinality(s) : s \in F}
<1>1. \A s \in F : n \in Nat /\ Cardinality(s) \in Nat /\ n - Cardinality(s) \in Nat
  BY FS_Subset, FS_CardinalityType
<1>2. T \subseteq Nat /\ T # {}
  BY <1>1
<1> HIDE DEF T, n
<1>3. PICK k \in T : \A m \in T : k <= m
  BY <1>2, HasLeast
<1>4. PICK s \in F : k = n - Cardinality(s)
  BY DEF T
<1>5. ASSUME NEW t \in F PROVE Cardinality(t) <= Cardinality(s)
  <2>1. n - Cardinality(s) <= n - Cardinality(t)
    BY <1>3, <1>4 DEF T
  <2> QED
    BY <1>1, <2>1
<1> QED
  BY <1>5

\* What is taken from a set leaves a smaller one.
LEMMA PickShrinks ==
  ASSUME NEW S, IsFiniteSet(S), NEW s \in SUBSET S, NEW x \in s
  PROVE  /\ s \ {x} \in SUBSET S /\ IsFiniteSet(s) /\ Cardinality(s \ {x}) \in Nat
         /\ Cardinality(s) = Cardinality(s \ {x}) + 1
<1>1. IsFiniteSet(s)
  BY FS_Subset
<1>2. IsFiniteSet(s \ {x}) /\ Cardinality(s \ {x}) = Cardinality(s) - 1
  BY <1>1, FS_RemoveElement
<1>3. Cardinality(s) \in Nat /\ Cardinality(s \ {x}) \in Nat
  BY <1>1, <1>2, FS_CardinalityType
<1> QED
  BY <1>1, <1>2, <1>3

\* What is taken from a set was in it.
LEMMA PickIsIn ==
  ASSUME NEW s, s # {}
  PROVE  Pick(s) \in s
BY DEF Pick

\* A step of the recursion.
LEMMA AddsStep ==
  ASSUME NEW S, NEW w, NEW f, Adds(f, S, w)
  PROVE  /\ f[{}] = 0
         /\ \A s \in SUBSET S : s # {} => f[s] = w[Pick(s)] + f[s \ {Pick(s)}]
BY DEF Adds

\* The recursion ends, at an integer, on a finite set of integers.
LEMMA SumExists ==
  ASSUME NEW S, IsFiniteSet(S), NEW w, \A x \in S : w[x] \in Int
  PROVE  \E f : Adds(f, S, w) /\ f \in [SUBSET S -> Int]
<1> DEFINE Small(n) == {s \in SUBSET S : Cardinality(s) <= n}
           Upto(n, f) == /\ f \in [Small(n) -> Int]
                         /\ \A s \in Small(n) :
                              f[s] = IF s = {} THEN 0 ELSE w[Pick(s)] + f[s \ {Pick(s)}]
           Bad == {n \in Nat : ~ \E f : Upto(n, f)}
<1>1. \A s \in SUBSET S : Cardinality(s) \in Nat /\ (Cardinality(s) = 0 <=> s = {})
  BY FS_Subset, FS_CardinalityType, FS_EmptySet
<1>2. Bad = {}
  <2> SUFFICES ASSUME Bad # {} PROVE FALSE
    OBVIOUS
  <2>1. PICK n \in Bad : \A m \in Bad : n <= m
    <3>1. Bad \subseteq Nat
      OBVIOUS
    <3> HIDE DEF Bad
    <3> QED
      BY <3>1, HasLeast
  <2>2. CASE n = 0
    <3>1. Small(0) = {{}}
      BY <1>1
    <3>2. Upto(0, [s \in Small(0) |-> 0])
      BY <3>1
    <3> QED
      BY <2>2, <3>2
  <2>3. CASE n # 0
    <3>1. n - 1 \in Nat /\ n - 1 \notin Bad
      <4>1. n \in Nat
        OBVIOUS
      <4>2. n - 1 \in Nat /\ ~(n <= n - 1)
        BY <2>3, <4>1
      <4> HIDE DEF Bad
      <4> QED
        BY <2>1, <4>2
    <3>2. PICK f : Upto(n - 1, f)
      BY <3>1
    <3> DEFINE g == [s \in Small(n) |-> IF s = {} THEN 0 ELSE w[Pick(s)] + f[s \ {Pick(s)}]]
    <3>3. ASSUME NEW s \in Small(n), s # {}
          PROVE  /\ s \ {Pick(s)} \in Small(n - 1) /\ s \ {Pick(s)} \in Small(n)
                 /\ w[Pick(s)] \in Int
      <4>1. Pick(s) \in s /\ Pick(s) \in S
        BY <3>3, PickIsIn
      <4>2. /\ s \ {Pick(s)} \in SUBSET S /\ Cardinality(s \ {Pick(s)}) \in Nat
            /\ Cardinality(s) = Cardinality(s \ {Pick(s)}) + 1
        BY <4>1, PickShrinks
      <4>3. Cardinality(s) <= n /\ n \in Nat
        OBVIOUS
      <4>4. Cardinality(s \ {Pick(s)}) <= n - 1 /\ Cardinality(s \ {Pick(s)}) <= n
        BY <4>2, <4>3
      <4> QED
        BY <4>1, <4>2, <4>4
    <3>4. \A s \in Small(n - 1) : s \in Small(n) /\ g[s] = f[s]
      <4> TAKE s \in Small(n - 1)
      <4>1. Cardinality(s) \in Nat /\ Cardinality(s) <= n - 1 /\ n \in Nat
        BY <1>1
      <4>2. s \in Small(n)
        BY <4>1
      <4> QED
        BY <3>2, <4>2
    <3>5. g \in [Small(n) -> Int]
      BY <3>2, <3>3
    <3>6. \A s \in Small(n) : g[s] = IF s = {} THEN 0 ELSE w[Pick(s)] + g[s \ {Pick(s)}]
      BY <3>3, <3>4
    <3>7. Upto(n, g)
      BY <3>5, <3>6
    <3> HIDE DEF g
    <3> QED
      BY <3>7
  <2> QED
    BY <2>2, <2>3
<1>3. Cardinality(S) \in Nat
  BY FS_CardinalityType
<1>4. PICK f : Upto(Cardinality(S), f)
  BY <1>2, <1>3
<1>5. Small(Cardinality(S)) = SUBSET S
  BY FS_Subset
<1>6. f \in [SUBSET S -> Int]
  BY <1>4, <1>5
<1>7. f = [s \in SUBSET S |-> f[s]]
  BY <1>6
<1> QED
  BY <1>4, <1>5, <1>6, <1>7 DEF Adds

\* And there is one such recursion.
LEMMA SumIsUnique ==
  ASSUME NEW S, IsFiniteSet(S), NEW w, NEW f, NEW g, NEW U, S \subseteq U,
         Adds(f, S, w), Adds(g, U, w)
  PROVE  \A s \in SUBSET S : f[s] = g[s]
<1> DEFINE F == {s \in SUBSET S : f[s] # g[s]}
<1> SUFFICES ASSUME F # {} PROVE FALSE
  OBVIOUS
<1>1. PICK s \in F : \A t \in F : Cardinality(s) <= Cardinality(t)
  <2>1. F \subseteq SUBSET S
    OBVIOUS
  <2> HIDE DEF F
  <2> QED
    BY <2>1, HasSmallest
<1>2. /\ f[{}] = 0
      /\ \A r \in SUBSET S : r # {} => f[r] = w[Pick(r)] + f[r \ {Pick(r)}]
  BY DEF Adds
<1>3. /\ g[{}] = 0
      /\ \A r \in SUBSET U : r # {} => g[r] = w[Pick(r)] + g[r \ {Pick(r)}]
  BY DEF Adds
<1>4. s \in SUBSET S /\ s \in SUBSET U /\ f[s] # g[s] /\ s # {}
  BY <1>2, <1>3
<1>5. Pick(s) \in s
  BY <1>4, PickIsIn
<1>6. /\ s \ {Pick(s)} \in SUBSET S /\ Cardinality(s \ {Pick(s)}) \in Nat
      /\ Cardinality(s) = Cardinality(s \ {Pick(s)}) + 1
  BY <1>4, <1>5, PickShrinks
<1>7. s \ {Pick(s)} \notin F
  <2> HIDE DEF F
  <2>1. ~(Cardinality(s) <= Cardinality(s \ {Pick(s)}))
    BY <1>6
  <2> QED
    BY <1>1, <2>1
<1>8. f[s \ {Pick(s)}] = g[s \ {Pick(s)}]
  BY <1>6, <1>7
<1> QED
  BY <1>2, <1>3, <1>4, <1>8

\* The order of the elements does not matter.
LEMMA SumTakesAny ==
  ASSUME NEW S, IsFiniteSet(S), NEW w, \A x \in S : w[x] \in Int,
         NEW f, f \in [SUBSET S -> Int], Adds(f, S, w)
  PROVE  TakesAny(f, S, w)
<1> DEFINE F == {s \in SUBSET S : \E x \in s : f[s] # w[x] + f[s \ {x}]}
<1> SUFFICES ASSUME F # {} PROVE FALSE
  BY DEF TakesAny
<1>1. PICK s \in F : \A u \in F : Cardinality(s) <= Cardinality(u)
  <2>1. F \subseteq SUBSET S
    OBVIOUS
  <2> HIDE DEF F
  <2> QED
    BY <2>1, HasSmallest
<1>2. PICK x \in s : f[s] # w[x] + f[s \ {x}]
  OBVIOUS
<1> DEFINE y == Pick(s)
<1>3. y \in s /\ s \in SUBSET S
  BY PickIsIn
<1>4. f[s] = w[y] + f[s \ {y}]
  BY <1>3, AddsStep
<1>5. x # y
  BY <1>2, <1>4
<1>6. ASSUME NEW u \in s
      PROVE  s \ {u} \in SUBSET S /\ s \ {u} \notin F
  <2>1. /\ s \ {u} \in SUBSET S /\ Cardinality(s \ {u}) \in Nat
        /\ Cardinality(s) = Cardinality(s \ {u}) + 1
    BY <1>3, PickShrinks
  <2>2. ~(Cardinality(s) <= Cardinality(s \ {u}))
    BY <2>1
  <2> HIDE DEF F
  <2> QED
    BY <1>1, <2>1, <2>2
<1> HIDE DEF y
<1>7. f[s \ {y}] = w[x] + f[(s \ {y}) \ {x}]
  <2>1. s \ {y} \in SUBSET S /\ s \ {y} \notin F /\ x \in s \ {y}
    BY <1>3, <1>5, <1>6
  <2> QED
    BY <2>1
<1>8. f[s \ {x}] = w[y] + f[(s \ {x}) \ {y}]
  BY <1>3, <1>5, <1>6
<1>9. (s \ {x}) \ {y} = (s \ {y}) \ {x} /\ (s \ {y}) \ {x} \in SUBSET S
  BY <1>3
<1>10. /\ w[x] \in Int /\ w[y] \in Int /\ f[(s \ {y}) \ {x}] \in Int
  BY <1>3, <1>9
<1>11. f[s \ {x}] = w[y] + f[(s \ {y}) \ {x}]
  BY <1>8, <1>9
<1>12. f[s] = w[x] + f[s \ {x}]
  BY <1>4, <1>7, <1>10, <1>11
<1> QED
  BY <1>2, <1>12

-----------------------------------------------------------------------------

\* The library's sum is such a recursion.
LEMMA SumIs ==
  ASSUME NEW S, NEW w, NEW f, Adds(f, S, w)
  PROVE  \E g : Adds(g, S, w) /\ SumFunctionOnSet(w, S) = g[S]
<1> DEFINE g == CHOOSE h : Adds(h, S, w)
<1>1. Adds(g, S, w)
  OBVIOUS
<1>2. SumFunctionOnSet(w, S) = g[S]
  BY Zenon DEF SumFunctionOnSet, FoldFunctionOnSet, MapThenFoldSet, Adds, Pick
<1> QED
  BY <1>1, <1>2

\* The sum over a subset is that of the recursion over the whole.
LEMMA SumWithin ==
  ASSUME NEW U, IsFiniteSet(U), NEW w, NEW f, Adds(f, U, w), \A x \in U : w[x] \in Int,
         NEW S \in SUBSET U
  PROVE  SumFunctionOnSet(w, S) = f[S]
<1>1. IsFiniteSet(S)
  BY FS_Subset
<1>2. PICK h : Adds(h, S, w)
  BY <1>1, SumExists
<1>3. PICK g : Adds(g, S, w) /\ SumFunctionOnSet(w, S) = g[S]
  BY <1>2, SumIs
<1>4. g[S] = f[S]
  BY <1>1, <1>3, SumIsUnique
<1> QED
  BY <1>3, <1>4

\* A sum of integers over a finite set is an integer, 0 over none of them, and one
\* element may be taken out of it.
LEMMA SumIsASum ==
  ASSUME NEW U, IsFiniteSet(U), NEW w, \A x \in U : w[x] \in Int
  PROVE  /\ SumFunctionOnSet(w, {}) = 0
         /\ \A S \in SUBSET U : SumFunctionOnSet(w, S) \in Int
         /\ \A S \in SUBSET U : \A x \in S :
              SumFunctionOnSet(w, S) = w[x] + SumFunctionOnSet(w, S \ {x})
<1>1. PICK f : Adds(f, U, w) /\ f \in [SUBSET U -> Int]
  BY SumExists
<1>2. \A S \in SUBSET U : SumFunctionOnSet(w, S) = f[S]
  BY <1>1, SumWithin
<1>3. f[{}] = 0
  BY <1>1, AddsStep
<1>4. TakesAny(f, U, w)
  BY <1>1, SumTakesAny
<1>5. \A S \in SUBSET U : f[S] \in Int
  BY <1>1
<1> QED
  BY <1>2, <1>3, <1>4, <1>5 DEF TakesAny

\* What is not there adds nothing.
LEMMA SumOfNothing ==
  ASSUME NEW U, IsFiniteSet(U), NEW w, \A x \in U : w[x] = 0
  PROVE  SumFunctionOnSet(w, U) = 0
<1> DEFINE F == {s \in SUBSET U : SumFunctionOnSet(w, s) # 0}
<1>0. \A x \in U : w[x] \in Int
  OBVIOUS
<1> SUFFICES ASSUME F # {} PROVE FALSE
  OBVIOUS
<1>1. PICK s \in F : \A t \in F : Cardinality(s) <= Cardinality(t)
  <2>1. F \subseteq SUBSET U
    OBVIOUS
  <2> HIDE DEF F
  <2> QED
    BY <2>1, HasSmallest
<1>2. s # {}
  BY <1>0, SumIsASum
<1>3. PICK x \in s : TRUE
  BY <1>2
<1>4. s \ {x} \in SUBSET U /\ s \ {x} \notin F
  BY <1>1, <1>3, PickShrinks
<1>5. SumFunctionOnSet(w, s) = w[x] + SumFunctionOnSet(w, s \ {x})
  BY <1>0, <1>3, SumIsASum
<1> QED
  BY <1>1, <1>3, <1>4, <1>5

\* A sum with one term.
LEMMA SumOfOne ==
  ASSUME NEW U, IsFiniteSet(U), NEW w, NEW x \in U, w[x] \in Int,
         \A y \in U \ {x} : w[y] = 0
  PROVE  SumFunctionOnSet(w, U) = w[x]
<1>1. \A y \in U : w[y] \in Int
  OBVIOUS
<1>2. SumFunctionOnSet(w, U) = w[x] + SumFunctionOnSet(w, U \ {x})
  BY <1>1, SumIsASum
<1>3. IsFiniteSet(U \ {x})
  BY FS_RemoveElement
<1>4. SumFunctionOnSet(w, U \ {x}) = 0
  BY <1>3, SumOfNothing
<1> QED
  BY <1>2, <1>4

\* A sum depends on its terms alone.
LEMMA SumOfSame ==
  ASSUME NEW U, IsFiniteSet(U), NEW w, NEW v, \A x \in U : w[x] \in Int /\ v[x] = w[x]
  PROVE  SumFunctionOnSet(v, U) = SumFunctionOnSet(w, U)
<1> DEFINE F == {s \in SUBSET U : SumFunctionOnSet(v, s) # SumFunctionOnSet(w, s)}
<1>0. \A x \in U : w[x] \in Int /\ v[x] \in Int
  OBVIOUS
<1> SUFFICES ASSUME F # {} PROVE FALSE
  OBVIOUS
<1>1. PICK s \in F : \A t \in F : Cardinality(s) <= Cardinality(t)
  <2>1. F \subseteq SUBSET U
    OBVIOUS
  <2> HIDE DEF F
  <2> QED
    BY <2>1, HasSmallest
<1>2. SumFunctionOnSet(v, {}) = 0 /\ SumFunctionOnSet(w, {}) = 0
  BY <1>0, SumIsASum
<1>3. PICK x \in s : TRUE
  BY <1>1, <1>2
<1>4. s \ {x} \in SUBSET U /\ s \ {x} \notin F
  BY <1>1, <1>3, PickShrinks
<1>5. SumFunctionOnSet(w, s) = w[x] + SumFunctionOnSet(w, s \ {x})
  BY <1>0, <1>3, SumIsASum
<1>6. SumFunctionOnSet(v, s) = v[x] + SumFunctionOnSet(v, s \ {x})
  BY <1>0, <1>3, SumIsASum
<1> QED
  BY <1>1, <1>3, <1>4, <1>5, <1>6

\* When one term changes, the sum changes by as much.
LEMMA SumOfChanged ==
  ASSUME NEW U, IsFiniteSet(U), NEW w, NEW v, NEW x \in U, \A y \in U : w[y] \in Int,
         v[x] \in Int, \A y \in U \ {x} : v[y] = w[y]
  PROVE  /\ SumFunctionOnSet(w, U) \in Int /\ SumFunctionOnSet(v, U) \in Int
         /\ SumFunctionOnSet(v, U) = SumFunctionOnSet(w, U) + v[x] - w[x]
<1>1. \A y \in U : v[y] \in Int
  OBVIOUS
<1>2. IsFiniteSet(U \ {x})
  BY FS_RemoveElement
<1>3. SumFunctionOnSet(v, U \ {x}) = SumFunctionOnSet(w, U \ {x})
  BY <1>2, SumOfSame
<1>4. /\ SumFunctionOnSet(w, U) = w[x] + SumFunctionOnSet(w, U \ {x})
      /\ SumFunctionOnSet(w, U \ {x}) \in Int
  BY SumIsASum
<1>5. SumFunctionOnSet(v, U) = v[x] + SumFunctionOnSet(v, U \ {x})
  BY <1>1, SumIsASum
<1> QED
  BY <1>3, <1>4, <1>5

\* A sum of naturals is one.
LEMMA SumOfNaturals ==
  ASSUME NEW U, IsFiniteSet(U), NEW w, \A x \in U : w[x] \in Nat
  PROVE  SumFunctionOnSet(w, U) \in Nat
<1> DEFINE F == {s \in SUBSET U : SumFunctionOnSet(w, s) \notin Nat}
<1>0. \A x \in U : w[x] \in Int
  OBVIOUS
<1> SUFFICES ASSUME F # {} PROVE FALSE
  OBVIOUS
<1>1. PICK s \in F : \A t \in F : Cardinality(s) <= Cardinality(t)
  <2>1. F \subseteq SUBSET U
    OBVIOUS
  <2> HIDE DEF F
  <2> QED
    BY <2>1, HasSmallest
<1>2. s # {}
  <2>1. SumFunctionOnSet(w, {}) = 0
    BY <1>0, SumIsASum
  <2>2. SumFunctionOnSet(w, s) \notin Nat
    BY <1>1
  <2> QED
    BY <2>1, <2>2
<1>3. PICK x \in s : TRUE
  BY <1>2
<1>4. s \ {x} \in SUBSET U /\ s \ {x} \notin F
  BY <1>1, <1>3, PickShrinks
<1>5. SumFunctionOnSet(w, s) = w[x] + SumFunctionOnSet(w, s \ {x})
  BY <1>0, <1>3, SumIsASum
<1> QED
  BY <1>1, <1>3, <1>4, <1>5

\* What a quotient is.
LEMMA DivIs ==
  ASSUME NEW x \in Nat, NEW y \in Nat \ {0}
  PROVE  /\ x \div y \in Nat /\ (x \div y) * y <= x /\ x < (x \div y) * y + y
         /\ (x \div y) * y \in Nat
BY SMT

\* The quotient is the greatest of the numbers that fit.
LEMMA DivIsGreatest ==
  ASSUME NEW x \in Nat, NEW y \in Nat \ {0}, NEW k \in Nat
  PROVE  k * y <= x <=> k <= x \div y
<1> DEFINE q == x \div y
<1>1. q \in Nat /\ q * y <= x /\ x < q * y + y
  BY DivIs
<1> HIDE DEF q
<1>2. ASSUME k <= q PROVE k * y <= x
  <2>1. k * y <= q * y
    BY <1>1, <1>2, SMT
  <2>2. k * y \in Nat /\ q * y \in Nat
    BY <1>1, SMT
  <2> QED
    BY <1>1, <2>1, <2>2
<1>3. ASSUME q < k PROVE ~(k * y <= x)
  <2>1. (q + 1) * y <= k * y
    BY <1>1, <1>3, SMT
  <2>2. (q + 1) * y = q * y + y
    BY <1>1, SMT
  <2>3. k * y \in Nat /\ q * y \in Nat
    BY <1>1, SMT
  <2> QED
    BY <1>1, <2>1, <2>2, <2>3
<1> QED
  BY <1>1, <1>2, <1>3 DEF q
=============================================================================
