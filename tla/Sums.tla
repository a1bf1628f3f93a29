---------------------------------- MODULE Sums ----------------------------------
(***************************************************************************)
(* Sums over finite sets, SumFunctionOnSet(f, S) of the community modules: *)
(* its recursive definition has the value it should, and that value is     *)
(* what adding the f[x] up in any order gives.  The induction theorems of  *)
(* the library have a parameter that is an operator, so the inductions     *)
(* here are over sets: a set that contains what it has to contains all.    *)
(***************************************************************************)
EXTENDS FiniteSetsExt, FiniteSetTheorems, TLAPS

-----------------------------------------------------------------------------
(* Induction.                                                              *)

\* A set that contains 0, and n + 1 with every n, contains the naturals.
LEMMA SetOfNaturals ==
    ASSUME NEW K, 0 \in K, \A n \in Nat : n \in K => n + 1 \in K
    PROVE  Nat \subseteq K
<1> DEFINE T == Nat \ K
           R == {ss \in Nat \X Nat : ss[1] < ss[2]}
<1>1. IsWellFoundedOn(R, Nat)
  BY NatLessThanWellFounded DEF OpToRel
<1>2. SUFFICES ASSUME T # {} PROVE FALSE
  OBVIOUS
<1>3. \E x \in T : \A y \in T : ~ (<<y, x>> \in R)
  <2>1. T \subseteq Nat
    OBVIOUS
  <2> HIDE DEF T, R
  <2>2. QED
    BY <1>1, <1>2, <2>1, WFMin
<1>4. PICK x \in T : \A y \in T : ~ (<<y, x>> \in R)
  BY <1>3
<1>5. x \in Nat /\ x # 0 /\ x - 1 \in Nat
  BY <1>4
<1>6. x - 1 \in T
  BY <1>4, <1>5
<1>7. <<x - 1, x>> \in R
  BY <1>5
<1>8. QED
  BY <1>4, <1>6, <1>7

\* A set of sets that contains T whenever it contains all T \ {x}, x \in T,
\* contains every finite set.
LEMMA SetOfSets ==
    ASSUME NEW S, IsFiniteSet(S), NEW K,
           \A T \in SUBSET S : (\A x \in T : T \ {x} \in K) => T \in K
    PROVE  S \in K
<1> DEFINE C == (SUBSET S) \ K
           R == StrictSubsetOrdering(S)
<1>1. IsWellFoundedOn(R, SUBSET S)
  BY FS_StrictSubsetOrderingWellFounded, FS_FiniteSubsetsOfFinite
<1>2. SUFFICES ASSUME S \in C PROVE FALSE
  OBVIOUS
<1>3. \E T \in C : \A U \in C : ~ (<<U, T>> \in R)
  <2>1. C \subseteq SUBSET S /\ C # {}
    BY <1>2
  <2> HIDE DEF C, R
  <2>2. QED
    BY <1>1, <2>1, WFMin
<1>4. PICK T \in C : \A U \in C : ~ (<<U, T>> \in R)
  BY <1>3
<1>5. PICK x \in T : T \ {x} \notin K
  BY <1>4
<1>6. T \ {x} \in C
  BY <1>4, <1>5
<1>7. <<T \ {x}, T>> \in R
  BY <1>4, <1>5 DEF StrictSubsetOrdering
<1>8. QED
  BY <1>4, <1>6, <1>7

-----------------------------------------------------------------------------
(* The recursion of MapThenFoldSet.                                        *)

Pick(s) == CHOOSE x \in s : TRUE

\* One step of the recursion, and the functions on D that satisfy it.
AddUp(f, g, s) == IF s = {} THEN 0 ELSE f[Pick(s)] + g[s \ {Pick(s)}]
AddsUp(f, D, g) == g = [s \in D |-> AddUp(f, g, s)]

\* A set that is not empty has a Pick.
LEMMA PickIn == ASSUME NEW s, s # {} PROVE Pick(s) \in s
BY DEF Pick

\* For a finite set some function does, built up from the smaller subsets ...
LEMMA RecursionExists ==
    ASSUME NEW f, NEW S, IsFiniteSet(S)
    PROVE  \E g : AddsUp(f, SUBSET S, g)
<1> DEFINE Small(n) == {s \in SUBSET S : Cardinality(s) <= n}
           K == {n \in Nat : \E g : AddsUp(f, Small(n), g)}
<1>1. ASSUME NEW s \in SUBSET S
      PROVE  IsFiniteSet(s) /\ Cardinality(s) \in Nat /\ (Cardinality(s) = 0 <=> s = {})
  BY FS_Subset, FS_CardinalityType, FS_EmptySet
<1>2. 0 \in K
  <2> DEFINE g == [s \in Small(0) |-> 0]
  <2>1. \A s \in Small(0) : s = {}
    BY <1>1
  <2>2. AddsUp(f, Small(0), g)
    BY <2>1 DEF AddsUp, AddUp
  <2>3. QED
    BY <2>2
<1>3. ASSUME NEW n \in Nat, n \in K PROVE n + 1 \in K
  <2>1. PICK g : AddsUp(f, Small(n), g)
    BY <1>3
  <2> DEFINE h == [s \in Small(n + 1) |-> IF Cardinality(s) <= n THEN g[s] ELSE AddUp(f, g, s)]
  <2>2. ASSUME NEW s \in Small(n + 1), s # {}
        PROVE  s \ {Pick(s)} \in Small(n) /\ s \ {Pick(s)} \in Small(n + 1)
    <3>1. Cardinality(s \ {Pick(s)}) = Cardinality(s) - 1
      BY <1>1, <2>2, PickIn, FS_RemoveElement
    <3>2. Cardinality(s) \in Nat /\ Cardinality(s) <= n + 1
      BY <1>1
    <3>3. QED
      BY <3>1, <3>2
  <2>3. ASSUME NEW s \in Small(n) PROVE s \in Small(n + 1) /\ h[s] = g[s]
    BY <1>1
  <2>4. ASSUME NEW s \in Small(n + 1) PROVE AddUp(f, h, s) = AddUp(f, g, s)
    <3> HIDE DEF h, Small
    <3>1. QED
      BY <2>2, <2>3 DEF AddUp
  <2>5. ASSUME NEW s \in Small(n + 1) PROVE h[s] = AddUp(f, g, s)
    <3>1. CASE Cardinality(s) <= n
      <4>1. s \in Small(n)
        BY <3>1
      <4>2. g[s] = AddUp(f, g, s)
        <5> HIDE DEF Small
        <5> QED BY <2>1, <4>1 DEF AddsUp
      <4>3. QED
        BY <2>3, <4>1, <4>2
    <3>2. CASE ~(Cardinality(s) <= n)
      BY <3>2
    <3>3. QED
      BY <3>1, <3>2
  <2>6. h = [s \in Small(n + 1) |-> h[s]]
    OBVIOUS
  <2>7. h = [s \in Small(n + 1) |-> AddUp(f, h, s)]
    <3> HIDE DEF h, Small
    <3>1. QED
      BY <2>4, <2>5, <2>6
  <2>8. AddsUp(f, Small(n + 1), h)
    BY <2>7 DEF AddsUp
  <2>9. QED
    BY <2>8
<1>4. Cardinality(S) \in K
  <2>1. Cardinality(S) \in Nat
    BY FS_CardinalityType
  <2> HIDE DEF K
  <2>2. QED
    BY <1>2, <1>3, <2>1, SetOfNaturals
<1>5. Small(Cardinality(S)) = SUBSET S
  BY FS_Subset
<1>6. QED
  BY <1>4, <1>5

\* ... and two functions that do agree.
LEMMA RecursionUnique ==
    ASSUME NEW f, NEW S, IsFiniteSet(S), NEW T \in SUBSET S, NEW g, NEW h,
           AddsUp(f, SUBSET S, g), AddsUp(f, SUBSET T, h)
    PROVE  g[T] = h[T]
<1> DEFINE K == {u \in SUBSET T : g[u] = h[u]}
<1>1. ASSUME NEW u \in SUBSET T, \A x \in u : u \ {x} \in K PROVE u \in K
  <2>1. g[u] = AddUp(f, g, u) /\ h[u] = AddUp(f, h, u)
    BY DEF AddsUp
  <2>2. CASE u = {}
    BY <2>1, <2>2 DEF AddUp
  <2>3. CASE u # {}
    BY <1>1, <2>1, <2>3, PickIn DEF AddUp
  <2>4. QED
    BY <2>2, <2>3
<1>2. IsFiniteSet(T)
  BY FS_Subset
<1>3. T \in K
  <2> HIDE DEF K
  <2>1. QED
    BY <1>1, <1>2, SetOfSets
<1>4. QED
  BY <1>3

\* The sum is the value of a function that does.
LEMMA SumIsRecursion ==
    ASSUME NEW f, NEW S, IsFiniteSet(S)
    PROVE  \E g : AddsUp(f, SUBSET S, g) /\ SumFunctionOnSet(f, S) = g[S]
<1> DEFINE iter == CHOOSE g : AddsUp(f, SUBSET S, g)
<1>1. AddsUp(f, SUBSET S, iter)
  BY RecursionExists
<1>2. SumFunctionOnSet(f, S) = iter[S]
  BY DEF SumFunctionOnSet, FoldFunctionOnSet, MapThenFoldSet, AddsUp, AddUp, Pick
<1>3. QED
  BY <1>1, <1>2

-----------------------------------------------------------------------------
(* What a sum is.                                                          *)

\* Nothing adds up to 0.
LEMMA SumOfNothing == ASSUME NEW f PROVE SumFunctionOnSet(f, {}) = 0
<1>1. PICK g : AddsUp(f, SUBSET {}, g) /\ SumFunctionOnSet(f, {}) = g[{}]
  BY SumIsRecursion, FS_EmptySet
<1>2. g[{}] = AddUp(f, g, {})
  BY <1>1 DEF AddsUp
<1>3. QED
  BY <1>1, <1>2 DEF AddUp

\* The function that adds up the subsets of S has their sums for values.
LEMMA SumOfSubset ==
    ASSUME NEW f, NEW S, IsFiniteSet(S), NEW T \in SUBSET S, NEW g, AddsUp(f, SUBSET S, g)
    PROVE  SumFunctionOnSet(f, T) = g[T]
<1>1. IsFiniteSet(T)
  BY FS_Subset
<1>2. PICK h : AddsUp(f, SUBSET T, h) /\ SumFunctionOnSet(f, T) = h[T]
  BY <1>1, SumIsRecursion
<1>3. g[T] = h[T]
  BY <1>2, RecursionUnique
<1>4. QED
  BY <1>2, <1>3

\* The recursion adds its Pick to the sum of the others.
LEMMA SumPick ==
    ASSUME NEW f, NEW S, IsFiniteSet(S), S # {}
    PROVE  SumFunctionOnSet(f, S) = f[Pick(S)] + SumFunctionOnSet(f, S \ {Pick(S)})
<1>1. PICK g : AddsUp(f, SUBSET S, g) /\ SumFunctionOnSet(f, S) = g[S]
  BY SumIsRecursion
<1>2. SumFunctionOnSet(f, S \ {Pick(S)}) = g[S \ {Pick(S)}]
  <2>1. S \ {Pick(S)} \in SUBSET S
    OBVIOUS
  <2>2. QED
    BY <1>1, <2>1, SumOfSubset
<1>3. g[S] = f[Pick(S)] + g[S \ {Pick(S)}]
  BY <1>1 DEF AddsUp, AddUp
<1>4. QED
  BY <1>1, <1>2, <1>3

\* A sum of integers is one.
LEMMA SumIsInt ==
    ASSUME NEW f, NEW S, IsFiniteSet(S), \A x \in S : f[x] \in Int
    PROVE  SumFunctionOnSet(f, S) \in Int
<1> DEFINE K == {T \in SUBSET S : SumFunctionOnSet(f, T) \in Int}
<1>1. ASSUME NEW T \in SUBSET S, \A x \in T : T \ {x} \in K PROVE T \in K
  <2>1. CASE T = {}
    BY <2>1, SumOfNothing
  <2>2. CASE T # {}
    <3>1. IsFiniteSet(T) /\ Pick(T) \in T
      BY <2>2, FS_Subset, PickIn
    <3>2. SumFunctionOnSet(f, T) = f[Pick(T)] + SumFunctionOnSet(f, T \ {Pick(T)})
      BY <2>2, <3>1, SumPick
    <3>3. f[Pick(T)] \in Int /\ SumFunctionOnSet(f, T \ {Pick(T)}) \in Int
      BY <1>1, <3>1
    <3>4. QED
      BY <3>2, <3>3
  <2>3. QED
    BY <2>1, <2>2
<1>2. S \in K
  <2> HIDE DEF K
  <2>1. QED
    BY <1>1, SetOfSets
<1>3. QED
  BY <1>2

\* So is the sum over any subset.
LEMMA SumsAreInt ==
    ASSUME NEW f, NEW S, IsFiniteSet(S), \A x \in S : f[x] \in Int, NEW T \in SUBSET S
    PROVE  SumFunctionOnSet(f, T) \in Int
BY SumIsInt, FS_Subset

\* Any element can be added last.
LEMMA SumRemove ==
    ASSUME NEW f, NEW S, IsFiniteSet(S), \A y \in S : f[y] \in Int, NEW x \in S
    PROVE  SumFunctionOnSet(f, S) = f[x] + SumFunctionOnSet(f, S \ {x})
<1> DEFINE K == {T \in SUBSET S : \A y \in T :
                     SumFunctionOnSet(f, T) = f[y] + SumFunctionOnSet(f, T \ {y})}
<1>1. ASSUME NEW T \in SUBSET S, \A y \in T : T \ {y} \in K PROVE T \in K
  <2>1. SUFFICES ASSUME NEW y \in T
                 PROVE  SumFunctionOnSet(f, T) = f[y] + SumFunctionOnSet(f, T \ {y})
    OBVIOUS
  <2> DEFINE p == Pick(T)
             U == (T \ {p}) \ {y}
  <2>2. p \in T /\ IsFiniteSet(T)
    BY FS_Subset, PickIn
  <2>3. SumFunctionOnSet(f, T) = f[p] + SumFunctionOnSet(f, T \ {p})
    BY <2>2, SumPick
  <2>4. CASE y = p
    BY <2>3, <2>4
  <2>5. CASE y # p
    <3>1. SumFunctionOnSet(f, T \ {p}) = f[y] + SumFunctionOnSet(f, U)
      BY <1>1, <2>2, <2>5
    <3>2. SumFunctionOnSet(f, T \ {y}) = f[p] + SumFunctionOnSet(f, U)
      <4>1. SumFunctionOnSet(f, T \ {y}) = f[p] + SumFunctionOnSet(f, (T \ {y}) \ {p})
        BY <1>1, <2>2, <2>5
      <4>2. (T \ {y}) \ {p} = U
        OBVIOUS
      <4>3. QED
        BY <4>1, <4>2
    <3>3. f[p] \in Int /\ f[y] \in Int /\ SumFunctionOnSet(f, U) \in Int
      BY <2>2, SumsAreInt
    <3> DEFINE a == f[p]
               b == f[y]
               u == SumFunctionOnSet(f, U)
    <3>4. a + (b + u) = b + (a + u)
      <4>1. a \in Int /\ b \in Int /\ u \in Int
        BY <3>3
      <4> HIDE DEF a, b, u
      <4>2. QED
        BY <4>1
    <3>5. QED
      BY <2>3, <3>1, <3>2, <3>4
  <2>6. QED
    BY <2>4, <2>5
<1>2. S \in K
  <2> HIDE DEF K
  <2>1. QED
    BY <1>1, SetOfSets
<1>3. QED
  BY <1>2

\* A sum depends on the values at its indices only.
LEMMA SumSame ==
    ASSUME NEW f, NEW g, NEW S, IsFiniteSet(S), \A x \in S : f[x] = g[x]
    PROVE  SumFunctionOnSet(f, S) = SumFunctionOnSet(g, S)
<1> DEFINE K == {T \in SUBSET S : SumFunctionOnSet(f, T) = SumFunctionOnSet(g, T)}
<1>1. ASSUME NEW T \in SUBSET S, \A x \in T : T \ {x} \in K PROVE T \in K
  <2>1. CASE T = {}
    BY <2>1, SumOfNothing
  <2>2. CASE T # {}
    <3>1. IsFiniteSet(T) /\ Pick(T) \in T
      BY <2>2, FS_Subset, PickIn
    <3>2. SumFunctionOnSet(f, T \ {Pick(T)}) = SumFunctionOnSet(g, T \ {Pick(T)})
      BY <1>1, <3>1
    <3>3. /\ SumFunctionOnSet(f, T) = f[Pick(T)] + SumFunctionOnSet(f, T \ {Pick(T)})
          /\ SumFunctionOnSet(g, T) = g[Pick(T)] + SumFunctionOnSet(g, T \ {Pick(T)})
      BY <2>2, <3>1, SumPick
    <3>4. QED
      BY <3>1, <3>2, <3>3
  <2>3. QED
    BY <2>1, <2>2
<1>2. S \in K
  <2> HIDE DEF K
  <2>1. QED
    BY <1>1, SetOfSets
<1>3. QED
  BY <1>2

\* Values that change at one index change the sum by the difference.
LEMMA SumChange ==
    ASSUME NEW f, NEW g, NEW S, IsFiniteSet(S), NEW x \in S,
           \A y \in S : f[y] \in Int, g[x] \in Int,
           \A y \in S \ {x} : g[y] = f[y]
    PROVE  SumFunctionOnSet(g, S) = SumFunctionOnSet(f, S) + (g[x] - f[x])
<1>1. SumFunctionOnSet(f, S) = f[x] + SumFunctionOnSet(f, S \ {x})
  BY SumRemove
<1>2. SumFunctionOnSet(g, S) = g[x] + SumFunctionOnSet(g, S \ {x})
  <2>1. \A y \in S : g[y] \in Int
    OBVIOUS
  <2>2. QED
    BY <2>1, SumRemove
<1>3. IsFiniteSet(S \ {x})
  BY FS_Subset
<1>4. SumFunctionOnSet(g, S \ {x}) = SumFunctionOnSet(f, S \ {x})
  BY <1>3, SumSame
<1>5. SumFunctionOnSet(f, S \ {x}) \in Int
  BY SumsAreInt
<1>6. QED
  BY <1>1, <1>2, <1>4, <1>5

\* A new index adds its value.
LEMMA SumAdd ==
    ASSUME NEW f, NEW S, IsFiniteSet(S), NEW x, x \notin S,
           \A y \in S \cup {x} : f[y] \in Int
    PROVE  SumFunctionOnSet(f, S \cup {x}) = f[x] + SumFunctionOnSet(f, S)
<1>1. IsFiniteSet(S \cup {x})
  BY FS_AddElement
<1>2. (S \cup {x}) \ {x} = S
  OBVIOUS
<1>3. SumFunctionOnSet(f, S \cup {x}) = f[x] + SumFunctionOnSet(f, (S \cup {x}) \ {x})
  BY <1>1, SumRemove
<1>4. QED
  BY <1>2, <1>3

\* The larger the values, the larger the sum.
LEMMA SumMonotone ==
    ASSUME NEW f, NEW g, NEW S, IsFiniteSet(S),
           \A x \in S : f[x] \in Int /\ g[x] \in Int /\ f[x] <= g[x]
    PROVE  SumFunctionOnSet(f, S) <= SumFunctionOnSet(g, S)
<1> DEFINE K == {T \in SUBSET S : SumFunctionOnSet(f, T) <= SumFunctionOnSet(g, T)}
<1>1. ASSUME NEW T \in SUBSET S, \A x \in T : T \ {x} \in K PROVE T \in K
  <2>1. CASE T = {}
    BY <2>1, SumOfNothing
  <2>2. CASE T # {}
    <3>1. IsFiniteSet(T) /\ Pick(T) \in T
      BY <2>2, FS_Subset, PickIn
    <3>2. SumFunctionOnSet(f, T \ {Pick(T)}) <= SumFunctionOnSet(g, T \ {Pick(T)})
      BY <1>1, <3>1
    <3>3. /\ SumFunctionOnSet(f, T) = f[Pick(T)] + SumFunctionOnSet(f, T \ {Pick(T)})
          /\ SumFunctionOnSet(g, T) = g[Pick(T)] + SumFunctionOnSet(g, T \ {Pick(T)})
      BY <2>2, <3>1, SumPick
    <3>4. /\ SumFunctionOnSet(f, T \ {Pick(T)}) \in Int
          /\ SumFunctionOnSet(g, T \ {Pick(T)}) \in Int
      BY SumsAreInt
    <3>5. f[Pick(T)] \in Int /\ g[Pick(T)] \in Int /\ f[Pick(T)] <= g[Pick(T)]
      BY <3>1
    <3>6. QED
      BY <3>2, <3>3, <3>4, <3>5
  <2>3. QED
    BY <2>1, <2>2
<1>2. S \in K
  <2> HIDE DEF K
  <2>1. QED
    BY <1>1, SetOfSets
<1>3. QED
  BY <1>2

\* Zeros add up to 0.
LEMMA SumOfZeros ==
    ASSUME NEW f, NEW S, IsFiniteSet(S), \A x \in S : f[x] = 0
    PROVE  SumFunctionOnSet(f, S) = 0
<1> DEFINE K == {T \in SUBSET S : SumFunctionOnSet(f, T) = 0}
<1>1. ASSUME NEW T \in SUBSET S, \A x \in T : T \ {x} \in K PROVE T \in K
  <2>1. CASE T = {}
    BY <2>1, SumOfNothing
  <2>2. CASE T # {}
    <3>1. IsFiniteSet(T) /\ Pick(T) \in T
      BY <2>2, FS_Subset, PickIn
    <3>2. SumFunctionOnSet(f, T) = f[Pick(T)] + SumFunctionOnSet(f, T \ {Pick(T)})
      BY <2>2, <3>1, SumPick
    <3>3. f[Pick(T)] = 0 /\ SumFunctionOnSet(f, T \ {Pick(T)}) = 0
      BY <1>1, <3>1
    <3>4. QED
      BY <3>2, <3>3
  <2>3. QED
    BY <2>1, <2>2
<1>2. S \in K
  <2> HIDE DEF K
  <2>1. QED
    BY <1>1, SetOfSets
<1>3. QED
  BY <1>2

=============================================================================
