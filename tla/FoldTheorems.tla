---------------------------- MODULE FoldTheorems ----------------------------
(***************************************************************************)
(* What the sums of the models rest on: SumFunctionOnSet of a function     *)
(* over a finite set, such as the balance of a year over the requests of   *)
(* leave-balance.service.ts.                                               *)
(*                                                                         *)
(* The operator is defined by CHOOSE from a recursion over subsets.  The   *)
(* induction a proof about it needs is over a set: the subsets that have   *)
(* the property are a subset Good of SUBSET S, a constant like any other,  *)
(* so no lemma here takes an operator as a parameter.                      *)
(***************************************************************************)
EXTENDS FiniteSetsExt, FiniteSetTheorems, TLAPS

\* Taking elements out of a finite set ends.
LEMMA StrictSubsetsWellFounded ==
  ASSUME NEW S, IsFiniteSet(S)
  PROVE  IsWellFoundedOn(StrictSubsetOrdering(S), SUBSET S)
BY FS_StrictSubsetOrderingWellFounded, FS_FiniteSubsetsOfFinite

\* Induction over a finite set, element by element.
LEMMA FiniteInduction ==
  ASSUME NEW S, IsFiniteSet(S), NEW Good \in SUBSET (SUBSET S), {} \in Good,
         \A T \in Good : \A x \in S \ T : T \cup {x} \in Good
  PROVE  S \in Good
<1> DEFINE Bad == (SUBSET S) \ Good
<1> SUFFICES ASSUME Bad # {} PROVE FALSE
  OBVIOUS
<1>1. IsWellFoundedOn(StrictSubsetOrdering(S), SUBSET S)
  BY StrictSubsetsWellFounded
<1>2. PICK T \in Bad : \A U \in Bad : <<U, T>> \notin StrictSubsetOrdering(S)
  <2>1. Bad \subseteq SUBSET S
    OBVIOUS
  <2> HIDE DEF Bad
  <2> QED BY <1>1, <2>1, WFMin
<1>3. PICK x \in T : TRUE
  OBVIOUS
<1>4. <<T \ {x}, T>> \in StrictSubsetOrdering(S)
  BY <1>3 DEF StrictSubsetOrdering
<1>5. T \ {x} \in Good
  BY <1>2, <1>4
<1>6. T = (T \ {x}) \cup {x}
  BY <1>3
<1> QED BY <1>3, <1>5, <1>6

\* Induction over the subsets of a finite set: each from the smaller ones.
LEMMA FiniteDescent ==
  ASSUME NEW S, IsFiniteSet(S), NEW Good \in SUBSET (SUBSET S),
         \A T \in SUBSET S : (\A U \in SUBSET T : U # T => U \in Good) => T \in Good
  PROVE  Good = SUBSET S
<1> DEFINE Bad == (SUBSET S) \ Good
<1> SUFFICES ASSUME Bad # {} PROVE FALSE
  OBVIOUS
<1>1. IsWellFoundedOn(StrictSubsetOrdering(S), SUBSET S)
  BY StrictSubsetsWellFounded
<1>2. PICK T \in Bad : \A U \in Bad : <<U, T>> \notin StrictSubsetOrdering(S)
  <2>1. Bad \subseteq SUBSET S
    OBVIOUS
  <2> HIDE DEF Bad
  <2> QED BY <1>1, <2>1, WFMin
<1>3. \A U \in SUBSET T : U # T => <<U, T>> \in StrictSubsetOrdering(S)
  BY DEF StrictSubsetOrdering
<1>4. \A U \in SUBSET T : U # T => U \in Good
  <2> SUFFICES ASSUME NEW U \in SUBSET T, U # T, U \notin Good PROVE FALSE
    OBVIOUS
  <2>1. U \in Bad
    OBVIOUS
  <2> QED BY <2>1, <1>2, <1>3
<1>5. T \in SUBSET S /\ T \notin Good
  OBVIOUS
<1> QED BY <1>4, <1>5

\* Induction over the natural numbers, for a set of them.
LEMMA NaturalInduction ==
  ASSUME NEW Good \in SUBSET Nat, 0 \in Good, \A n \in Good : n + 1 \in Good
  PROVE  Good = Nat
<1> SUFFICES ASSUME NEW n \in Nat PROVE n \in Good
  OBVIOUS
<1> DEFINE Upto == {T \in SUBSET (1..n) : \A k \in 0..n : T = 1..k => k \in Good}
<1>1. IsFiniteSet(1..n)
  BY FS_Interval
<1>2. ASSUME NEW T \in SUBSET (1..n), \A U \in SUBSET T : U # T => U \in Upto
      PROVE  T \in Upto
  <2> SUFFICES ASSUME NEW k \in 0..n, T = 1..k PROVE k \in Good
    OBVIOUS
  <2>1. CASE k = 0
    BY <2>1
  <2>2. CASE k # 0
    <3>1. 1..(k - 1) \in SUBSET T /\ 1..(k - 1) # T /\ k - 1 \in 0..n
      BY <2>2
    <3>2. k - 1 \in Good
      BY <1>2, <3>1
    <3> QED BY <3>2
  <2> QED BY <2>1, <2>2
<1>3. Upto = SUBSET (1..n)
  <2>1. Upto \in SUBSET (SUBSET (1..n))
    OBVIOUS
  <2> HIDE DEF Upto
  <2> QED BY <1>1, <1>2, <2>1, FiniteDescent
<1>4. 1..n \in Upto
  <2> HIDE DEF Upto
  <2> QED BY <1>3
<1> QED BY <1>4

\* A set of natural numbers that is not empty has a least element.
LEMMA LeastNatural ==
  ASSUME NEW S \in SUBSET Nat, S # {}
  PROVE  Min(S) \in S /\ \A i \in S : Min(S) <= i
<1> SUFFICES ASSUME \A n \in S : \E i \in S : ~(n <= i) PROVE FALSE
  BY DEF Min
<1> DEFINE Below == {n \in Nat : \A i \in S : n <= i}
<1>1. 0 \in Below
  OBVIOUS
<1>2. ASSUME NEW n \in Below PROVE n + 1 \in Below
  <2>1. n \notin S
    OBVIOUS
  <2> QED BY <2>1
<1>3. Below = Nat
  <2>1. Below \in SUBSET Nat
    OBVIOUS
  <2> HIDE DEF Below
  <2> QED BY <1>1, <1>2, <2>1, NaturalInduction
<1>4. PICK i \in S : TRUE
  OBVIOUS
<1>5. i + 1 \in Below
  <2> HIDE DEF Below
  <2> QED BY <1>3, <1>4
<1> QED BY <1>4, <1>5

-----------------------------------------------------------------------------
\* A recursion over the subsets of S that takes away one chosen element at a
\* time: g is its value at every subset.
Unrolls(g, S, V, base, pick, step) ==
  /\ g \in [SUBSET S -> V]
  /\ g[{}] = base
  /\ \A s \in SUBSET S : s # {} => g[s] = step[s][g[s \ {pick[s]}]]

Recursion(S, V, base, pick, step) ==
  /\ IsFiniteSet(S) /\ base \in V
  /\ \A s \in SUBSET S : s # {} => pick[s] \in s /\ \A v \in V : step[s][v] \in V

\* There is such a function.
LEMMA RecursionExists ==
  ASSUME NEW S, NEW V, NEW base, NEW pick, NEW step, Recursion(S, V, base, pick, step)
  PROVE  \E g : Unrolls(g, S, V, base, pick, step)
<1> USE DEF Recursion
<1> DEFINE Small(n) == {s \in SUBSET S : Cardinality(s) <= n}
           Up(g, n) == /\ g \in [SUBSET S -> V]
                       /\ g[{}] = base
                       /\ \A s \in Small(n) : s # {} => g[s] = step[s][g[s \ {pick[s]}]]
           Good == {n \in Nat : \E g : Up(g, n)}
<1>0. \A s \in SUBSET S : IsFiniteSet(s) /\ Cardinality(s) \in Nat /\ (Cardinality(s) = 0 <=> s = {})
  BY FS_Subset, FS_CardinalityType, FS_EmptySet
<1>1. 0 \in Good
  <2> DEFINE g == [s \in SUBSET S |-> base]
  <2>1. Up(g, 0)
    BY <1>0
  <2> QED BY <2>1
<1>2. ASSUME NEW n \in Good PROVE n + 1 \in Good
  <2>1. PICK g : Up(g, n)
    OBVIOUS
  <2> DEFINE h == [s \in SUBSET S |-> IF s \in Small(n) THEN g[s]
                                      ELSE step[s][g[s \ {pick[s]}]]]
  <2>2. \A s \in Small(n + 1) : s # {} => s \ {pick[s]} \in Small(n)
    <3> SUFFICES ASSUME NEW s \in Small(n + 1), s # {} PROVE s \ {pick[s]} \in Small(n)
      OBVIOUS
    <3>1. Cardinality(s \ {pick[s]}) = Cardinality(s) - 1
      BY <1>0, FS_RemoveElement
    <3>2. Cardinality(s) \in Nat /\ Cardinality(s) <= n + 1
      BY <1>0
    <3> QED BY <3>1, <3>2
  <2>3. h \in [SUBSET S -> V] /\ h[{}] = base
    BY <1>0, <2>1
  <2>4. ASSUME NEW s \in Small(n + 1), s # {} PROVE h[s] = step[s][h[s \ {pick[s]}]]
    BY <2>1, <2>2, <2>4
  <2>5. Up(h, n + 1)
    <3> HIDE DEF h
    <3> QED BY <2>3, <2>4
  <2> HIDE DEF Up
  <2> QED BY <2>5
<1>3. Good = Nat
  <2> HIDE DEF Good
  <2>1. Good \in SUBSET Nat
    BY DEF Good
  <2> QED BY <1>1, <1>2, <2>1, NaturalInduction
<1>4. PICK g : Up(g, Cardinality(S))
  BY <1>0, <1>3
<1>5. Small(Cardinality(S)) = SUBSET S
  BY <1>0, FS_Subset
<1> QED BY <1>4, <1>5 DEF Unrolls

\* A function with the defining equations of the recursion.
Follows(h, S, V, base, pick, step) ==
  /\ h = [s \in SUBSET S |-> h[s]]
  /\ h[{}] = base
  /\ \A s \in SUBSET S : s # {} /\ h[s \ {pick[s]}] \in V => h[s] = step[s][h[s \ {pick[s]}]]

\* A function that has the values of the recursion is the one that unrolls it.
LEMMA RecursionUnique ==
  ASSUME NEW S, NEW V, NEW base, NEW pick, NEW step, Recursion(S, V, base, pick, step),
         NEW g, Unrolls(g, S, V, base, pick, step),
         NEW h, Follows(h, S, V, base, pick, step)
  PROVE  h = g
<1> USE DEF Recursion, Follows
<1> DEFINE Good == {s \in SUBSET S : h[s] = g[s]}
<1>1. ASSUME NEW T \in SUBSET S, \A U \in SUBSET T : U # T => U \in Good PROVE T \in Good
  <2>1. CASE T = {}
    BY <2>1 DEF Unrolls
  <2>2. CASE T # {}
    <3>1. T \ {pick[T]} \in Good
      BY <1>1, <2>2
    <3> QED BY <2>2, <3>1 DEF Unrolls
  <2> QED BY <2>1, <2>2
<1>2. Good = SUBSET S
  <2> HIDE DEF Good
  <2>1. Good \in SUBSET (SUBSET S)
    BY DEF Good
  <2> QED BY <1>1, <2>1, FiniteDescent
<1>3. g = [s \in SUBSET S |-> g[s]]
  BY DEF Unrolls
<1> QED BY <1>2, <1>3

-----------------------------------------------------------------------------
\* The sum of a function over a set.
LOCAL Pick(S) == [s \in SUBSET S |-> CHOOSE x \in s : TRUE]
LOCAL Plus(f, S) == [s \in SUBSET S |-> [n \in Int |-> f[Pick(S)[s]] + n]]

\* The sum takes out the element CHOOSE names.
LEMMA SumRecursion ==
  ASSUME NEW S, IsFiniteSet(S), NEW f, \A x \in S : f[x] \in Int
  PROVE  Recursion(S, Int, 0, Pick(S), Plus(f, S))
<1>1. \A s \in SUBSET S : s # {} => Pick(S)[s] \in s
  BY DEF Pick
<1> QED BY <1>1 DEF Recursion, Plus

\* h satisfies the equation of the sum of f.
AddsUp(h, f, S) ==
  h = [s \in SUBSET S |-> IF s = {} THEN 0
         ELSE f[CHOOSE x \in s : TRUE] + h[s \ {CHOOSE x \in s : TRUE}]]

\* Then it is the function of the recursion.
LEMMA SumDetermined ==
  ASSUME NEW S, IsFiniteSet(S), NEW f, \A x \in S : f[x] \in Int,
         NEW g, Unrolls(g, S, Int, 0, Pick(S), Plus(f, S)), NEW h, AddsUp(h, f, S)
  PROVE  h = g
<1>1. h = [s \in SUBSET S |-> h[s]] /\ h[{}] = 0
  BY DEF AddsUp
<1>2. ASSUME NEW s \in SUBSET S, s # {}, h[s \ {Pick(S)[s]}] \in Int
      PROVE  h[s] = Plus(f, S)[s][h[s \ {Pick(S)[s]}]]
  BY <1>2 DEF Plus, Pick, AddsUp
<1>3. Recursion(S, Int, 0, Pick(S), Plus(f, S))
  BY SumRecursion
<1>4. Follows(h, S, Int, 0, Pick(S), Plus(f, S))
  BY <1>1, <1>2 DEF Follows
<1> QED BY <1>3, <1>4, RecursionUnique

\* And the function of the recursion satisfies the equation.
LEMMA SumEquation ==
  ASSUME NEW S, IsFiniteSet(S), NEW f, \A x \in S : f[x] \in Int,
         NEW g, Unrolls(g, S, Int, 0, Pick(S), Plus(f, S))
  PROVE  AddsUp(g, f, S)
<1>1. g = [s \in SUBSET S |-> g[s]]
  BY DEF Unrolls
<1>2. \A s \in SUBSET S : g[s] = IF s = {} THEN 0
                      ELSE f[CHOOSE x \in s : TRUE] + g[s \ {CHOOSE x \in s : TRUE}]
  BY DEF Unrolls, Pick, Plus
<1> QED BY <1>1, <1>2 DEF AddsUp

\* The function the definition chooses is the one of the recursion.
LEMMA SumIsRecursion ==
  ASSUME NEW S, IsFiniteSet(S), NEW f, \A x \in S : f[x] \in Int,
         NEW g, Unrolls(g, S, Int, 0, Pick(S), Plus(f, S))
  PROVE  SumFunctionOnSet(f, S) = g[S]
<1> DEFINE iter == CHOOSE h : AddsUp(h, f, S)
<1>1. SumFunctionOnSet(f, S) = iter[S]
  BY DEF SumFunctionOnSet, FoldFunctionOnSet, MapThenFoldSet, AddsUp
<1>2. AddsUp(g, f, S)
  BY SumEquation
<1>3. AddsUp(iter, f, S)
  BY <1>2
<1> HIDE DEF iter
<1>4. iter = g
  BY <1>3, SumDetermined
<1> QED BY <1>1, <1>4

\* MapThenSumSet unfolds to a function that satisfies the equation of a sum:
\* there is one, and it gives the sum of the function.
LEMMA SumUnfolds ==
  ASSUME NEW S, IsFiniteSet(S), NEW f, \A x \in S : f[x] \in Int
  PROVE  /\ \E g : AddsUp(g, f, S)
         /\ \A h : AddsUp(h, f, S) => h[S] = SumFunctionOnSet(f, S)
<1>1. PICK g : Unrolls(g, S, Int, 0, Pick(S), Plus(f, S))
  BY SumRecursion, RecursionExists
<1>2. AddsUp(g, f, S)
  BY <1>1, SumEquation
<1>3. SumFunctionOnSet(f, S) = g[S]
  BY <1>1, SumIsRecursion
<1>4. ASSUME NEW h, AddsUp(h, f, S) PROVE h = g
  BY <1>1, <1>4, SumDetermined
<1> QED BY <1>2, <1>3, <1>4

\* One function gives the sum over every subset.
LEMMA SumExists ==
  ASSUME NEW S, IsFiniteSet(S), NEW f, \A x \in S : f[x] \in Int
  PROVE  \E g : /\ Unrolls(g, S, Int, 0, Pick(S), Plus(f, S))
                /\ \A T \in SUBSET S : SumFunctionOnSet(f, T) = g[T]
<1>3. PICK g : Unrolls(g, S, Int, 0, Pick(S), Plus(f, S))
  BY SumRecursion, RecursionExists
<1>4. ASSUME NEW T \in SUBSET S PROVE SumFunctionOnSet(f, T) = g[T]
  <2> DEFINE h == [s \in SUBSET T |-> g[s]]
  <2>1. IsFiniteSet(T)
    BY FS_Subset
  <2>2. Unrolls(h, T, Int, 0, Pick(T), Plus(f, T))
    BY <1>3 DEF Unrolls, Pick, Plus
  <2>3. SumFunctionOnSet(f, T) = h[T]
    <3> HIDE DEF h
    <3> QED BY <2>1, <2>2, SumIsRecursion
  <2> QED BY <2>3
<1> QED BY <1>3, <1>4

\* The sum over nothing.
LEMMA SumEmpty == ASSUME NEW f PROVE SumFunctionOnSet(f, {}) = 0
<1>1. PICK g : /\ Unrolls(g, {}, Int, 0, Pick({}), Plus(f, {}))
               /\ \A T \in SUBSET {} : SumFunctionOnSet(f, T) = g[T]
  BY SumExists, FS_EmptySet
<1> QED BY <1>1 DEF Unrolls

\* A sum of integers is one.
LEMMA SumType ==
  ASSUME NEW S, IsFiniteSet(S), NEW f, \A x \in S : f[x] \in Int
  PROVE  SumFunctionOnSet(f, S) \in Int
<1>1. PICK g : /\ Unrolls(g, S, Int, 0, Pick(S), Plus(f, S))
               /\ \A T \in SUBSET S : SumFunctionOnSet(f, T) = g[T]
  BY SumExists
<1> QED BY <1>1 DEF Unrolls

\* Some element of a set can be taken out of its sum.
LEMMA SumChosen ==
  ASSUME NEW S, IsFiniteSet(S), NEW f, \A x \in S : f[x] \in Int
  PROVE  \A T \in SUBSET S : T # {} =>
           \E x \in T : SumFunctionOnSet(f, T) = f[x] + SumFunctionOnSet(f, T \ {x})
<1>1. PICK g : /\ Unrolls(g, S, Int, 0, Pick(S), Plus(f, S))
               /\ \A T \in SUBSET S : SumFunctionOnSet(f, T) = g[T]
  BY SumExists
<1> SUFFICES ASSUME NEW T \in SUBSET S, T # {}
             PROVE  \E x \in T : SumFunctionOnSet(f, T) = f[x] + SumFunctionOnSet(f, T \ {x})
  OBVIOUS
<1>2. Pick(S)[T] \in T
  BY DEF Pick
<1>3. g[T] = f[Pick(S)[T]] + g[T \ {Pick(S)[T]}]
  BY <1>1 DEF Unrolls, Plus
<1> QED BY <1>1, <1>2, <1>3

\* Any element can be taken out first.
LEMMA SumTakeOut ==
  ASSUME NEW S, IsFiniteSet(S), NEW f, \A x \in S : f[x] \in Int, NEW x \in S
  PROVE  SumFunctionOnSet(f, S) = f[x] + SumFunctionOnSet(f, S \ {x})
<1> DEFINE sum(T) == SumFunctionOnSet(f, T)
           Good == {T \in SUBSET S : \A y \in T : sum(T) = f[y] + sum(T \ {y})}
<1>0. \A T \in SUBSET S : sum(T) \in Int
  BY SumType, FS_Subset
<1>1. ASSUME NEW T \in SUBSET S, \A U \in SUBSET T : U # T => U \in Good PROVE T \in Good
  <2> SUFFICES ASSUME NEW y \in T PROVE sum(T) = f[y] + sum(T \ {y})
    OBVIOUS
  <2>1. PICK z \in T : sum(T) = f[z] + sum(T \ {z})
    BY SumChosen
  <2>2. CASE z = y
    BY <2>1, <2>2
  <2>3. CASE z # y
    <3>1. sum(T \ {z}) = f[y] + sum((T \ {z}) \ {y})
      BY <1>1, <2>3
    <3>2. sum(T \ {y}) = f[z] + sum((T \ {y}) \ {z})
      BY <1>1, <2>3
    <3>3. (T \ {z}) \ {y} = (T \ {y}) \ {z}
      OBVIOUS
    <3>4. sum((T \ {y}) \ {z}) \in Int /\ f[y] \in Int /\ f[z] \in Int
      BY <1>0
    <3>5. /\ sum(T) = f[z] + (f[y] + sum((T \ {y}) \ {z}))
          /\ f[y] + sum(T \ {y}) = f[y] + (f[z] + sum((T \ {y}) \ {z}))
      BY <2>1, <3>1, <3>2, <3>3
    <3> HIDE DEF sum
    <3> QED BY <3>4, <3>5
  <2> QED BY <2>2, <2>3
<1>2. Good = SUBSET S
  <2> HIDE DEF Good
  <2>1. Good \in SUBSET (SUBSET S)
    BY DEF Good
  <2> QED BY <1>1, <2>1, FiniteDescent
<1> QED BY <1>2

\* Smaller terms make a smaller sum.
LEMMA SumMonotone ==
  ASSUME NEW S, IsFiniteSet(S), NEW f, NEW g,
         \A x \in S : f[x] \in Int /\ g[x] \in Int /\ f[x] <= g[x]
  PROVE  SumFunctionOnSet(f, S) <= SumFunctionOnSet(g, S)
<1> DEFINE F(T) == SumFunctionOnSet(f, T)
           G(T) == SumFunctionOnSet(g, T)
           Good == {T \in SUBSET S : F(T) <= G(T)}
<1>1. {} \in Good
  BY SumEmpty
<1>2. ASSUME NEW T \in Good, NEW x \in S \ T PROVE T \cup {x} \in Good
  <2> DEFINE U == T \cup {x}
  <2>1. U \in SUBSET S /\ U \ {x} = T
    OBVIOUS
  <2>2. IsFiniteSet(U) /\ IsFiniteSet(T)
    BY <2>1, FS_Subset
  <2>3. F(U) = f[x] + F(T) /\ G(U) = g[x] + G(T)
    BY <2>1, <2>2, SumTakeOut
  <2>4. F(T) \in Int /\ G(T) \in Int
    BY <2>1, <2>2, SumType
  <2>5. F(U) <= G(U)
    <3> HIDE DEF F, G
    <3> QED BY <2>3, <2>4
  <2> QED BY <2>1, <2>5
<1>3. S \in Good
  <2> HIDE DEF Good
  <2>1. Good \in SUBSET (SUBSET S)
    BY DEF Good
  <2> QED BY <1>1, <1>2, <2>1, FiniteInduction
<1> QED BY <1>3

\* A sum depends on the values at its set only.
LEMMA SumSame ==
  ASSUME NEW S, IsFiniteSet(S), NEW f, NEW g,
         \A x \in S : f[x] \in Int /\ g[x] = f[x]
  PROVE  SumFunctionOnSet(f, S) = SumFunctionOnSet(g, S)
<1>1. /\ SumFunctionOnSet(f, S) <= SumFunctionOnSet(g, S)
      /\ SumFunctionOnSet(g, S) <= SumFunctionOnSet(f, S)
  BY SumMonotone
<1>2. SumFunctionOnSet(f, S) \in Int /\ SumFunctionOnSet(g, S) \in Int
  BY SumType
<1> QED BY <1>1, <1>2

\* The sum of the sums is the sum of two functions, element by element.
LEMMA SumPlus ==
  ASSUME NEW S, IsFiniteSet(S), NEW f, NEW g, NEW h,
         \A x \in S : f[x] \in Int /\ g[x] \in Int /\ h[x] = f[x] + g[x]
  PROVE  SumFunctionOnSet(h, S) = SumFunctionOnSet(f, S) + SumFunctionOnSet(g, S)
<1> DEFINE F(T) == SumFunctionOnSet(f, T)
           G(T) == SumFunctionOnSet(g, T)
           H(T) == SumFunctionOnSet(h, T)
           Good == {T \in SUBSET S : H(T) = F(T) + G(T)}
<1>1. {} \in Good
  BY SumEmpty
<1>2. ASSUME NEW T \in Good, NEW x \in S \ T PROVE T \cup {x} \in Good
  <2> DEFINE U == T \cup {x}
  <2>1. U \in SUBSET S /\ U \ {x} = T
    OBVIOUS
  <2>2. IsFiniteSet(U) /\ IsFiniteSet(T)
    BY <2>1, FS_Subset
  <2>3. F(U) = f[x] + F(T) /\ G(U) = g[x] + G(T) /\ H(U) = h[x] + H(T)
    BY <2>1, <2>2, SumTakeOut
  <2>4. F(T) \in Int /\ G(T) \in Int
    BY <2>1, <2>2, SumType
  <2>5. H(U) = F(U) + G(U)
    <3> HIDE DEF F, G, H
    <3>1. f[x] \in Int /\ g[x] \in Int /\ h[x] = f[x] + g[x] /\ H(T) = F(T) + G(T)
      BY DEF Good
    <3> QED BY <2>3, <2>4, <3>1
  <2> QED BY <2>1, <2>5
<1>3. S \in Good
  <2> HIDE DEF Good
  <2>1. Good \in SUBSET (SUBSET S)
    BY DEF Good
  <2> QED BY <1>1, <1>2, <2>1, FiniteInduction
<1> QED BY <1>3

\* A change at one element changes the sum by as much.
LEMMA SumChange ==
  ASSUME NEW S, IsFiniteSet(S), NEW f, NEW g, NEW x \in S,
         \A y \in S : f[y] \in Int /\ g[y] \in Int,
         \A y \in S : y # x => g[y] = f[y]
  PROVE  SumFunctionOnSet(g, S) = SumFunctionOnSet(f, S) + g[x] - f[x]
<1>1. IsFiniteSet(S \ {x})
  BY FS_Subset
<1>2. SumFunctionOnSet(f, S \ {x}) = SumFunctionOnSet(g, S \ {x})
  BY <1>1, SumSame
<1>3. SumFunctionOnSet(f, S) = f[x] + SumFunctionOnSet(f, S \ {x})
  BY SumTakeOut
<1>4. SumFunctionOnSet(g, S) = g[x] + SumFunctionOnSet(g, S \ {x})
  BY SumTakeOut
<1>5. SumFunctionOnSet(f, S \ {x}) \in Int
  BY <1>1, SumType
<1> QED BY <1>2, <1>3, <1>4, <1>5

\* An element more.
LEMMA SumAdd ==
  ASSUME NEW S, IsFiniteSet(S), NEW f, \A y \in S : f[y] \in Int,
         NEW x, x \notin S, f[x] \in Int
  PROVE  SumFunctionOnSet(f, S \cup {x}) = f[x] + SumFunctionOnSet(f, S)
<1>1. IsFiniteSet(S \cup {x})
  BY FS_AddElement
<1>2. \A y \in S \cup {x} : f[y] \in Int
  OBVIOUS
<1>3. (S \cup {x}) \ {x} = S /\ x \in S \cup {x}
  OBVIOUS
<1>4. SumFunctionOnSet(f, S \cup {x}) = f[x] + SumFunctionOnSet(f, (S \cup {x}) \ {x})
  BY <1>1, <1>2, <1>3, SumTakeOut
<1> QED BY <1>3, <1>4

\* A sum of zeros.
LEMMA SumZero ==
  ASSUME NEW S, IsFiniteSet(S), NEW f, \A x \in S : f[x] = 0
  PROVE  SumFunctionOnSet(f, S) = 0
<1> DEFINE Good == {T \in SUBSET S : SumFunctionOnSet(f, T) = 0}
<1>1. {} \in Good
  BY SumEmpty
<1>2. ASSUME NEW T \in Good, NEW x \in S \ T PROVE T \cup {x} \in Good
  <2> DEFINE U == T \cup {x}
  <2>1. U \in SUBSET S /\ U \ {x} = T
    OBVIOUS
  <2>2. IsFiniteSet(U)
    BY <2>1, FS_Subset
  <2>3. SumFunctionOnSet(f, U) = f[x] + SumFunctionOnSet(f, T)
    BY <2>1, <2>2, SumTakeOut
  <2> QED BY <2>1, <2>3
<1>3. S \in Good
  <2> HIDE DEF Good
  <2>1. Good \in SUBSET (SUBSET S)
    BY DEF Good
  <2> QED BY <1>1, <1>2, <2>1, FiniteInduction
<1> QED BY <1>3

\* The sum over two sets apart.
LEMMA SumUnion ==
  ASSUME NEW S, IsFiniteSet(S), NEW f, \A x \in S : f[x] \in Int, NEW A \in SUBSET S
  PROVE  SumFunctionOnSet(f, S) = SumFunctionOnSet(f, A) + SumFunctionOnSet(f, S \ A)
<1> DEFINE sum(T) == SumFunctionOnSet(f, T)
           Good == {T \in SUBSET S : sum(T) = sum(T \cap A) + sum(T \ A)}
<1>0. \A T \in SUBSET S : IsFiniteSet(T) /\ sum(T) \in Int
  BY SumType, FS_Subset
<1>1. {} \in Good
  BY SumEmpty
<1>2. ASSUME NEW T \in Good, NEW x \in S \ T PROVE T \cup {x} \in Good
  <2> DEFINE U == T \cup {x}
             a == sum(T \cap A)
             b == sum(T \ A)
  <2>1. U \in SUBSET S /\ x \notin T /\ T \in SUBSET S
    OBVIOUS
  <2>2. sum(U) = f[x] + sum(T)
    BY <1>0, <2>1, SumAdd
  <2>3. f[x] \in Int /\ a \in Int /\ b \in Int /\ sum(T) = a + b
    BY <1>0, <2>1
  <2>4. sum(U) = f[x] + (a + b)
    BY <2>2, <2>3
  <2>5. CASE x \in A
    <3>1. U \ A = T \ A /\ U \cap A = (T \cap A) \cup {x} /\ x \notin T \cap A
      BY <2>1, <2>5
    <3>2. sum((T \cap A) \cup {x}) = f[x] + a
      BY <1>0, <2>1, <3>1, SumAdd
    <3>3. sum(U \cap A) = f[x] + a /\ sum(U \ A) = b
      BY <3>1, <3>2
    <3> HIDE DEF sum, a, b, U
    <3>4. sum(U) = sum(U \cap A) + sum(U \ A)
      BY <2>3, <2>4, <3>3
    <3> QED BY <2>1, <3>4 DEF U
  <2>6. CASE x \notin A
    <3>1. U \cap A = T \cap A /\ U \ A = (T \ A) \cup {x} /\ x \notin T \ A
      BY <2>1, <2>6
    <3>2. sum((T \ A) \cup {x}) = f[x] + b
      BY <1>0, <2>1, <3>1, SumAdd
    <3>3. sum(U \cap A) = a /\ sum(U \ A) = f[x] + b
      BY <3>1, <3>2
    <3> HIDE DEF sum, a, b, U
    <3>4. sum(U) = sum(U \cap A) + sum(U \ A)
      BY <2>3, <2>4, <3>3
    <3> QED BY <2>1, <3>4 DEF U
  <2> QED BY <2>5, <2>6
<1>3. S \in Good
  <2> HIDE DEF Good
  <2>1. Good \in SUBSET (SUBSET S)
    BY DEF Good
  <2> QED BY <1>1, <1>2, <2>1, FiniteInduction
<1>4. S \cap A = A
  OBVIOUS
<1> QED BY <1>3, <1>4

-----------------------------------------------------------------------------
\* A sum of ones counts.
LEMMA SumOnes ==
  ASSUME NEW S, IsFiniteSet(S), NEW f, \A x \in S : f[x] = 1
  PROVE  SumFunctionOnSet(f, S) = Cardinality(S)
<1> DEFINE Good == {T \in SUBSET S : SumFunctionOnSet(f, T) = Cardinality(T)}
<1>1. {} \in Good
  BY SumEmpty, FS_EmptySet
<1>2. ASSUME NEW T \in Good, NEW x \in S \ T PROVE T \cup {x} \in Good
  <2>1. IsFiniteSet(T) /\ T \in SUBSET S /\ Cardinality(T) \in Nat
    BY FS_Subset, FS_CardinalityType
  <2>2. Cardinality(T \cup {x}) = Cardinality(T) + 1
    BY <2>1, FS_AddElement
  <2>3. \A y \in T : f[y] \in Int
    BY <2>1
  <2>4. SumFunctionOnSet(f, T \cup {x}) = f[x] + SumFunctionOnSet(f, T)
    BY <2>1, <2>3, SumAdd
  <2> QED BY <2>1, <2>2, <2>4
<1> HIDE DEF Good
<1>3. S \in Good
  <2>1. Good \in SUBSET (SUBSET S)
    BY DEF Good
  <2> QED BY <1>1, <1>2, <2>1, FiniteInduction
<1> QED BY <1>3 DEF Good

\* A sum of naturals is one, and none of its terms exceeds it.
LEMMA SumNat ==
  ASSUME NEW S, IsFiniteSet(S), NEW f, \A x \in S : f[x] \in Nat
  PROVE  SumFunctionOnSet(f, S) \in Nat /\ \A x \in S : f[x] <= SumFunctionOnSet(f, S)
<1>1. ASSUME NEW T \in SUBSET S PROVE SumFunctionOnSet(f, T) \in Nat
  <2> DEFINE zero == [x \in T |-> 0]
  <2>1. IsFiniteSet(T) /\ \A x \in T : f[x] \in Int /\ zero[x] \in Int /\ zero[x] <= f[x] /\ zero[x] = 0
    BY FS_Subset
  <2> HIDE DEF zero
  <2>2. SumFunctionOnSet(zero, T) <= SumFunctionOnSet(f, T)
    BY <2>1, SumMonotone
  <2>3. SumFunctionOnSet(zero, T) = 0
    BY <2>1, SumZero
  <2>4. SumFunctionOnSet(f, T) \in Int
    BY <2>1, SumType
  <2> QED BY <2>2, <2>3, <2>4
<1>2. ASSUME NEW x \in S PROVE f[x] <= SumFunctionOnSet(f, S)
  <2>1. SumFunctionOnSet(f, S) = f[x] + SumFunctionOnSet(f, S \ {x})
    <3>1. \A y \in S : f[y] \in Int
      OBVIOUS
    <3> QED BY <3>1, SumTakeOut
  <2>2. S \ {x} \in SUBSET S
    OBVIOUS
  <2>3. SumFunctionOnSet(f, S \ {x}) \in Nat /\ f[x] \in Nat
    BY <1>1, <2>2
  <2> QED BY <2>1, <2>3
<1> QED BY <1>1, <1>2

\* The sum over one element, and over two.
LEMMA SumOfSingleton ==
  ASSUME NEW f, NEW x, f[x] \in Int
  PROVE  SumFunctionOnSet(f, {x}) = f[x]
<1>1. IsFiniteSet({}) /\ x \notin {} /\ \A y \in {} : f[y] \in Int
  BY FS_EmptySet
<1>2. SumFunctionOnSet(f, {} \cup {x}) = f[x] + SumFunctionOnSet(f, {})
  BY <1>1, SumAdd
<1>3. {} \cup {x} = {x}
  OBVIOUS
<1> QED BY <1>2, <1>3, SumEmpty

LEMMA SumOfPair ==
  ASSUME NEW f, NEW x, NEW y, x # y, f[x] \in Int, f[y] \in Int
  PROVE  SumFunctionOnSet(f, {x, y}) = f[x] + f[y]
<1>1. IsFiniteSet({x}) /\ y \notin {x} /\ \A z \in {x} : f[z] \in Int
  BY FS_Singleton
<1>2. SumFunctionOnSet(f, {x} \cup {y}) = f[y] + SumFunctionOnSet(f, {x})
  BY <1>1, SumAdd
<1>3. {x} \cup {y} = {x, y}
  OBVIOUS
<1>4. SumFunctionOnSet(f, {x}) = f[x]
  BY SumOfSingleton
<1>5. SumFunctionOnSet(f, {x, y}) = f[y] + f[x]
  BY <1>2, <1>3, <1>4
<1> QED BY <1>5

\* The sum over the first k numbers, one more at a time.
LEMMA SumUpTo ==
  ASSUME NEW n \in Nat, NEW f, \A i \in 1..n : f[i] \in Int, NEW k \in 1..n
  PROVE  /\ SumFunctionOnSet(f, 1..0) = 0
         /\ SumFunctionOnSet(f, 1..k) = f[k] + SumFunctionOnSet(f, 1..(k - 1))
         /\ SumFunctionOnSet(f, 1..k) \in Int
<1>1. 1..0 = {} /\ 1..k = (1..(k - 1)) \cup {k} /\ k \notin 1..(k - 1)
  OBVIOUS
<1>2. /\ IsFiniteSet(1..k) /\ IsFiniteSet(1..(k - 1))
      /\ \A i \in 1..k : f[i] \in Int
  BY FS_Interval
<1>3. \A i \in 1..(k - 1) : f[i] \in Int
  BY <1>2
<1>4. SumFunctionOnSet(f, (1..(k - 1)) \cup {k}) = f[k] + SumFunctionOnSet(f, 1..(k - 1))
  BY <1>1, <1>2, <1>3, SumAdd
<1> QED BY <1>1, <1>2, <1>4, SumEmpty, SumType

\* A sum of differences is the difference of the ends.
LEMMA SumTelescopes ==
  ASSUME NEW n \in Nat, NEW f, NEW p, \A k \in 0..n : p[k] \in Int,
         \A k \in 1..n : f[k] = p[k] - p[k - 1]
  PROVE  SumFunctionOnSet(f, 1..n) = p[n] - p[0]
<1> DEFINE Good == {k \in Nat : k <= n => SumFunctionOnSet(f, 1..k) = p[k] - p[0]}
<1>1. \A i \in 1..n : f[i] \in Int
  OBVIOUS
<1>2. 0 \in Good
  <2>1. 1..0 = {}
    OBVIOUS
  <2> QED BY <2>1, SumEmpty
<1>3. ASSUME NEW k \in Good PROVE k + 1 \in Good
  <2> SUFFICES ASSUME k + 1 <= n PROVE SumFunctionOnSet(f, 1..(k + 1)) = p[k + 1] - p[0]
    OBVIOUS
  <2>1. PICK m \in 1..n : m = k + 1 /\ m - 1 = k
    OBVIOUS
  <2>2. SumFunctionOnSet(f, 1..m) = f[m] + SumFunctionOnSet(f, 1..(m - 1))
    BY <1>1, SumUpTo
  <2> QED BY <2>1, <2>2
<1>4. Good = Nat
  <2>1. Good \in SUBSET Nat
    OBVIOUS
  <2> HIDE DEF Good
  <2> QED BY <1>2, <1>3, <2>1, NaturalInduction
<1> QED BY <1>4

\* f is a on 1..p and b on the q places after.
EndToEnd(f, p, a, q, b) ==
  /\ \A i \in 1..p : f[i] \in Int /\ a[i] = f[i]
  /\ \A j \in 1..q : f[p + j] \in Int /\ b[j] = f[p + j]

\* One list after another.
LEMMA SumConcat ==
  ASSUME NEW p \in Nat, NEW q \in Nat, NEW f, NEW a, NEW b, EndToEnd(f, p, a, q, b)
  PROVE  SumFunctionOnSet(f, 1..(p + q)) = SumFunctionOnSet(a, 1..p) + SumFunctionOnSet(b, 1..q)
<1>0. /\ \A i \in 1..p : f[i] \in Int /\ a[i] = f[i]
      /\ \A j \in 1..q : f[p + j] \in Int /\ b[j] = f[p + j]
  BY DEF EndToEnd
<1> USE <1>0
<1> DEFINE Good == {k \in Nat : k <= q => SumFunctionOnSet(f, 1..(p + k))
                                  = SumFunctionOnSet(f, 1..p) + SumFunctionOnSet(b, 1..k)}
<1>1. \A i \in 1..(p + q) : f[i] \in Int
  <2> SUFFICES ASSUME NEW i \in 1..(p + q) PROVE f[i] \in Int
    OBVIOUS
  <2>1. CASE i <= p
    BY <2>1
  <2>2. CASE i > p
    <3>1. i - p \in 1..q /\ p + (i - p) = i
      BY <2>2
    <3> QED BY <3>1
  <2> QED BY <2>1, <2>2
<1>2. \A j \in 1..q : b[j] \in Int
  OBVIOUS
<1>3. IsFiniteSet(1..p) /\ IsFiniteSet({})
  BY FS_Interval, FS_EmptySet
<1>4. SumFunctionOnSet(f, 1..p) = SumFunctionOnSet(a, 1..p) /\ SumFunctionOnSet(f, 1..p) \in Int
  BY <1>3, SumSame, SumType
<1>5. 0 \in Good
  <2>1. 1..0 = {} /\ p + 0 = p
    OBVIOUS
  <2> QED BY <1>4, <2>1, SumEmpty
<1>6. ASSUME NEW k \in Good PROVE k + 1 \in Good
  <2> SUFFICES ASSUME k + 1 <= q
               PROVE  SumFunctionOnSet(f, 1..(p + (k + 1)))
                        = SumFunctionOnSet(f, 1..p) + SumFunctionOnSet(b, 1..(k + 1))
    OBVIOUS
  <2>1. k + 1 \in 1..q /\ k + 1 - 1 = k /\ p + (k + 1) \in 1..(p + q) /\ p + (k + 1) - 1 = p + k
    OBVIOUS
  <2>2. /\ SumFunctionOnSet(b, 1..(k + 1)) = b[k + 1] + SumFunctionOnSet(b, 1..k)
        /\ SumFunctionOnSet(b, 1..(k + 1)) \in Int
    <3>1. PICK m \in 1..q : m = k + 1 /\ m - 1 = k
      BY <2>1
    <3>2. /\ SumFunctionOnSet(b, 1..m) = b[m] + SumFunctionOnSet(b, 1..(m - 1))
          /\ SumFunctionOnSet(b, 1..m) \in Int
      BY <1>2, SumUpTo
    <3> QED BY <3>1, <3>2
  <2>3. SumFunctionOnSet(f, 1..(p + (k + 1))) = f[p + (k + 1)] + SumFunctionOnSet(f, 1..(p + k))
    <3>1. PICK m \in 1..(p + q) : m = p + (k + 1) /\ m - 1 = p + k
      BY <2>1
    <3>2. p + q \in Nat
      OBVIOUS
    <3>3. SumFunctionOnSet(f, 1..m) = f[m] + SumFunctionOnSet(f, 1..(m - 1))
      BY <1>1, <3>2, SumUpTo
    <3> QED BY <3>1, <3>3
  <2>4. SumFunctionOnSet(b, 1..k) \in Int
    <3>1. IsFiniteSet(1..k) /\ \A j \in 1..k : b[j] \in Int
      BY <1>2, <2>1, FS_Interval
    <3> QED BY <3>1, SumType
  <2>5. b[k + 1] = f[p + (k + 1)] /\ b[k + 1] \in Int
    BY <2>1
  <2>6. SumFunctionOnSet(f, 1..(p + k)) = SumFunctionOnSet(f, 1..p) + SumFunctionOnSet(b, 1..k)
    OBVIOUS
  <2> HIDE DEF Good
  <2> QED BY <1>4, <2>2, <2>3, <2>4, <2>5, <2>6
<1>7. Good = Nat
  <2>1. Good \in SUBSET Nat
    OBVIOUS
  <2> HIDE DEF Good
  <2> QED BY <1>5, <1>6, <2>1, NaturalInduction
<1>8. SumFunctionOnSet(f, 1..(p + q)) = SumFunctionOnSet(f, 1..p) + SumFunctionOnSet(b, 1..q)
  BY <1>7
<1> QED BY <1>4, <1>8

\* A common factor.
LEMMA SumScaled ==
  ASSUME NEW S, IsFiniteSet(S), NEW f, NEW h, NEW c \in Int,
         \A x \in S : f[x] \in Int /\ h[x] = c * f[x]
  PROVE  SumFunctionOnSet(h, S) = c * SumFunctionOnSet(f, S)
<1> DEFINE F(T) == SumFunctionOnSet(f, T)
           H(T) == SumFunctionOnSet(h, T)
           Good == {T \in SUBSET S : H(T) = c * F(T)}
<1>1. {} \in Good
  BY SumEmpty
<1>2. ASSUME NEW T \in Good, NEW x \in S \ T PROVE T \cup {x} \in Good
  <2>1. IsFiniteSet(T) /\ x \notin T /\ \A y \in T : f[y] \in Int /\ h[y] \in Int
    BY FS_Subset
  <2>2. f[x] \in Int /\ h[x] \in Int /\ h[x] = c * f[x]
    OBVIOUS
  <2>3. F(T \cup {x}) = f[x] + F(T)
    BY <2>1, <2>2, SumAdd
  <2>4. H(T \cup {x}) = h[x] + H(T)
    BY <2>1, <2>2, SumAdd
  <2>5. F(T) \in Int /\ H(T) = c * F(T)
    BY <2>1, SumType
  <2>6. c * (f[x] + F(T)) = c * f[x] + c * F(T)
    BY <2>2, <2>5
  <2> HIDE DEF F, H
  <2> QED BY <2>2, <2>3, <2>4, <2>5, <2>6
<1>3. Good \in SUBSET (SUBSET S)
  OBVIOUS
<1> HIDE DEF Good, F, H
<1>4. S \in Good
  BY <1>1, <1>2, <1>3, FiniteInduction
<1> QED BY <1>4 DEF Good, F, H

\* Terms that are close, each to c.
LEMMA SumClose ==
  ASSUME NEW S, IsFiniteSet(S), NEW f, NEW g, NEW c \in Int,
         \A x \in S : f[x] \in Int /\ g[x] \in Int /\ f[x] - g[x] <= c /\ g[x] - f[x] <= c
  PROVE  /\ SumFunctionOnSet(f, S) - SumFunctionOnSet(g, S) <= c * Cardinality(S)
         /\ SumFunctionOnSet(g, S) - SumFunctionOnSet(f, S) <= c * Cardinality(S)
<1> DEFINE one == [x \in S |-> 1]
           most == [x \in S |-> c]
           up == [x \in S |-> g[x] + c]
           down == [x \in S |-> f[x] + c]
<1>1. SumFunctionOnSet(one, S) = Cardinality(S)
  BY SumOnes
<1>2. SumFunctionOnSet(most, S) = c * Cardinality(S)
  <2>1. \A x \in S : one[x] \in Int /\ most[x] = c * one[x]
    OBVIOUS
  <2> HIDE DEF one, most
  <2> QED BY <1>1, <2>1, SumScaled
<1>3. SumFunctionOnSet(up, S) = SumFunctionOnSet(g, S) + SumFunctionOnSet(most, S)
  <2>1. \A x \in S : g[x] \in Int /\ most[x] \in Int /\ up[x] = g[x] + most[x]
    OBVIOUS
  <2> HIDE DEF most, up
  <2> QED BY <2>1, SumPlus
<1>4. SumFunctionOnSet(down, S) = SumFunctionOnSet(f, S) + SumFunctionOnSet(most, S)
  <2>1. \A x \in S : f[x] \in Int /\ most[x] \in Int /\ down[x] = f[x] + most[x]
    OBVIOUS
  <2> HIDE DEF most, down
  <2> QED BY <2>1, SumPlus
<1>5. /\ SumFunctionOnSet(f, S) <= SumFunctionOnSet(up, S)
      /\ SumFunctionOnSet(g, S) <= SumFunctionOnSet(down, S)
  <2>1. \A x \in S : /\ f[x] \in Int /\ up[x] \in Int /\ f[x] <= up[x]
                     /\ g[x] \in Int /\ down[x] \in Int /\ g[x] <= down[x]
    OBVIOUS
  <2> HIDE DEF up, down
  <2> QED BY <2>1, SumMonotone
<1>6. SumFunctionOnSet(f, S) \in Int /\ SumFunctionOnSet(g, S) \in Int /\ c * Cardinality(S) \in Int
  BY SumType, FS_CardinalityType
<1> HIDE DEF one, most, up, down
<1> DEFINE all == c * Cardinality(S)
<1>7. all \in Int /\ SumFunctionOnSet(most, S) = all
  BY <1>2, <1>6
<1> HIDE DEF all
<1>8. /\ SumFunctionOnSet(f, S) - SumFunctionOnSet(g, S) <= all
      /\ SumFunctionOnSet(g, S) - SumFunctionOnSet(f, S) <= all
  BY <1>3, <1>4, <1>5, <1>6, <1>7
<1> QED BY <1>8 DEF all

\* h sums f over all elements of a key.
Gathers(h, K, f, S, key) ==
  /\ \A x \in S : key[x] \in K
  /\ \A v \in K : h[v] = SumFunctionOnSet(f, {x \in S : key[x] = v})

LEMMA SumByKey ==
  ASSUME NEW S, IsFiniteSet(S), NEW f, \A x \in S : f[x] \in Int, NEW K, IsFiniteSet(K),
         NEW h, NEW key, Gathers(h, K, f, S, key)
  PROVE  SumFunctionOnSet(h, K) = SumFunctionOnSet(f, S)
<1> DEFINE In(T) == [v \in K |-> SumFunctionOnSet(f, {x \in T : key[x] = v})]
           Good == {T \in SUBSET S : SumFunctionOnSet(In(T), K) = SumFunctionOnSet(f, T)}
<1> USE DEF Gathers
<1>0. \A T \in SUBSET S : \A v \in K : In(T)[v] \in Int
  <2> SUFFICES ASSUME NEW T \in SUBSET S, NEW v \in K PROVE In(T)[v] \in Int
    OBVIOUS
  <2>1. IsFiniteSet({x \in T : key[x] = v}) /\ \A x \in {x \in T : key[x] = v} : f[x] \in Int
    BY FS_Subset
  <2>2. SumFunctionOnSet(f, {x \in T : key[x] = v}) \in Int
    BY <2>1, SumType
  <2> QED BY <2>2
<1>1. {} \in Good
  <2>1. \A v \in K : {x \in {} : key[x] = v} = {}
    OBVIOUS
  <2>2. \A v \in K : In({})[v] = 0
    BY <2>1, SumEmpty
  <2> HIDE DEF In
  <2>3. SumFunctionOnSet(In({}), K) = 0
    BY <2>2, SumZero
  <2> QED BY <2>3, SumEmpty
<1>2. ASSUME NEW T \in Good, NEW x \in S \ T PROVE T \cup {x} \in Good
  <2> DEFINE U == T \cup {x}
             k == key[x]
  <2>1. /\ k \in K /\ IsFiniteSet(T) /\ f[x] \in Int /\ \A y \in T : f[y] \in Int
        /\ T \in SUBSET S /\ U \in SUBSET S
    BY FS_Subset
  <2>2. \A v \in K : v # k => {y \in U : key[y] = v} = {y \in T : key[y] = v}
    OBVIOUS
  <2>3. {y \in U : key[y] = k} = {y \in T : key[y] = k} \cup {x}
    OBVIOUS
  <2>4. SumFunctionOnSet(f, {y \in T : key[y] = k} \cup {x})
          = f[x] + SumFunctionOnSet(f, {y \in T : key[y] = k})
    <3>1. /\ IsFiniteSet({y \in T : key[y] = k}) /\ x \notin {y \in T : key[y] = k}
          /\ \A y \in {y \in T : key[y] = k} : f[y] \in Int
      BY <2>1, FS_Subset
    <3> QED BY <2>1, <3>1, SumAdd
  <2>5. /\ In(U)[k] = f[x] + In(T)[k]
        /\ \A v \in K : v # k => In(U)[v] = In(T)[v]
    <3> HIDE DEF U, k
    <3> QED BY <2>1, <2>2, <2>3, <2>4
  <2>6. \A v \in K : In(U)[v] \in Int /\ In(T)[v] \in Int
    BY <1>0, <2>1
  <2> DEFINE u == In(U)
             t == In(T)
  <2>7. SumFunctionOnSet(u, K) = SumFunctionOnSet(t, K) + u[k] - t[k]
    <3>1. /\ \A v \in K : t[v] \in Int /\ u[v] \in Int
          /\ \A v \in K : v # k => u[v] = t[v]
      BY <2>5, <2>6
    <3> HIDE DEF u, t, k, In
    <3> QED BY <2>1, <3>1, SumChange
  <2>8. SumFunctionOnSet(t, K) = SumFunctionOnSet(f, T)
    OBVIOUS
  <2>9. SumFunctionOnSet(f, U) = f[x] + SumFunctionOnSet(f, T)
    BY <2>1, SumAdd
  <2>10. SumFunctionOnSet(f, T) \in Int /\ u[k] \in Int /\ t[k] \in Int /\ u[k] = f[x] + t[k]
    BY <2>1, <2>5, <2>6, SumType
  <2>11. SumFunctionOnSet(u, K) = SumFunctionOnSet(f, U)
    <3> HIDE DEF u, t, k, U, In
    <3> QED BY <2>1, <2>7, <2>8, <2>9, <2>10
  <2> QED BY <2>1, <2>11
<1>3. Good \in SUBSET (SUBSET S)
  OBVIOUS
<1>4. S \in Good
  <2> HIDE DEF Good
  <2> QED BY <1>1, <1>2, <1>3, FiniteInduction
<1>5. SumFunctionOnSet(In(S), K) = SumFunctionOnSet(h, K)
  <2>1. \A v \in K : In(S)[v] \in Int /\ h[v] = In(S)[v]
    BY <1>0
  <2> HIDE DEF In
  <2> QED BY <2>1, SumSame
<1> QED BY <1>4, <1>5

-----------------------------------------------------------------------------
\* A fold from the left over a list of n elements: step[k][v] is what element
\* k makes of v.
LeftFold(n, V, base, step) ==
  n \in Nat /\ base \in V /\ \A k \in 1..n : \A v \in V : step[k][v] \in V

\* g satisfies the equation FoldLeft unfolds to, as far as its values are in V.
FoldsLeft(g, n, V, base, step) ==
  /\ g = [s \in SUBSET (1..n) |-> g[s]]
  /\ g[{}] = base
  /\ \A s \in SUBSET (1..n) :
       s # {} /\ g[s \ {Max(s)}] \in V => g[s] = step[Max(s)][g[s \ {Max(s)}]]

\* The values it passes through.
Passes(v, n, V, base, step) ==
  v \in [0..n -> V] /\ v[0] = base /\ \A k \in 1..n : v[k] = step[k][v[k - 1]]

\* One function satisfies the equation, stays in V and ends where the values do.
OneLeftFold(g, v, n, V, base, step) ==
  /\ g \in [SUBSET (1..n) -> V] /\ FoldsLeft(g, n, V, base, step)
  /\ \A h : FoldsLeft(h, n, V, base, step) => h = g
  /\ Passes(v, n, V, base, step) /\ g[1..n] = v[n]

\* A set of numbers up to n that is not empty has a last one.
LEMMA LastOne ==
  ASSUME NEW n \in Nat, NEW s \in SUBSET (1..n), s # {}
  PROVE  Max(s) \in s /\ \A i \in s : i <= Max(s)
<1> DEFINE R == {n - i : i \in s}
<1>1. R \in SUBSET Nat /\ R # {}
  <2>1. \A i \in s : n - i \in Nat
    OBVIOUS
  <2> QED BY <2>1
<1> HIDE DEF R
<1>2. Min(R) \in R /\ \A i \in R : Min(R) <= i
  BY <1>1, LeastNatural
<1>3. \E x \in s : \A y \in s : x >= y
  <2>1. PICK x \in s : Min(R) = n - x
    BY <1>2 DEF R
  <2>2. \A y \in s : n - y \in R
    BY DEF R
  <2> QED BY <1>2, <2>1, <2>2
<1> QED BY <1>3 DEF Max

\* There is such a function.
LEMMA LeftFoldPasses ==
  ASSUME NEW n, NEW V, NEW base, NEW step, LeftFold(n, V, base, step)
  PROVE  \E g, v : OneLeftFold(g, v, n, V, base, step)
<1> DEFINE S == 1..n
           pick == [s \in SUBSET S |-> Max(s)]
           on == [s \in SUBSET S |-> step[Max(s)]]
<1>1. /\ n \in Nat /\ IsFiniteSet(S)
      /\ \A s \in SUBSET S : s # {} => Max(s) \in s /\ \A i \in s : i <= Max(s)
  <2>1. n \in Nat
    BY DEF LeftFold
  <2>2. ASSUME NEW s \in SUBSET (1..n), s # {} PROVE Max(s) \in s /\ \A i \in s : i <= Max(s)
    BY <2>1, <2>2, LastOne
  <2>3. IsFiniteSet(1..n)
    BY <2>1, FS_Interval
  <2> HIDE DEF pick, on
  <2> QED BY <2>1, <2>2, <2>3
<1>2. Recursion(S, V, base, pick, on)
  BY <1>1 DEF Recursion, LeftFold
<1>3. PICK g : Unrolls(g, S, V, base, pick, on)
  BY <1>2, RecursionExists
<1>4. g \in [SUBSET S -> V] /\ FoldsLeft(g, n, V, base, step)
  BY <1>3 DEF Unrolls, FoldsLeft
<1>5. ASSUME NEW h, FoldsLeft(h, n, V, base, step) PROVE h = g
  <2>1. Follows(h, S, V, base, pick, on)
    BY <1>5 DEF FoldsLeft, Follows
  <2> QED BY <1>2, <1>3, <2>1, RecursionUnique
<1> DEFINE v == [k \in 0..n |-> g[1..k]]
<1>6. \A k \in 1..n : Max(1..k) = k /\ (1..k) \ {k} = 1..(k - 1) /\ 1..k # {} /\ 1..k \in SUBSET S
  <2> SUFFICES ASSUME NEW k \in 1..n
               PROVE Max(1..k) = k /\ (1..k) \ {k} = 1..(k - 1) /\ 1..k # {} /\ 1..k \in SUBSET S
    OBVIOUS
  <2>1. 1..k # {} /\ 1..k \in SUBSET S /\ (1..k) \ {k} = 1..(k - 1)
    BY <1>1
  <2>2. Max(1..k) \in 1..k /\ k <= Max(1..k)
    <3>1. n \in Nat
      BY <1>1
    <3>2. k \in 1..k /\ 1..k \in SUBSET (1..n) /\ 1..k # {}
      BY <3>1
    <3>3. Max(1..k) \in 1..k /\ \A i \in 1..k : i <= Max(1..k)
      BY <3>1, <3>2, LastOne
    <3> QED BY <3>2, <3>3
  <2> QED BY <2>1, <2>2
<1>7. Passes(v, n, V, base, step)
  <2>1. \A k \in 0..n : 1..k \in SUBSET S
    BY <1>1
  <2>2. v \in [0..n -> V]
    BY <1>4, <2>1
  <2>3. v[0] = base
    BY <1>1, <1>4 DEF FoldsLeft
  <2>4. ASSUME NEW k \in 1..n PROVE v[k] = step[k][v[k - 1]]
    <3>1. g[1..k] = step[k][g[1..(k - 1)]]
      BY <1>4, <1>6 DEF FoldsLeft
    <3>2. k \in 0..n /\ k - 1 \in 0..n
      BY <1>1
    <3> QED BY <3>1, <3>2
  <2> QED BY <2>2, <2>3, <2>4 DEF Passes
<1>8. g[1..n] = v[n]
  BY <1>1
<1> HIDE DEF v
<1> QED BY <1>4, <1>5, <1>7, <1>8 DEF OneLeftFold
=============================================================================
