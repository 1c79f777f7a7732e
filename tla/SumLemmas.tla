------------------------------ MODULE SumLemmas ------------------------------
(***************************************************************************)
(* Sums over finite sets, as SumFunctionOnSet of the community modules     *)
(* computes them: what a sum is, and what becomes of it when a summand     *)
(* changes.  The invariants of SalesOrders and StockIssue that compare     *)
(* totals are proved from these.                                           *)
(***************************************************************************)
EXTENDS Integers, Functions, FiniteSets, FiniteSetTheorems, WellFoundedInduction, TLAPS

(* An induction over the subsets of a finite set.  Good is a set of them,  *)
(* not an operator, so that the provers can take it; each lemma names its  *)
(* own.                                                                    *)
LEMMA FiniteInduction ==
    ASSUME NEW S, IsFiniteSet(S), NEW Good \in SUBSET (SUBSET S),
           \A T \in SUBSET S : (\A x \in T : T \ {x} \in Good) => T \in Good
    PROVE  S \in Good
<1> DEFINE Bad == (SUBSET S) \ Good
<1> SUFFICES ASSUME Bad # {} PROVE FALSE
  OBVIOUS
<1>1. Bad \subseteq FiniteSubsetsOf(S)
  BY FS_Subset DEF FiniteSubsetsOf
<1>2. PICK T \in Bad : \A U \in Bad : ~(<<U, T>> \in StrictSubsetOrdering(S))
  <2> HIDE DEF Bad
  <2> QED
    BY <1>1, FS_StrictSubsetOrderingWellFounded, WFMin
<1>3. ASSUME NEW x \in T PROVE T \ {x} \in Good
  <2>1. T \ {x} \in SUBSET S /\ T \in SUBSET S /\ T \ {x} \subseteq T /\ T \ {x} # T
    OBVIOUS
  <2>2. <<T \ {x}, T>> \in StrictSubsetOrdering(S)
    BY <2>1 DEF StrictSubsetOrdering
  <2>3. T \ {x} \notin Bad
    BY <1>2, <2>2
  <2> QED
    BY <2>1, <2>3
<1> QED
  BY <1>3

Pick(s) == CHOOSE x \in s : TRUE

(* g is what SumFunctionOnSet builds: the sum of f over every subset of S. *)
Sums(g, f, S) ==
    g = [s \in SUBSET S |-> IF s = {} THEN 0 ELSE f[Pick(s)] + g[s \ {Pick(s)}]]

(* What the sum is by definition: the value at S of the function that      *)
(* satisfies Sums.                                                         *)
LEMMA SumDefined == ASSUME NEW f, NEW S
    PROVE SumFunctionOnSet(f, S) = (CHOOSE g : Sums(g, f, S))[S]
  BY DEF SumFunctionOnSet, FoldFunctionOnSet, MapThenFoldSet, Sums, Pick

(* The element a sum takes out of a set is one of its elements.            *)
LEMMA PickIn == ASSUME NEW s, s # {} PROVE Pick(s) \in s
  BY DEF Pick

(* A function that satisfies Sums adds one element at a time.              *)
LEMMA SumsValue ==
    ASSUME NEW u, NEW D, NEW w, Sums(w, u, D)
    PROVE  \A d \in SUBSET D : w[d] = IF d = {} THEN 0 ELSE u[Pick(d)] + w[d \ {Pick(d)}]
<1> TAKE d \in SUBSET D
<1> DEFINE v == [t \in SUBSET D |-> IF t = {} THEN 0 ELSE u[Pick(t)] + w[t \ {Pick(t)}]]
<1>1. w = v
  BY DEF Sums
<1>2. v[d] = IF d = {} THEN 0 ELSE u[Pick(d)] + w[d \ {Pick(d)}]
  OBVIOUS
<1> HIDE DEF v
<1> QED
  BY <1>1, <1>2

(* There is at most one, on every part of S.                               *)
LEMMA SumsUnique ==
    ASSUME NEW f, NEW S, IsFiniteSet(S), NEW R, NEW T, S \subseteq R, S \subseteq T,
           NEW g, Sums(g, f, R), NEW h, Sums(h, f, T)
    PROVE  g[S] = h[S]
<1> DEFINE Good == {s \in SUBSET S : g[s] = h[s]}
<1>1. ASSUME NEW s \in SUBSET S, \A x \in s : s \ {x} \in Good PROVE s \in Good
  <2>1. /\ g[s] = IF s = {} THEN 0 ELSE f[Pick(s)] + g[s \ {Pick(s)}]
        /\ h[s] = IF s = {} THEN 0 ELSE f[Pick(s)] + h[s \ {Pick(s)}]
    <3>1. s \in SUBSET R /\ s \in SUBSET T
      OBVIOUS
    <3>2. g[s] = IF s = {} THEN 0 ELSE f[Pick(s)] + g[s \ {Pick(s)}]
      <4>1. \A d \in SUBSET R : g[d] = IF d = {} THEN 0 ELSE f[Pick(d)] + g[d \ {Pick(d)}]
        BY SumsValue
      <4> QED
        BY <3>1, <4>1
    <3>3. h[s] = IF s = {} THEN 0 ELSE f[Pick(s)] + h[s \ {Pick(s)}]
      BY <3>1, SumsValue
    <3> QED
      BY <3>2, <3>3
  <2>2. s # {} => g[s \ {Pick(s)}] = h[s \ {Pick(s)}]
    BY <1>1, PickIn
  <2> QED
    BY <2>1, <2>2
<1>2. Good \in SUBSET (SUBSET S)
  OBVIOUS
<1>3. S \in Good
  <2> HIDE DEF Good
  <2> QED
    BY <1>1, <1>2, FiniteInduction
<1> QED
  BY <1>3

(* Such a function still satisfies Sums when it is cut down to a part of   *)
(* its set.                                                                *)
LEMMA SumsRestricted ==
    ASSUME NEW f, NEW R, NEW g, Sums(g, f, R)
    PROVE  \A S \in SUBSET R : Sums([s \in SUBSET S |-> g[s]], f, S)
<1> TAKE S \in SUBSET R
<1> DEFINE h == [s \in SUBSET S |-> g[s]]
<1>1. ASSUME NEW s \in SUBSET S
      PROVE  h[s] = IF s = {} THEN 0 ELSE f[Pick(s)] + h[s \ {Pick(s)}]
  <2>1. s \in SUBSET R /\ h[s] = g[s] /\ h[s \ {Pick(s)}] = g[s \ {Pick(s)}]
    OBVIOUS
  <2> HIDE DEF h
  <2>2. \A d \in SUBSET R : g[d] = IF d = {} THEN 0 ELSE f[Pick(d)] + g[d \ {Pick(d)}]
    BY SumsValue
  <2> QED
    BY <2>1, <2>2
<1>2. h = [s \in SUBSET S |-> h[s]]
  OBVIOUS
<1> HIDE DEF h
<1>3. h = [s \in SUBSET S |-> IF s = {} THEN 0 ELSE f[Pick(s)] + h[s \ {Pick(s)}]]
  BY <1>1, <1>2
<1>4. Sums(h, f, S)
  BY <1>3 DEF Sums
<1> QED
  BY <1>4 DEF h

(* And there is one.                                                       *)
LEMMA SumsExist ==
    ASSUME NEW f, NEW S, IsFiniteSet(S)
    PROVE  \E g : Sums(g, f, S)
<1> DEFINE Good == {s \in SUBSET S : \E g : Sums(g, f, s)}
<1>1. ASSUME NEW T \in SUBSET S, \A x \in T : T \ {x} \in Good PROVE T \in Good
  <2> DEFINE At(s) == CHOOSE g : Sums(g, f, s)
             Rest(s) == s \ {Pick(s)}
             g == [s \in SUBSET T |-> IF s = {} THEN 0 ELSE f[Pick(s)] + At(Rest(s))[Rest(s)]]
  <2>1. ASSUME NEW s \in SUBSET T, s # T PROVE Sums(At(s), f, s)
    <3>1. PICK x \in T : s \subseteq T \ {x}
      BY <2>1
    <3>2. PICK h : Sums(h, f, T \ {x})
      BY <1>1
    <3>3. \A U \in SUBSET (T \ {x}) : Sums([t \in SUBSET U |-> h[t]], f, U)
      BY <3>2, SumsRestricted
    <3> QED
      BY <3>1, <3>3
  <2>2. ASSUME NEW s \in SUBSET T, s # T PROVE g[s] = At(s)[s]
    <3>1. g[s] = IF s = {} THEN 0 ELSE f[Pick(s)] + At(Rest(s))[Rest(s)]
      OBVIOUS
    <3>2. At(s)[s] = IF s = {} THEN 0 ELSE f[Pick(s)] + At(s)[Rest(s)]
      <4> HIDE DEF At
      <4> QED
        BY <2>1, <2>2, SumsValue
    <3>3. CASE s = {}
      BY <3>1, <3>2, <3>3
    <3>4. CASE s # {}
      <4>1. Rest(s) \in SUBSET T /\ Rest(s) # T /\ Rest(s) \subseteq s
        BY <3>4, PickIn
      <4>2. Sums(At(s), f, s) /\ Sums(At(Rest(s)), f, Rest(s))
        <5> HIDE DEF At, Rest
        <5> QED
          BY <2>1, <2>2, <4>1
      <4>3. IsFiniteSet(Rest(s))
        BY <4>1, FS_Subset
      <4> HIDE DEF At, Rest
      <4>4. At(s)[Rest(s)] = At(Rest(s))[Rest(s)]
        BY <4>1, <4>2, <4>3, SumsUnique
      <4> QED
        BY <3>1, <3>2, <3>4, <4>4
    <3> QED
      BY <3>3, <3>4
  <2>3. ASSUME NEW s \in SUBSET T
        PROVE  g[s] = IF s = {} THEN 0 ELSE f[Pick(s)] + g[Rest(s)]
    <3>1. g[s] = IF s = {} THEN 0 ELSE f[Pick(s)] + At(Rest(s))[Rest(s)]
      OBVIOUS
    <3>2. s # {} => Rest(s) \in SUBSET T /\ Rest(s) # T
      BY PickIn
    <3> HIDE DEF At, Rest, g
    <3> QED
      BY <2>2, <3>1, <3>2
  <2>4. g = [s \in SUBSET T |-> g[s]]
    OBVIOUS
  <2> HIDE DEF g
  <2>5. g = [s \in SUBSET T |-> IF s = {} THEN 0 ELSE f[Pick(s)] + g[s \ {Pick(s)}]]
    BY <2>3, <2>4
  <2> QED
    BY <2>5 DEF Sums
<1>2. Good \in SUBSET (SUBSET S)
  OBVIOUS
<1>3. S \in Good
  <2> HIDE DEF Good
  <2> QED
    BY <1>1, <1>2, FiniteInduction
<1> QED
  BY <1>3

(* Nothing adds up to zero.                                                *)
LEMMA SumOfNone == ASSUME NEW f PROVE SumFunctionOnSet(f, {}) = 0
<1>1. \E g : Sums(g, f, {})
  BY SumsExist, FS_EmptySet
<1> QED
  BY <1>1, SumDefined, SumsValue

(* A sum is one summand and the sum of the rest.                           *)
LEMMA SumPicked ==
    ASSUME NEW f, NEW S, IsFiniteSet(S), S # {}
    PROVE  SumFunctionOnSet(f, S) = f[Pick(S)] + SumFunctionOnSet(f, S \ {Pick(S)})
<1> DEFINE T == S \ {Pick(S)}
           g == CHOOSE x : Sums(x, f, S)
           h == CHOOSE x : Sums(x, f, T)
<1>1. IsFiniteSet(T)
  BY FS_Subset
<1>2. Sums(g, f, S) /\ Sums(h, f, T)
  BY <1>1, SumsExist
<1>3. g[S] = f[Pick(S)] + g[T]
  <2> HIDE DEF g
  <2> QED
    BY <1>2, SumsValue
<1>4. T \subseteq S /\ T \subseteq T
  OBVIOUS
<1>5. SumFunctionOnSet(f, S) = g[S] /\ SumFunctionOnSet(f, T) = h[T]
  BY SumDefined
<1> HIDE DEF g, h, T
<1>6. g[T] = h[T]
  BY <1>1, <1>2, <1>4, SumsUnique
<1>7. SumFunctionOnSet(f, S) = f[Pick(S)] + SumFunctionOnSet(f, T)
  BY <1>3, <1>5, <1>6
<1> QED
  BY <1>7 DEF T

(* Integers add up to an integer.                                          *)
LEMMA SumType ==
    ASSUME NEW S, IsFiniteSet(S), NEW f, \A x \in S : f[x] \in Int
    PROVE  SumFunctionOnSet(f, S) \in Int
<1> DEFINE Good == {s \in SUBSET S : SumFunctionOnSet(f, s) \in Int}
<1>1. ASSUME NEW s \in SUBSET S, \A x \in s : s \ {x} \in Good PROVE s \in Good
  <2>1. CASE s = {}
    BY <2>1, SumOfNone
  <2>2. CASE s # {}
    <3>1. IsFiniteSet(s) /\ Pick(s) \in s
      BY <2>2, FS_Subset, PickIn
    <3>2. SumFunctionOnSet(f, s \ {Pick(s)}) \in Int /\ f[Pick(s)] \in Int
      BY <1>1, <3>1
    <3> QED
      BY <2>2, <3>1, <3>2, SumPicked
  <2> QED
    BY <2>1, <2>2
<1>2. Good \in SUBSET (SUBSET S)
  OBVIOUS
<1>3. S \in Good
  <2> HIDE DEF Good
  <2> QED
    BY <1>1, <1>2, FiniteInduction
<1> QED
  BY <1>3

(* Any element may be taken out first.                                     *)
LEMMA SumRemove ==
    ASSUME NEW S, IsFiniteSet(S), NEW f, \A x \in S : f[x] \in Int
    PROVE  \A x \in S : SumFunctionOnSet(f, S) = f[x] + SumFunctionOnSet(f, S \ {x})
<1> DEFINE Sum(s) == SumFunctionOnSet(f, s)
           Good == {s \in SUBSET S : \A x \in s : Sum(s) = f[x] + Sum(s \ {x})}
<1>0. ASSUME NEW s \in SUBSET S PROVE Sum(s) \in Int /\ IsFiniteSet(s)
  <2>1. IsFiniteSet(s) /\ \A x \in s : f[x] \in Int
    BY FS_Subset
  <2> QED
    BY <2>1, SumType
<1>1. ASSUME NEW s \in SUBSET S, \A x \in s : s \ {x} \in Good PROVE s \in Good
  <2> SUFFICES ASSUME NEW x \in s PROVE Sum(s) = f[x] + Sum(s \ {x})
    OBVIOUS
  <2>1. PICK y \in s : y = Pick(s)
    BY PickIn
  <2>2. Sum(s) = f[y] + Sum(s \ {y})
    BY <1>0, <2>1, SumPicked
  <2>3. CASE x = y
    <3> HIDE DEF Sum
    <3> QED
      BY <2>2, <2>3, Zenon
  <2>4. CASE x # y
    <3>1. Sum(s \ {y}) = f[x] + Sum((s \ {y}) \ {x})
      BY <1>1, <2>4
    <3>2. Sum(s \ {x}) = f[y] + Sum((s \ {x}) \ {y})
      BY <1>1, <2>4
    <3>3. (s \ {y}) \ {x} = (s \ {x}) \ {y}
      OBVIOUS
    <3> HIDE DEF Sum
    <3> DEFINE rest == Sum((s \ {x}) \ {y})
    <3>4. Sum(s \ {y}) = f[x] + rest
      BY <3>1, <3>3, Zenon
    <3>5. rest \in Int /\ f[x] \in Int /\ f[y] \in Int
      BY <1>0
    <3>6. Sum(s) = f[y] + (f[x] + rest)
      BY <2>2, <3>4, Zenon
    <3>7. Sum(s \ {x}) = f[y] + rest
      BY <3>2, Zenon
    <3> HIDE DEF rest
    <3> QED
      BY <3>5, <3>6, <3>7
  <2> QED
    BY <2>3, <2>4
<1>2. Good \in SUBSET (SUBSET S)
  OBVIOUS
<1>3. S \in Good
  <2> HIDE DEF Good
  <2> QED
    BY <1>1, <1>2, FiniteInduction
<1> QED
  BY <1>3

(* A sum of sums: h adds up f and g.                                       *)
LEMMA SumOfSums ==
    ASSUME NEW S, IsFiniteSet(S), NEW f, NEW g, NEW h,
           \A x \in S : f[x] \in Int /\ g[x] \in Int /\ h[x] = f[x] + g[x]
    PROVE  SumFunctionOnSet(h, S) = SumFunctionOnSet(f, S) + SumFunctionOnSet(g, S)
<1> DEFINE Good == {s \in SUBSET S :
             SumFunctionOnSet(h, s) = SumFunctionOnSet(f, s) + SumFunctionOnSet(g, s)}
<1>1. ASSUME NEW s \in SUBSET S, \A x \in s : s \ {x} \in Good PROVE s \in Good
  <2>1. CASE s = {}
    BY <2>1, SumOfNone
  <2>2. CASE s # {}
    <3> DEFINE x == Pick(s)
               t == s \ {x}
    <3>1. IsFiniteSet(s) /\ x \in s /\ t \in SUBSET S /\ IsFiniteSet(t)
      BY <2>2, FS_Subset, PickIn
    <3>2. /\ SumFunctionOnSet(f, s) = f[x] + SumFunctionOnSet(f, t)
          /\ SumFunctionOnSet(g, s) = g[x] + SumFunctionOnSet(g, t)
          /\ SumFunctionOnSet(h, s) = h[x] + SumFunctionOnSet(h, t)
      BY <2>2, <3>1, SumPicked
    <3>3. SumFunctionOnSet(h, t) = SumFunctionOnSet(f, t) + SumFunctionOnSet(g, t)
      BY <1>1, <3>1
    <3>4. SumFunctionOnSet(f, t) \in Int
      BY <3>1, SumType
    <3>5. SumFunctionOnSet(g, t) \in Int
      BY <3>1, SumType
    <3>6. h[x] = f[x] + g[x] /\ f[x] \in Int /\ g[x] \in Int
      BY <3>1
    <3> HIDE DEF x, t
    <3> QED
      BY <3>2, <3>3, <3>4, <3>5, <3>6
  <2> QED
    BY <2>1, <2>2
<1>2. Good \in SUBSET (SUBSET S)
  OBVIOUS
<1>3. S \in Good
  <2> HIDE DEF Good
  <2> QED
    BY <1>1, <1>2, FiniteInduction
<1> QED
  BY <1>3

(* Only zero is its own double.                                            *)
LEMMA OwnDouble == \A n \in Int : n = n + n => n = 0
  OBVIOUS

(* Zeros add up to zero.                                                   *)
LEMMA SumOfZeros ==
    ASSUME NEW S, IsFiniteSet(S), NEW f, \A x \in S : f[x] = 0
    PROVE  SumFunctionOnSet(f, S) = 0
<1> DEFINE n == SumFunctionOnSet(f, S)
<1>1. \A x \in S : f[x] \in Int /\ f[x] \in Int /\ f[x] = f[x] + f[x]
  OBVIOUS
<1>2. n \in Int
  BY <1>1, SumType
<1>3. n = n + n
  BY <1>1, SumOfSums
<1>4. n = 0
  <2> HIDE DEF n
  <2> QED
    BY <1>2, <1>3, OwnDouble, Zenon
<1> QED
  BY <1>4

(* What agrees on S has the same sum over S.                               *)
LEMMA SameSum ==
    ASSUME NEW S, IsFiniteSet(S), NEW f, NEW g, \A x \in S : f[x] \in Int /\ f[x] = g[x]
    PROVE  SumFunctionOnSet(f, S) = SumFunctionOnSet(g, S)
<1> DEFINE z == [x \in S |-> 0]
<1>1. \A x \in S : g[x] \in Int /\ z[x] \in Int /\ f[x] = g[x] + z[x]
  OBVIOUS
<1>2. SumFunctionOnSet(z, S) = 0
  BY SumOfZeros
<1>3. SumFunctionOnSet(g, S) \in Int
  BY SumType
<1> HIDE DEF z
<1>4. SumFunctionOnSet(f, S) = SumFunctionOnSet(g, S) + SumFunctionOnSet(z, S)
  BY <1>1, SumOfSums
<1> QED
  BY <1>2, <1>3, <1>4

(* Natural numbers add up to a natural number.                             *)
LEMMA SumOfNaturals ==
    ASSUME NEW S, IsFiniteSet(S), NEW f, \A x \in S : f[x] \in Nat
    PROVE  SumFunctionOnSet(f, S) \in Nat
<1> DEFINE Good == {s \in SUBSET S : SumFunctionOnSet(f, s) \in Nat}
<1>1. ASSUME NEW s \in SUBSET S, \A x \in s : s \ {x} \in Good PROVE s \in Good
  <2>1. CASE s = {}
    BY <2>1, SumOfNone
  <2>2. CASE s # {}
    <3>1. IsFiniteSet(s) /\ Pick(s) \in s
      BY <2>2, FS_Subset, PickIn
    <3>2. SumFunctionOnSet(f, s \ {Pick(s)}) \in Nat /\ f[Pick(s)] \in Nat
      BY <1>1, <3>1
    <3> QED
      BY <2>2, <3>1, <3>2, SumPicked
  <2> QED
    BY <2>1, <2>2
<1>2. Good \in SUBSET (SUBSET S)
  OBVIOUS
<1>3. S \in Good
  <2> HIDE DEF Good
  <2> QED
    BY <1>1, <1>2, FiniteInduction
<1> QED
  BY <1>3

(* A sum of naturals is at least each of them.                             *)
LEMMA SumCovers ==
    ASSUME NEW S, IsFiniteSet(S), NEW f, \A x \in S : f[x] \in Nat
    PROVE  \A x \in S : f[x] <= SumFunctionOnSet(f, S)
<1> TAKE x \in S
<1>1. \A y \in S : f[y] \in Int
  OBVIOUS
<1>2. SumFunctionOnSet(f, S) = f[x] + SumFunctionOnSet(f, S \ {x})
  BY <1>1, SumRemove
<1>3. IsFiniteSet(S \ {x})
  BY FS_RemoveElement
<1>4. SumFunctionOnSet(f, S \ {x}) \in Nat
  BY <1>3, SumOfNaturals
<1> QED
  BY <1>2, <1>4

(* Only one summand changes.                                               *)
LEMMA SumChanged ==
    ASSUME NEW S, IsFiniteSet(S), NEW f, NEW g, \A x \in S : f[x] \in Int /\ g[x] \in Int
    PROVE  \A x \in S : (\A y \in S \ {x} : g[y] = f[y]) =>
             SumFunctionOnSet(g, S) = SumFunctionOnSet(f, S) - f[x] + g[x]
<1> SUFFICES ASSUME NEW x \in S, \A y \in S \ {x} : g[y] = f[y]
             PROVE  SumFunctionOnSet(g, S) = SumFunctionOnSet(f, S) - f[x] + g[x]
  OBVIOUS
<1> DEFINE T == S \ {x}
<1>1. IsFiniteSet(T) /\ \A y \in T : g[y] \in Int /\ f[y] \in Int /\ g[y] = f[y]
  BY FS_RemoveElement
<1>2. SumFunctionOnSet(f, S) = f[x] + SumFunctionOnSet(f, T)
  BY SumRemove
<1>3. SumFunctionOnSet(g, S) = g[x] + SumFunctionOnSet(g, T)
  BY SumRemove
<1> HIDE DEF T
<1>4. SumFunctionOnSet(f, T) = SumFunctionOnSet(g, T)
  BY <1>1, SameSum
<1>5. SumFunctionOnSet(f, T) \in Int
  BY <1>1, SumType
<1> QED
  BY <1>2, <1>3, <1>4, <1>5

(* What is nought elsewhere may be summed over the part where it is not.   *)
LEMMA SumOverPart ==
    ASSUME NEW S, IsFiniteSet(S), NEW f, \A x \in S : f[x] \in Int,
           NEW T \in SUBSET S, \A x \in S \ T : f[x] = 0
    PROVE  SumFunctionOnSet(f, S) = SumFunctionOnSet(f, T)
<1> DEFINE Sum(s) == SumFunctionOnSet(f, s)
           Good == {s \in SUBSET S : Sum(s) = Sum(s \cap T)}
<1>0. ASSUME NEW s \in SUBSET S PROVE Sum(s) \in Int /\ IsFiniteSet(s)
  <2>1. IsFiniteSet(s) /\ \A x \in s : f[x] \in Int
    BY FS_Subset
  <2> QED BY <2>1, SumType
<1>1. ASSUME NEW s \in SUBSET S, \A x \in s : s \ {x} \in Good PROVE s \in Good
  <2>1. CASE s = {}
    BY <2>1
  <2>2. CASE s # {}
    <3>1. PICK x \in s : TRUE
      BY <2>2
    <3>2. \A y \in s : Sum(s) = f[y] + Sum(s \ {y})
      <4>1. IsFiniteSet(s) /\ \A y \in s : f[y] \in Int
        BY <1>0
      <4> QED BY <4>1, SumRemove
    <3>3. Sum(s \ {x}) = Sum((s \ {x}) \cap T) /\ Sum(s) = f[x] + Sum(s \ {x})
      BY <1>1, <3>1, <3>2
    <3>4. CASE x \in T
      <4>1. IsFiniteSet(s \cap T) /\ \A y \in s \cap T : f[y] \in Int
        BY <1>0
      <4>2. \A y \in s \cap T : Sum(s \cap T) = f[y] + Sum((s \cap T) \ {y})
        BY <4>1, SumRemove
      <4>3. (s \cap T) \ {x} = (s \ {x}) \cap T
        OBVIOUS
      <4> QED BY <3>3, <3>4, <4>2, <4>3
    <3>5. CASE x \notin T
      <4>1. f[x] = 0 /\ (s \ {x}) \cap T = s \cap T /\ s \ {x} \in SUBSET S
        BY <3>5
      <4>2. Sum(s \ {x}) \in Int
        BY <4>1, <1>0
      <4>3. Sum((s \ {x}) \cap T) = Sum(s \cap T)
        BY <4>1
      <4>4. Sum(s) = 0 + Sum(s \ {x})
        BY <3>3, <4>1
      <4>5. Sum(s) = Sum(s \ {x})
        BY <4>2, <4>4
      <4> QED BY <3>3, <4>3, <4>5
    <3> QED BY <3>4, <3>5
  <2> QED BY <2>1, <2>2
<1>2. S \in Good
  <2> HIDE DEF Good
  <2>1. Good \in SUBSET (SUBSET S)
    BY DEF Good
  <2> QED BY <1>1, <2>1, FiniteInduction
<1>3. S \cap T = T
  OBVIOUS
<1> QED BY <1>2, <1>3
=============================================================================
