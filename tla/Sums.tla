-------------------------------- MODULE Sums --------------------------------
(***************************************************************************)
(* Sums over finite sets, for the proofs about money: what the community   *)
(* modules' SumFunctionOnSet, which takes the elements one by one in an    *)
(* order of its own choosing, does when an element or a value changes.     *)
(***************************************************************************)
EXTENDS Functions, FiniteSetTheorems, TLAPS

(* Induction, for a set of numbers: the least number outside it.           *)
LEMMA Induct ==
    ASSUME NEW N, N \subseteq Nat, 0 \in N, \A n \in N : n + 1 \in N
    PROVE  N = Nat
<1>. SUFFICES ASSUME N # Nat PROVE FALSE
  OBVIOUS
<1>. DEFINE T == Nat \ N
<1>1. T \subseteq Nat /\ T # {}
  OBVIOUS
<1>. DEFINE R == OpToRel(<, Nat)
<1>2. IsWellFoundedOn(R, Nat)
  BY NatLessThanWellFounded
<1>3. \A x, y \in Nat : x < y => <<x, y>> \in R
  BY DEF OpToRel
<1>. HIDE DEF R
<1>4. PICK m \in T : \A y \in T : ~ (<<y, m>> \in R)
  BY <1>1, <1>2, WFMin
<1>5. m \in Nat \ {0} /\ m - 1 \in Nat /\ m - 1 < m
  BY <1>4
<1>6. m - 1 \in N
  BY <1>3, <1>4, <1>5
<1>. QED  BY <1>4, <1>5, <1>6
-----------------------------------------------------------------------------
(* The definition, unfolded: g gives the sum of f over each subset of S.   *)
Pick(s)         == CHOOSE x \in s : TRUE
Unfold(f, g, s) == IF s = {} THEN 0 ELSE f[Pick(s)] + g[s \ {Pick(s)}]
Adds(f, g, S)   == g = [s \in SUBSET S |-> Unfold(f, g, s)]

LEMMA SumIs ==
    ASSUME NEW f, NEW S
    PROVE  SumFunctionOnSet(f, S) = (CHOOSE g : Adds(f, g, S))[S]
  BY DEF SumFunctionOnSet, FoldFunctionOnSet, MapThenFoldSet, Adds, Unfold, Pick

LEMMA PickIn == \A s : s # {} => Pick(s) \in s
  BY DEF Pick

(* A subset of a finite set, and what is left of it without one element.   *)
LEMMA LessOne ==
    ASSUME NEW S, IsFiniteSet(S), NEW s \in SUBSET S, NEW x \in s
    PROVE  /\ s \ {x} \in SUBSET S
           /\ IsFiniteSet(s) /\ Cardinality(s) \in Nat \ {0}
           /\ Cardinality(s \ {x}) = Cardinality(s) - 1
<1>1. IsFiniteSet(s) /\ Cardinality(s) \in Nat
  BY FS_Subset, FS_CardinalityType
<1>2. Cardinality(s \ {x}) = Cardinality(s) - 1
  BY <1>1, FS_RemoveElement
<1>3. Cardinality(s) # 0
  BY <1>1, FS_EmptySet
<1>. QED  BY <1>1, <1>2, <1>3

LEMMA Sizes ==
    ASSUME NEW S, IsFiniteSet(S), NEW s \in SUBSET S
    PROVE  /\ IsFiniteSet(s) /\ Cardinality(s) \in Nat
           /\ Cardinality(s) = 0 <=> s = {}
           /\ Cardinality(s) <= Cardinality(S)
  BY FS_Subset, FS_CardinalityType, FS_EmptySet

(* There is such a g, ...                                                  *)
LEMMA AddsExists ==
    ASSUME NEW f, NEW S, IsFiniteSet(S)
    PROVE  \E g : Adds(f, g, S)
<1>. DEFINE UpTo(g, n) == \A s \in SUBSET S : Cardinality(s) <= n => g[s] = Unfold(f, g, s)
            Fun(g) == g = [s \in SUBSET S |-> g[s]]
            N == {n \in Nat : \E g : Fun(g) /\ UpTo(g, n)}
<1>1. 0 \in N
  <2>. DEFINE g == [s \in SUBSET S |-> 0]
  <2>1. Fun(g)
    OBVIOUS
  <2>2. UpTo(g, 0)
    BY Sizes DEF Unfold
  <2>. HIDE DEF g
  <2>. QED  BY <2>1, <2>2
<1>2. ASSUME NEW n \in N PROVE n + 1 \in N
  <2>1. PICK g : Fun(g) /\ UpTo(g, n)
    BY <1>2
  <2>. DEFINE h == [s \in SUBSET S |-> IF Cardinality(s) <= n THEN g[s] ELSE Unfold(f, g, s)]
  <2>2. Fun(h)
    OBVIOUS
  <2>3. \A s \in SUBSET S : h[s] = Unfold(f, g, s) \/ Cardinality(s) > n + 1
    BY <2>1
  <2>4. ASSUME NEW s \in SUBSET S, Cardinality(s) <= n + 1 PROVE Unfold(f, h, s) = Unfold(f, g, s)
    <3>1. CASE s = {}
      BY <3>1 DEF Unfold
    <3>2. CASE s # {}
      <4>. DEFINE t == s \ {Pick(s)}
      <4>1. t \in SUBSET S /\ Cardinality(t) = Cardinality(s) - 1 /\ Cardinality(s) \in Nat
        BY <3>2, PickIn, LessOne
      <4>2. Cardinality(t) <= n
        BY <2>4, <4>1
      <4>3. h[t] = g[t]
        BY <4>1, <4>2
      <4>. QED  BY <4>3 DEF Unfold
    <3>. QED  BY <3>1, <3>2
  <2>5. UpTo(h, n + 1)
    <3>1. ASSUME NEW s \in SUBSET S, Cardinality(s) <= n + 1 PROVE h[s] = Unfold(f, g, s)
      BY <2>1, <3>1
    <3>. HIDE DEF h
    <3>. QED  BY <2>4, <3>1
  <2>. HIDE DEF h, UpTo, Fun
  <2>. QED  BY <2>2, <2>5
<1>. HIDE DEF N
<1>3. N = Nat
  BY <1>1, <1>2, Induct DEF N
<1>4. PICK g : Fun(g) /\ UpTo(g, Cardinality(S))
  BY <1>3, FS_CardinalityType DEF N
<1>5. \A s \in SUBSET S : g[s] = Unfold(f, g, s)
  BY <1>4, Sizes
<1>6. [s \in SUBSET S |-> g[s]] = [s \in SUBSET S |-> Unfold(f, g, s)]
  BY <1>5
<1>. QED  BY <1>4, <1>6 DEF Adds

(* ... and it depends on nothing but what is summed.                       *)
LEMMA AddsAgree ==
    ASSUME NEW f, NEW S, IsFiniteSet(S), NEW g, Adds(f, g, S),
           NEW e, NEW T, NEW h, Adds(e, h, T),
           NEW s \in SUBSET S, s \in SUBSET T, \A x \in s : f[x] = e[x]
    PROVE  g[s] = h[s]
<1>. DEFINE N == {n \in Nat : \A t \in SUBSET s : Cardinality(t) = n => g[t] = h[t]}
<1>0. \A t \in SUBSET s : g[t] = Unfold(f, g, t) /\ h[t] = Unfold(e, h, t)
  BY DEF Adds
<1>1. 0 \in N
  BY <1>0, Sizes DEF Unfold
<1>2. ASSUME NEW n \in N PROVE n + 1 \in N
  <2>1. ASSUME NEW t \in SUBSET s, Cardinality(t) = n + 1 PROVE g[t] = h[t]
    <3>1. t # {} /\ t \in SUBSET S
      BY <2>1, Sizes
    <3>. DEFINE p == Pick(t)
    <3>2. p \in t /\ Cardinality(t \ {p}) = n /\ t \ {p} \in SUBSET s
      BY <2>1, <3>1, PickIn, LessOne
    <3>3. g[t \ {p}] = h[t \ {p}]
      BY <1>2, <3>2
    <3>. QED  BY <1>0, <3>1, <3>2, <3>3 DEF Unfold
  <2>. QED  BY <2>1
<1>. HIDE DEF N
<1>3. N = Nat
  BY <1>1, <1>2, Induct DEF N
<1>. QED  BY <1>3, Sizes DEF N
-----------------------------------------------------------------------------
(* The recursion.                                                          *)
LEMMA SumUnfold ==
    ASSUME NEW f, NEW S, IsFiniteSet(S)
    PROVE  /\ S = {} => SumFunctionOnSet(f, S) = 0
           /\ S # {} => SumFunctionOnSet(f, S) = f[Pick(S)] + SumFunctionOnSet(f, S \ {Pick(S)})
<1>. DEFINE g(T) == CHOOSE h : Adds(f, h, T)
<1>1. \A T : IsFiniteSet(T) => Adds(f, g(T), T) /\ SumFunctionOnSet(f, T) = g(T)[T]
  BY AddsExists, SumIs
<1>. HIDE DEF g
<1>2. g(S)[S] = Unfold(f, g(S), S)
  BY <1>1 DEF Adds
<1>3. ASSUME S # {} PROVE g(S)[S \ {Pick(S)}] = SumFunctionOnSet(f, S \ {Pick(S)})
  <2>. DEFINE T == S \ {Pick(S)}
  <2>1. IsFiniteSet(T) /\ T \in SUBSET S
    BY FS_RemoveElement
  <2>2. g(S)[T] = g(T)[T]
    BY <1>1, <2>1, AddsAgree
  <2>. QED  BY <1>1, <2>1, <2>2
<1>. QED  BY <1>1, <1>2, <1>3 DEF Unfold

LEMMA SumType ==
    ASSUME NEW f, NEW S, IsFiniteSet(S), \A x \in S : f[x] \in Int
    PROVE  SumFunctionOnSet(f, S) \in Int
<1>. DEFINE Sum(s) == SumFunctionOnSet(f, s)
            N == {n \in Nat : \A s \in SUBSET S : Cardinality(s) = n => Sum(s) \in Int}
<1>u. \A s \in SUBSET S : IF s = {} THEN Sum(s) = 0 ELSE Sum(s) = f[Pick(s)] + Sum(s \ {Pick(s)})
  BY Sizes, SumUnfold
<1>. HIDE DEF Sum
<1>1. 0 \in N
  <2>1. Sum({}) = 0
    BY <1>u
  <2>2. \A s \in SUBSET S : Cardinality(s) = 0 => s = {}
    BY Sizes
  <2>. QED  BY <2>1, <2>2
<1>2. ASSUME NEW n \in N PROVE n + 1 \in N
  <2>1. ASSUME NEW s \in SUBSET S, Cardinality(s) = n + 1 PROVE Sum(s) \in Int
    <3>1. s # {}
      BY <2>1, Sizes
    <3>. DEFINE p == Pick(s)
    <3>2. p \in s
      BY <3>1, PickIn
    <3>3. s \ {p} \in SUBSET S /\ Cardinality(s \ {p}) = n
      BY <2>1, <3>2, LessOne
    <3>4. Sum(s \ {p}) \in Int /\ f[p] \in Int
      BY <1>2, <3>2, <3>3
    <3>. QED  BY <1>u, <3>1, <3>4
  <2>. QED  BY <2>1
<1>. HIDE DEF N
<1>3. N = Nat
  BY <1>1, <1>2, Induct DEF N
<1>. QED  BY <1>3, Sizes DEF N, Sum

(* An element may be taken out first, whichever.                           *)
LEMMA SumAny ==
    ASSUME NEW f, NEW S, IsFiniteSet(S), \A x \in S : f[x] \in Int, NEW y \in S
    PROVE  SumFunctionOnSet(f, S) = f[y] + SumFunctionOnSet(f, S \ {y})
<1>. DEFINE Sum(s) == SumFunctionOnSet(f, s)
            N == {n \in Nat : \A s \in SUBSET S : Cardinality(s) = n =>
                                 \A x \in s : Sum(s) = f[x] + Sum(s \ {x})}
<1>t. \A s \in SUBSET S : Sum(s) \in Int
  BY Sizes, SumType
<1>u. \A s \in SUBSET S : s # {} => Sum(s) = f[Pick(s)] + Sum(s \ {Pick(s)})
  BY Sizes, SumUnfold
<1>. HIDE DEF Sum
<1>1. 0 \in N
  BY Sizes
<1>2. ASSUME NEW n \in N PROVE n + 1 \in N
  <2>1. ASSUME NEW s \in SUBSET S, Cardinality(s) = n + 1, NEW x \in s
        PROVE  Sum(s) = f[x] + Sum(s \ {x})
    <3>. DEFINE p == Pick(s)
                both == (s \ {p}) \ {x}
    <3>1. /\ p \in s /\ s \ {p} \in SUBSET S /\ Cardinality(s \ {p}) = n
          /\ s \ {x} \in SUBSET S /\ Cardinality(s \ {x}) = n
      BY <2>1, PickIn, LessOne
    <3>2. Sum(s) = f[p] + Sum(s \ {p})
      BY <1>u
    <3>3. CASE p = x
      BY <3>2, <3>3
    <3>4. CASE p # x
      <4>1. Sum(s \ {p}) = f[x] + Sum(both)
        BY <1>2, <3>1, <3>4
      <4>2. (s \ {x}) \ {p} = both
        OBVIOUS
      <4>3. Sum(s \ {x}) = f[p] + Sum(both)
        BY <1>2, <3>1, <3>4, <4>2
      <4>4. Sum(both) \in Int /\ f[p] \in Int /\ f[x] \in Int
        BY <1>t, <3>1
      <4>. QED  BY <3>2, <4>1, <4>3, <4>4
    <3>. QED  BY <3>3, <3>4
  <2>. QED  BY <2>1
<1>. HIDE DEF N
<1>3. N = Nat
  BY <1>1, <1>2, Induct DEF N
<1>. QED  BY <1>3, Sizes DEF N, Sum

LEMMA SumEmpty == \A f : SumFunctionOnSet(f, {}) = 0
  BY FS_EmptySet, SumUnfold

LEMMA SumAdd ==
    ASSUME NEW f, NEW S, IsFiniteSet(S), \A x \in S : f[x] \in Int,
           NEW y, y \notin S, f[y] \in Int
    PROVE  SumFunctionOnSet(f, S \cup {y}) = SumFunctionOnSet(f, S) + f[y]
<1>1. IsFiniteSet(S \cup {y}) /\ (S \cup {y}) \ {y} = S
  BY FS_AddElement
<1>2. SumFunctionOnSet(f, S \cup {y}) = f[y] + SumFunctionOnSet(f, S)
  BY <1>1, SumAny
<1>. QED  BY <1>2, SumType

LEMMA SumSame ==
    ASSUME NEW f, NEW e, NEW S, IsFiniteSet(S), \A x \in S : f[x] = e[x]
    PROVE  SumFunctionOnSet(f, S) = SumFunctionOnSet(e, S)
<1>. DEFINE g == CHOOSE h : Adds(f, h, S)
            d == CHOOSE h : Adds(e, h, S)
<1>1. Adds(f, g, S) /\ Adds(e, d, S)
  BY AddsExists
<1>2. SumFunctionOnSet(f, S) = g[S] /\ SumFunctionOnSet(e, S) = d[S]
  BY SumIs
<1>. HIDE DEF g, d
<1>. QED  BY <1>1, <1>2, AddsAgree

(* One value changes.                                                      *)
LEMMA SumChange ==
    ASSUME NEW f, NEW e, NEW S, IsFiniteSet(S),
           \A x \in S : f[x] \in Int /\ e[x] \in Int,
           NEW y \in S, \A x \in S : x # y => e[x] = f[x]
    PROVE  SumFunctionOnSet(e, S) = SumFunctionOnSet(f, S) + (e[y] - f[y])
<1>1. IsFiniteSet(S \ {y}) /\ S \ {y} \in SUBSET S
  BY FS_RemoveElement
<1>2. SumFunctionOnSet(e, S \ {y}) = SumFunctionOnSet(f, S \ {y})
  BY <1>1, SumSame
<1>3. SumFunctionOnSet(f, S) = f[y] + SumFunctionOnSet(f, S \ {y})
  BY SumAny
<1>4. SumFunctionOnSet(e, S) = e[y] + SumFunctionOnSet(e, S \ {y})
  BY SumAny
<1>5. SumFunctionOnSet(f, S \ {y}) \in Int
  BY <1>1, SumType
<1>. QED  BY <1>2, <1>3, <1>4, <1>5

(* Of what was paid for the ones and received for the others.              *)
LEMMA SumSplit ==
    ASSUME NEW f, NEW p, NEW S, IsFiniteSet(S), \A x \in S : p[x] \in Int,
           NEW P \in SUBSET S, NEW Q \in SUBSET S, P \cap Q = {},
           \A x \in S : f[x] = IF x \in P THEN -p[x] ELSE IF x \in Q THEN p[x] ELSE 0
    PROVE  SumFunctionOnSet(f, S) = SumFunctionOnSet(p, Q) - SumFunctionOnSet(p, P)
<1>. DEFINE F(s) == SumFunctionOnSet(f, s)
            A(s) == SumFunctionOnSet(p, s)
            N == {n \in Nat : \A s \in SUBSET S : Cardinality(s) = n =>
                                 F(s) = A(s \cap Q) - A(s \cap P)}
<1>t. \A s \in SUBSET S : A(s) \in Int
  BY Sizes, SumType
<1>a. ASSUME NEW s \in SUBSET S, NEW x \in S, x \notin s PROVE A(s \cup {x}) = A(s) + p[x]
  BY <1>a, Sizes, SumAdd
<1>b. ASSUME NEW s \in SUBSET S, NEW x \in s PROVE F(s) = f[x] + F(s \ {x})
  <2>1. \A y \in S : f[y] \in Int
    OBVIOUS
  <2>2. IsFiniteSet(s) /\ \A y \in s : f[y] \in Int
    BY <2>1, Sizes
  <2>. QED  BY <2>2, SumAny
<1>e. F({}) = 0 /\ A({}) = 0
  BY SumEmpty
<1>. HIDE DEF F, A
<1>1. 0 \in N
  <2>1. ASSUME NEW s \in SUBSET S, Cardinality(s) = 0 PROVE F(s) = A(s \cap Q) - A(s \cap P)
    <3>1. s = {} /\ s \cap Q = {} /\ s \cap P = {}
      BY <2>1, Sizes
    <3>. QED  BY <1>e, <3>1
  <2>. QED  BY <2>1
<1>2. ASSUME NEW n \in N PROVE n + 1 \in N
  <2>1. ASSUME NEW s \in SUBSET S, Cardinality(s) = n + 1 PROVE F(s) = A(s \cap Q) - A(s \cap P)
    <3>1. PICK x : x \in s
      BY <2>1, Sizes
    <3>. DEFINE t == s \ {x}
    <3>2. t \in SUBSET S /\ Cardinality(t) = n /\ F(s) = f[x] + F(t)
      BY <1>b, <2>1, <3>1, LessOne
    <3>3. F(t) = A(t \cap Q) - A(t \cap P) /\ A(t \cap Q) \in Int /\ A(t \cap P) \in Int
      BY <1>2, <1>t, <3>2
    <3>4. p[x] \in Int /\ x \notin t /\ t \cap Q \in SUBSET S /\ t \cap P \in SUBSET S
      BY <3>1
    <3>5. CASE x \in P
      <4>1. s \cap P = (t \cap P) \cup {x} /\ s \cap Q = t \cap Q
        BY <3>1, <3>5
      <4>2. A(s \cap P) = A(t \cap P) + p[x] /\ f[x] = -p[x]
        BY <1>a, <3>1, <3>4, <3>5, <4>1
      <4>. QED  BY <3>2, <3>3, <3>4, <4>1, <4>2
    <3>6. CASE x \in Q
      <4>1. s \cap Q = (t \cap Q) \cup {x} /\ s \cap P = t \cap P
        BY <3>1, <3>6
      <4>2. A(s \cap Q) = A(t \cap Q) + p[x] /\ f[x] = p[x]
        BY <1>a, <3>1, <3>4, <3>6, <4>1
      <4>. QED  BY <3>2, <3>3, <3>4, <4>1, <4>2
    <3>7. CASE x \notin P \cup Q
      <4>1. s \cap Q = t \cap Q /\ s \cap P = t \cap P /\ f[x] = 0
        BY <3>1, <3>7
      <4>. QED  BY <3>2, <3>3, <4>1
    <3>. QED  BY <3>5, <3>6, <3>7
  <2>. QED  BY <2>1
<1>. HIDE DEF N
<1>3. N = Nat
  BY <1>1, <1>2, Induct DEF N
<1>4. S \cap Q = Q /\ S \cap P = P
  OBVIOUS
<1>. QED  BY <1>3, <1>4, Sizes DEF N, F, A

(* Nothing but zeros.                                                      *)
LEMMA SumZero ==
    ASSUME NEW f, NEW S, IsFiniteSet(S), \A x \in S : f[x] = 0
    PROVE  SumFunctionOnSet(f, S) = 0
<1>. DEFINE none == {}
<1>1. none \in SUBSET S /\ none \cap none = {}
  OBVIOUS
<1>2. /\ \A x \in S : f[x] \in Int
      /\ \A x \in S : f[x] = IF x \in none THEN -f[x] ELSE IF x \in none THEN f[x] ELSE 0
  OBVIOUS
<1>. HIDE DEF none
<1>3. SumFunctionOnSet(f, S) = SumFunctionOnSet(f, none) - SumFunctionOnSet(f, none)
  BY <1>1, <1>2, SumSplit
<1>4. SumFunctionOnSet(f, none) = 0
  BY SumEmpty DEF none
<1>. QED  BY <1>3, <1>4

(* Everything moves up one place; what was at the last one is gone.        *)
LEMMA SumShift ==
    ASSUME NEW f, NEW e, NEW w \in Nat,
           \A t \in 0..w : f[t] \in Int /\ e[t] = IF t = 0 THEN 0 ELSE f[t - 1]
    PROVE  SumFunctionOnSet(e, 0..w) + f[w] = SumFunctionOnSet(f, 0..w)
<1>. DEFINE E(n) == SumFunctionOnSet(e, 0..n)
            F(n) == SumFunctionOnSet(f, 0..n)
            N == {n \in Nat : n <= w => E(n) \in Int /\ E(n) + f[n] = F(n)}
<1>1. \A t \in 0..w : e[t] \in Int
  <2>1. \A t \in 0..w : t = 0 \/ t - 1 \in 0..w
    OBVIOUS
  <2>. QED  BY <2>1
<1>2. \A n \in Nat : IsFiniteSet(0..n)
  BY FS_Interval
<1>3. E(0) = 0 /\ F(0) = f[0]
  <2>1. IsFiniteSet({}) /\ {} \cup {0} = 0..0 /\ 0 \in 0..w /\ \A f1 : SumFunctionOnSet(f1, {}) = 0
    BY FS_EmptySet, SumEmpty
  <2>2. f[0] \in Int /\ e[0] = 0
    BY <2>1
  <2>3. SumFunctionOnSet(e, {} \cup {0}) = SumFunctionOnSet(e, {}) + e[0]
    BY <2>1, <2>2, SumAdd
  <2>4. SumFunctionOnSet(f, {} \cup {0}) = SumFunctionOnSet(f, {}) + f[0]
    BY <2>1, <2>2, SumAdd
  <2>. QED  BY <2>1, <2>2, <2>3, <2>4
<1>4. ASSUME NEW n \in Nat, n + 1 <= w
      PROVE  E(n + 1) = E(n) + f[n] /\ F(n + 1) = F(n) + f[n + 1] /\ E(n) \in Int
  <2>1. 0..(n + 1) = (0..n) \cup {n + 1} /\ n + 1 \notin 0..n /\ n + 1 \in 0..w /\ 0..n \subseteq 0..w
    BY <1>4
  <2>2. e[n + 1] = f[n] /\ n \in 0..w
    <3>1. n + 1 # 0 /\ (n + 1) - 1 = n
      OBVIOUS
    <3>. QED  BY <2>1, <3>1, <1>4
  <2>3. E(n + 1) = E(n) + e[n + 1]
    <3>1. IsFiniteSet(0..n) /\ e[n + 1] \in Int /\ \A t \in 0..n : e[t] \in Int
      BY <1>1, <1>2, <2>1
    <3>2. SumFunctionOnSet(e, (0..n) \cup {n + 1}) = SumFunctionOnSet(e, 0..n) + e[n + 1]
      BY <2>1, <3>1, SumAdd, ZenonT(60)
    <3>. QED  BY <2>1, <3>2
  <2>4. F(n + 1) = F(n) + f[n + 1]
    BY <1>2, <2>1, SumAdd
  <2>5. E(n) \in Int
    BY <1>1, <1>2, <2>1, SumType
  <2>. QED  BY <2>2, <2>3, <2>4, <2>5
<1>. HIDE DEF E, F
<1>5. 0 \in N
  BY <1>3
<1>6. ASSUME NEW n \in N PROVE n + 1 \in N
  <2>1. ASSUME n + 1 <= w PROVE E(n + 1) \in Int /\ E(n + 1) + f[n + 1] = F(n + 1)
    <3>1. n \in Nat /\ n <= w /\ f[n] \in Int /\ f[n + 1] \in Int
      BY <2>1
    <3>2. E(n + 1) = E(n) + f[n] /\ F(n + 1) = F(n) + f[n + 1] /\ E(n) \in Int
      BY <1>4, <2>1, <3>1
    <3>3. E(n) + f[n] = F(n)
      BY <3>1
    <3>. QED  BY <3>1, <3>2, <3>3
  <2>. QED  BY <2>1
<1>. HIDE DEF N
<1>7. N = Nat
  BY <1>5, <1>6, Induct DEF N
<1>8. E(w) + f[w] = F(w)
  BY <1>7 DEF N
<1>. QED  BY <1>8 DEF E, F
=============================================================================
