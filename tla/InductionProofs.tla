-------------------------- MODULE InductionProofs ---------------------------
(***************************************************************************)
(* What the other proofs need of induction: sums over finite sets          *)
(* (SumFunctionOnSet) are well defined, can be taken apart at any element  *)
(* and grow with their terms; a work list that has run as many rounds as   *)
(* there are elements is complete; in a finite order every rank is taken   *)
(* once; a recursion over a counter has a solution; and a loop that        *)
(* applies a monotone function until nothing changes ends at its least     *)
(* fixed point.                                                            *)
(*                                                                         *)
(* Induction is stated for sets of naturals, from the theorem that every   *)
(* set of naturals has a least element, so that no operator has to be      *)
(* instantiated.                                                           *)
(***************************************************************************)
EXTENDS Integers, FiniteSetsExt, FiniteSetTheorems, WellFoundedInduction, TLAPS

\* The least-number principle, for a set of naturals.
LEMMA LeastNatural ==
  ASSUME NEW T \in SUBSET Nat, T # {}
  PROVE  \E m \in T : \A k \in T : m <= k
  <1> DEFINE R == {p \in Nat \X Nat : p[1] < p[2]}
  <1>1. IsWellFoundedOn(OpToRel(<, Nat), Nat)
    BY NatLessThanWellFounded, Zenon
  <1>2. OpToRel(<, Nat) = R
    BY Zenon DEF OpToRel
  <1>3. IsWellFoundedOn(R, Nat)
    BY <1>1, <1>2, Zenon
  <1> HIDE DEF R
  <1>4. PICK x \in T : \A y \in T : ~(<<y, x>> \in R)
    BY <1>3, WFMin, Zenon
  <1>5. ASSUME NEW y \in T
        PROVE  x <= y
    <2>1. x \in Nat /\ y \in Nat
      OBVIOUS
    <2>2. ASSUME y < x PROVE <<y, x>> \in R
      BY <2>1, <2>2 DEF R
    <2> QED
      BY <2>1, <2>2, <1>4
  <1> QED
    BY <1>5

\* A set of naturals with a bound has a greatest element.
LEMMA GreatestNatural ==
  ASSUME NEW T \in SUBSET Nat, T # {}, NEW bound \in Nat, \A n \in T : n <= bound
  PROVE  \E m \in T : \A k \in T : k <= m
  <1>1. PICK D : D = {bound - n : n \in T}
    OBVIOUS
  <1>2. D \in SUBSET Nat /\ D # {}
    <2>1. \A n \in T : bound - n \in Nat
      OBVIOUS
    <2>2. PICK n : n \in T
      OBVIOUS
    <2>3. bound - n \in D
      BY <1>1, <2>2
    <2> QED
      BY <1>1, <2>1, <2>3
  <1>3. PICK d \in D : \A k \in D : d <= k
    BY <1>2, LeastNatural
  <1>4. PICK m \in T : d = bound - m
    BY <1>1, <1>3
  <1>5. ASSUME NEW k \in T
        PROVE  k <= m
    <2>1. bound - k \in D
      BY <1>1
    <2>2. k \in Nat /\ m \in Nat
      OBVIOUS
    <2> QED
      BY <1>3, <1>4, <2>1, <2>2
  <1> QED
    BY <1>5

\* Induction over the naturals for a property given as a set.
LEMMA SetInduction ==
  ASSUME NEW T, 0 \in T, \A n \in Nat : n \in T => n + 1 \in T
  PROVE  Nat \subseteq T
  <1> SUFFICES ASSUME ~(Nat \subseteq T) PROVE FALSE
    OBVIOUS
  <1> DEFINE Bad == Nat \ T
  <1>1. PICK m \in Bad : \A k \in Bad : m <= k
    <2>1. Bad \in SUBSET Nat /\ Bad # {}
      OBVIOUS
    <2> HIDE DEF Bad
    <2> QED
      BY <2>1, LeastNatural
  <1>2. m \in Nat /\ m # 0 /\ m \notin T
    OBVIOUS
  <1>3. m - 1 \in Nat /\ m - 1 \in T
    BY <1>1, <1>2
  <1>4. (m - 1) + 1 \in T
    BY <1>3
  <1> QED
    BY <1>2, <1>4

-----------------------------------------------------------------------------
(* Sums of a function over a finite set *)

\* The element a fold takes next.
Pick(s) == CHOOSE x \in s : TRUE

\* One step of the recursion that a sum is.
SumStep(f, s, rest) == IF s = {} THEN 0 ELSE f[Pick(s)] + rest

\* g is the fold of f over the subsets of S.
IsFold(g, f, S) == g = [s \in SUBSET S |-> SumStep(f, s, g[s \ {Pick(s)}])]

\* The library's sum is the value of such a fold at the whole set.
LEMMA SumIsFold ==
  ASSUME NEW f, NEW S
  PROVE  SumFunctionOnSet(f, S) = (CHOOSE g : IsFold(g, f, S))[S]
  BY Zenon DEF SumFunctionOnSet, FoldFunctionOnSet, MapThenFoldSet, IsFold, SumStep, Pick

\* A set that is not empty contains the element picked.
LEMMA PickIn ==
  ASSUME NEW s, s # {}
  PROVE  Pick(s) \in s
  BY DEF Pick

\* Over a finite set the recursion has a solution.
LEMMA FoldExists ==
  ASSUME NEW f, NEW S, IsFiniteSet(S)
  PROVE  \E g : IsFold(g, f, S)
  <1> DEFINE Upto(g, n) == \A s \in SUBSET S : Cardinality(s) <= n => g[s] = SumStep(f, s, g[s \ {Pick(s)}])
             Good == {n \in Nat : \E g : Upto(g, n)}
  <1>0. \A s \in SUBSET S : IsFiniteSet(s) /\ Cardinality(s) \in Nat /\ Cardinality(s) <= Cardinality(S)
    BY FS_Subset, FS_CardinalityType
  <1>1. 0 \in Good
    <2> DEFINE g0 == [s \in SUBSET S |-> 0]
    <2>1. ASSUME NEW s \in SUBSET S, Cardinality(s) <= 0
          PROVE  s = {}
      BY <1>0, <2>1, FS_EmptySet
    <2>2. Upto(g0, 0)
      BY <2>1 DEF SumStep
    <2> QED
      BY <2>2
  <1>2. ASSUME NEW n \in Nat, n \in Good
        PROVE  n + 1 \in Good
    <2>1. PICK g : Upto(g, n)
      BY <1>2
    <2> DEFINE h == [s \in SUBSET S |-> SumStep(f, s, g[s \ {Pick(s)}])]
    <2>2. ASSUME NEW s \in SUBSET S, Cardinality(s) <= n + 1
          PROVE  h[s] = SumStep(f, s, h[s \ {Pick(s)}])
      <3>1. CASE s = {}
        BY <3>1 DEF SumStep
      <3>2. CASE s # {}
        <4> DEFINE r == s \ {Pick(s)}
        <4>1. Pick(s) \in s
          BY <3>2, PickIn
        <4>2. r \in SUBSET S /\ Cardinality(r) = Cardinality(s) - 1
          BY <4>1, <1>0, FS_RemoveElement
        <4>3. Cardinality(r) <= n
          BY <4>2, <2>2, <1>0
        <4>4. g[r] = SumStep(f, r, g[r \ {Pick(r)}])
          BY <4>2, <4>3, <2>1
        <4>5. h[r] = g[r]
          BY <4>2, <4>4
        <4> HIDE DEF r
        <4>6. h[s] = SumStep(f, s, g[r])
          BY DEF r
        <4> QED
          BY <4>5, <4>6 DEF r
      <3> QED
        BY <3>1, <3>2
    <2> HIDE DEF h
    <2>3. Upto(h, n + 1)
      BY <2>2
    <2> HIDE DEF Upto
    <2> QED
      BY <2>3
  <1> HIDE DEF Good
  <1>3. Nat \subseteq Good
    BY <1>1, <1>2, SetInduction
  <1>4. PICK g : Upto(g, Cardinality(S))
    <2>1. Cardinality(S) \in Good
      BY <1>3, FS_CardinalityType
    <2> QED
      BY <2>1 DEF Good
  <1> DEFINE h == [s \in SUBSET S |-> g[s]]
  <1>5. ASSUME NEW s \in SUBSET S
        PROVE  h[s] = SumStep(f, s, h[s \ {Pick(s)}])
    <2>1. s \ {Pick(s)} \in SUBSET S
      OBVIOUS
    <2>2. g[s] = SumStep(f, s, g[s \ {Pick(s)}])
      BY <1>4, <1>0
    <2> QED
      BY <2>1, <2>2
  <1>6. IsFold(h, f, S)
    BY <1>5 DEF IsFold
  <1> QED
    BY <1>6

\* Two folds of the same function agree on the subsets they share.
LEMMA FoldUnique ==
  ASSUME NEW f, NEW S, IsFiniteSet(S), NEW T \in SUBSET S, NEW g, NEW h,
         IsFold(g, f, S), IsFold(h, f, T)
  PROVE  \A s \in SUBSET T : g[s] = h[s]
  <1> DEFINE Same == {n \in Nat : \A s \in SUBSET T : Cardinality(s) <= n => g[s] = h[s]}
  <1>0. \A s \in SUBSET T : IsFiniteSet(s) /\ Cardinality(s) \in Nat
    BY FS_Subset, FS_CardinalityType
  <1>1. \A s \in SUBSET T :
            /\ g[s] = SumStep(f, s, g[s \ {Pick(s)}])
            /\ h[s] = SumStep(f, s, h[s \ {Pick(s)}])
    BY DEF IsFold
  <1>2. 0 \in Same
    <2>1. ASSUME NEW s \in SUBSET T, Cardinality(s) <= 0
          PROVE  g[s] = h[s]
      <3>1. s = {}
        BY <1>0, <2>1, FS_EmptySet
      <3> QED
        BY <1>1, <3>1 DEF SumStep
    <2> QED
      BY <2>1
  <1>3. ASSUME NEW n \in Nat, n \in Same
        PROVE  n + 1 \in Same
    <2>1. ASSUME NEW s \in SUBSET T, Cardinality(s) <= n + 1, s # {}
          PROVE  g[s] = h[s]
      <3> DEFINE r == s \ {Pick(s)}
      <3>1. Pick(s) \in s
        BY <2>1, PickIn
      <3>2. r \in SUBSET T /\ Cardinality(r) = Cardinality(s) - 1
        BY <3>1, <1>0, FS_RemoveElement
      <3>3. g[r] = h[r]
        BY <3>2, <2>1, <1>0, <1>3
      <3> QED
        BY <3>3, <1>1
    <2>2. ASSUME NEW s \in SUBSET T, s = {}
          PROVE  g[s] = h[s]
      BY <1>1, <2>2 DEF SumStep
    <2> QED
      BY <2>1, <2>2
  <1> HIDE DEF Same
  <1>4. Nat \subseteq Same
    BY <1>2, <1>3, SetInduction
  <1>5. ASSUME NEW s \in SUBSET T
        PROVE  g[s] = h[s]
    <2>1. Cardinality(s) \in Same
      BY <1>0, <1>4
    <2> QED
      BY <2>1, <1>0 DEF Same
  <1> QED
    BY <1>5

\* The equation a sum satisfies.
LEMMA SumEquation ==
  ASSUME NEW f, NEW S, IsFiniteSet(S)
  PROVE  SumFunctionOnSet(f, S) = SumStep(f, S, SumFunctionOnSet(f, S \ {Pick(S)}))
  <1> DEFINE T == S \ {Pick(S)}
  <1>0. T \in SUBSET S /\ IsFiniteSet(T)
    BY FS_Subset
  <1> HIDE DEF T
  <1>1. PICK g : IsFold(g, f, S) /\ SumFunctionOnSet(f, S) = g[S]
    BY FoldExists, SumIsFold
  <1>2. PICK h : IsFold(h, f, T) /\ SumFunctionOnSet(f, T) = h[T]
    BY <1>0, FoldExists, SumIsFold
  <1>3. \A s \in SUBSET T : g[s] = h[s]
    BY <1>0, <1>1, <1>2, FoldUnique
  <1>4. g[T] = h[T]
    BY <1>3
  <1>5. g[S] = SumStep(f, S, g[T])
    BY <1>1 DEF IsFold, T
  <1> QED
    BY <1>1, <1>2, <1>4, <1>5 DEF T

\* The sum over no elements.
LEMMA SumEmpty ==
  ASSUME NEW f
  PROVE  SumFunctionOnSet(f, {}) = 0
  BY SumEquation, FS_EmptySet DEF SumStep

\* Sums of naturals are naturals and may be taken apart at any element.
LEMMA SumRemove ==
  ASSUME NEW f, NEW S, IsFiniteSet(S), \A x \in S : f[x] \in Nat
  PROVE  /\ SumFunctionOnSet(f, S) \in Nat
         /\ \A x \in S : SumFunctionOnSet(f, S) = f[x] + SumFunctionOnSet(f, S \ {x})
  <1> DEFINE Sum(s) == SumFunctionOnSet(f, s)
             Holds(s) == Sum(s) \in Nat /\ \A x \in s : Sum(s) = f[x] + Sum(s \ {x})
             Good == {n \in Nat : \A s \in SUBSET S : Cardinality(s) <= n => Holds(s)}
  <1>0. \A s \in SUBSET S : IsFiniteSet(s) /\ Cardinality(s) \in Nat
    BY FS_Subset, FS_CardinalityType
  <1>1. \A s \in SUBSET S : Sum(s) = SumStep(f, s, Sum(s \ {Pick(s)}))
    BY <1>0, SumEquation
  <1>2. Holds({})
    BY SumEmpty
  <1> HIDE DEF Sum
  <1>3. 0 \in Good
    BY <1>0, <1>2, FS_EmptySet
  <1>4. ASSUME NEW n \in Nat, n \in Good
        PROVE  n + 1 \in Good
    <2>1. ASSUME NEW s \in SUBSET S, Cardinality(s) <= n + 1, s # {}
          PROVE  Holds(s)
      <3> DEFINE y == Pick(s)
      <3>1. y \in s
        BY <2>1, PickIn
      <3>2. \A x \in s : s \ {x} \in SUBSET S /\ Cardinality(s \ {x}) = Cardinality(s) - 1
        BY <1>0, FS_RemoveElement
      <3>3. \A x \in s : Holds(s \ {x})
        BY <3>2, <2>1, <1>0, <1>4
      <3>4. Sum(s) = f[y] + Sum(s \ {y})
        BY <1>1, <2>1 DEF SumStep
      <3> HIDE DEF y
      <3>5. ASSUME NEW x \in s, x # y
            PROVE  Sum(s) = f[x] + Sum(s \ {x})
        <4>1. Sum(s \ {y}) = f[x] + Sum((s \ {y}) \ {x})
          BY <3>1, <3>3, <3>5
        <4>2. Sum(s \ {x}) = f[y] + Sum((s \ {x}) \ {y})
          BY <3>1, <3>3, <3>5
        <4>3. (s \ {y}) \ {x} = (s \ {x}) \ {y}
          OBVIOUS
        <4>4. f[x] \in Nat /\ f[y] \in Nat
          BY <3>1
        <4>5. Sum((s \ {x}) \ {y}) \in Nat
          <5>1. y \in s \ {x} /\ s \ {x} \in SUBSET S
            BY <3>1, <3>5
          <5> DEFINE r == s \ {x}
          <5>2. IsFiniteSet(r) /\ Cardinality(r) \in Nat /\ Cardinality(r) <= n
            BY <5>1, <1>0, <3>2, <2>1
          <5>3. r \ {y} \in SUBSET S
            OBVIOUS
          <5> HIDE DEF r
          <5>4. Cardinality(r \ {y}) <= Cardinality(r) /\ Cardinality(r \ {y}) \in Nat
            BY <5>2, FS_Subset, FS_CardinalityType
          <5>5. Cardinality(r \ {y}) <= n
            BY <5>2, <5>4
          <5> QED
            BY <5>3, <5>5, <1>4 DEF r
        <4> QED
          BY <3>4, <4>1, <4>2, <4>3, <4>4, <4>5
      <3>6. Sum(s) \in Nat
        BY <3>1, <3>3, <3>4
      <3> QED
        BY <3>4, <3>5, <3>6
    <2>2. \A s \in SUBSET S : Cardinality(s) <= n + 1 => Holds(s)
      BY <2>1, <1>2
    <2> HIDE DEF Holds
    <2> QED
      BY <2>2
  <1> HIDE DEF Good
  <1>5. Nat \subseteq Good
    BY <1>3, <1>4, SetInduction
  <1>6. Holds(S)
    <2>1. Cardinality(S) \in Good
      BY <1>0, <1>5
    <2> HIDE DEF Holds
    <2> QED
      BY <2>1, <1>0 DEF Good
  <1> QED
    BY <1>6 DEF Sum

\* A sum grows with its terms.
LEMMA SumMonotone ==
  ASSUME NEW f, NEW g, NEW S, IsFiniteSet(S),
         \A x \in S : f[x] \in Nat /\ g[x] \in Nat /\ f[x] <= g[x]
  PROVE  SumFunctionOnSet(f, S) <= SumFunctionOnSet(g, S)
  <1> DEFINE F(s) == SumFunctionOnSet(f, s)
             G(s) == SumFunctionOnSet(g, s)
             Good == {n \in Nat : \A s \in SUBSET S : Cardinality(s) <= n => F(s) <= G(s)}
  <1>0. \A s \in SUBSET S : IsFiniteSet(s) /\ Cardinality(s) \in Nat
    BY FS_Subset, FS_CardinalityType
  <1>1. \A s \in SUBSET S :
            /\ F(s) \in Nat /\ G(s) \in Nat
            /\ \A x \in s : F(s) = f[x] + F(s \ {x}) /\ G(s) = g[x] + G(s \ {x})
    <2> TAKE s \in SUBSET S
    <2>1. \A x \in s : f[x] \in Nat /\ g[x] \in Nat
      OBVIOUS
    <2>2. F(s) \in Nat /\ \A x \in s : F(s) = f[x] + F(s \ {x})
      BY <1>0, <2>1, SumRemove
    <2>3. G(s) \in Nat /\ \A x \in s : G(s) = g[x] + G(s \ {x})
      BY <1>0, <2>1, SumRemove
    <2> QED
      BY <2>2, <2>3
  <1>2. F({}) <= G({})
    BY SumEmpty
  <1> HIDE DEF F, G
  <1>3. 0 \in Good
    BY <1>0, <1>2, FS_EmptySet
  <1>4. ASSUME NEW n \in Nat, n \in Good
        PROVE  n + 1 \in Good
    <2>1. ASSUME NEW s \in SUBSET S, Cardinality(s) <= n + 1, NEW x \in s
          PROVE  F(s) <= G(s)
      <3>1. s \ {x} \in SUBSET S /\ Cardinality(s \ {x}) = Cardinality(s) - 1
        BY <1>0, FS_RemoveElement
      <3>2. F(s \ {x}) <= G(s \ {x})
        BY <3>1, <2>1, <1>0, <1>4
      <3>3. f[x] \in Nat /\ g[x] \in Nat /\ f[x] <= g[x]
        OBVIOUS
      <3>4. F(s \ {x}) \in Nat /\ G(s \ {x}) \in Nat
        BY <1>1, <3>1
      <3> QED
        BY <1>1, <3>2, <3>3, <3>4
    <2>2. \A s \in SUBSET S : Cardinality(s) <= n + 1 => F(s) <= G(s)
      BY <2>1, <1>2
    <2> QED
      BY <2>2
  <1> HIDE DEF Good
  <1>5. Nat \subseteq Good
    BY <1>3, <1>4, SetInduction
  <1>6. F(S) <= G(S)
    <2>1. Cardinality(S) \in Good
      BY <1>0, <1>5
    <2> QED
      BY <2>1, <1>0 DEF Good
  <1> QED
    BY <1>6 DEF F, G

\* Two functions that agree on a set have the same sum over it.
LEMMA SumSame ==
  ASSUME NEW f, NEW g, NEW S, IsFiniteSet(S),
         \A x \in S : f[x] \in Nat /\ f[x] = g[x]
  PROVE  SumFunctionOnSet(f, S) = SumFunctionOnSet(g, S)
  <1>1. \A x \in S : g[x] \in Nat /\ f[x] <= g[x] /\ g[x] <= f[x]
    OBVIOUS
  <1>2. SumFunctionOnSet(f, S) <= SumFunctionOnSet(g, S)
    BY <1>1, SumMonotone
  <1>3. SumFunctionOnSet(g, S) <= SumFunctionOnSet(f, S)
    BY <1>1, SumMonotone
  <1>4. SumFunctionOnSet(f, S) \in Nat /\ SumFunctionOnSet(g, S) \in Nat
    BY <1>1, SumRemove
  <1> QED
    BY <1>2, <1>3, <1>4

\* One more element adds its term.
LEMMA SumAdd ==
  ASSUME NEW f, NEW S, IsFiniteSet(S), NEW x, x \notin S,
         \A y \in S \cup {x} : f[y] \in Nat
  PROVE  SumFunctionOnSet(f, S \cup {x}) = f[x] + SumFunctionOnSet(f, S)
  <1>1. IsFiniteSet(S \cup {x})
    BY FS_AddElement
  <1>2. (S \cup {x}) \ {x} = S
    OBVIOUS
  <1>3. x \in S \cup {x}
    OBVIOUS
  <1> DEFINE T == S \cup {x}
  <1>4. SumFunctionOnSet(f, T) = f[x] + SumFunctionOnSet(f, T \ {x})
    <2> HIDE DEF T
    <2> QED
      BY <1>1, <1>3, SumRemove DEF T
  <1> QED
    BY <1>2, <1>4

-----------------------------------------------------------------------------
(* Work lists *)

\* A step that adds elements of U to a set of elements of U.
Grows(G, U) == G \in [SUBSET U -> SUBSET U] /\ \A S \in SUBSET U : S \subseteq G[S]

\* N steps from x.
Repeats(f, G, x, U, N) ==
    f \in [0 .. N -> SUBSET U] /\ f[0] = x /\ \A n \in 1 .. N : f[n] = G[f[n - 1]]

\* A step can be repeated any number of times.
LEMMA Iterated ==
  ASSUME NEW U, NEW G, Grows(G, U), NEW x \in SUBSET U, NEW N \in Nat
  PROVE  \E f : Repeats(f, G, x, U, N)
  <1>0. PICK D : D = SUBSET U
    OBVIOUS
  <1>a. G \in [D -> D] /\ x \in D
    BY <1>0 DEF Grows
  <1> DEFINE Holding == {k \in Nat : \E f \in [0 .. k -> D] :
                                     f[0] = x /\ \A n \in 1 .. k : f[n] = G[f[n - 1]]}
  <1>1. 0 \in Holding
    <2>1. [n \in 0 .. 0 |-> x] \in [0 .. 0 -> D]
      BY <1>a
    <2>2. /\ [n \in 0 .. 0 |-> x][0] = x
          /\ \A n \in 1 .. 0 : [m \in 0 .. 0 |-> x][n] = G[[m \in 0 .. 0 |-> x][n - 1]]
      OBVIOUS
    <2> QED
      BY <2>1, <2>2
  <1>2. ASSUME NEW k \in Nat, k \in Holding
        PROVE  k + 1 \in Holding
    <2>1. PICK f \in [0 .. k -> D] : f[0] = x /\ \A n \in 1 .. k : f[n] = G[f[n - 1]]
      BY <1>2
    <2>2. PICK g : g = [n \in 0 .. k + 1 |-> IF n = k + 1 THEN G[f[k]] ELSE f[n]]
      OBVIOUS
    <2>3. g \in [0 .. k + 1 -> D] /\ g[0] = x
      BY <1>a, <2>1, <2>2
    <2>4. ASSUME NEW n \in 1 .. k + 1
          PROVE  g[n] = G[g[n - 1]]
      BY <2>1, <2>2
    <2> QED
      BY <2>3, <2>4
  <1> HIDE DEF Holding
  <1>3. Nat \subseteq Holding
    BY <1>1, <1>2, SetInduction
  <1>4. N \in Holding
    BY <1>3
  <1> QED
    BY <1>0, <1>4 DEF Holding, Repeats

\* A set that only grows, within a set of N elements, has stopped growing
\* after N rounds.
LEMMA Saturated ==
  ASSUME NEW U, IsFiniteSet(U), NEW N \in Nat, Cardinality(U) <= N,
         NEW G, Grows(G, U), NEW x, x # {}, NEW f, Repeats(f, G, x, U, N)
  PROVE  G[f[N]] = f[N]
  <1>a. /\ G \in [SUBSET U -> SUBSET U] /\ \A S \in SUBSET U : S \subseteq G[S]
         /\ f \in [0 .. N -> SUBSET U] /\ f[0] # {} /\ \A n \in 1 .. N : f[n] = G[f[n - 1]]
    BY DEF Grows, Repeats
  <1>b. /\ \A n \in 0 .. N : f[n] \in SUBSET U
        /\ \A n \in Nat : n + 1 \in 1 .. N => f[n + 1] = G[f[n]]
    <2>1. \A n \in 0 .. N : f[n] \in SUBSET U
      BY <1>a
    <2>2. ASSUME NEW n \in Nat, n + 1 \in 1 .. N PROVE f[n + 1] = G[f[n]]
      <3>1. (n + 1) - 1 = n
        OBVIOUS
      <3> QED
        BY <1>a, <2>2, <3>1
    <2> QED
      BY <2>1, <2>2
  <1> DEFINE Holding == {n \in Nat : n <= N => G[f[n]] = f[n] \/ Cardinality(f[n]) >= n + 1}
  <1>0. \A S \in SUBSET U : IsFiniteSet(S) /\ Cardinality(S) \in Nat /\ Cardinality(S) <= Cardinality(U)
    BY FS_Subset, FS_CardinalityType
  <1>1. 0 \in Holding
    <2>1. f[0] \in SUBSET U /\ f[0] # {}
      BY <1>a
    <2>2. Cardinality(f[0]) # 0
      BY <1>0, <2>1, FS_EmptySet
    <2> QED
      BY <1>0, <2>1, <2>2
  <1>2. ASSUME NEW n \in Nat, n \in Holding
        PROVE  n + 1 \in Holding
    <2>1. CASE n + 1 <= N
      <3>1. n \in 0 .. N /\ n + 1 \in 0 .. N /\ n + 1 \in 1 .. N
        BY <2>1
      <3>2. f[n] \in SUBSET U /\ f[n + 1] \in SUBSET U
        BY <1>b, <3>1
      <3>5. f[n + 1] = G[f[n]]
        BY <1>b, <3>1
      <3>3. CASE G[f[n]] = f[n]
        BY <3>2, <3>3, <3>5
      <3>4. CASE G[f[n]] # f[n] /\ Cardinality(f[n]) >= n + 1
        <4>1. f[n] \in SUBSET f[n + 1] /\ f[n] # f[n + 1]
          BY <1>a, <3>2, <3>4, <3>5
        <4>2. /\ Cardinality(f[n]) <= Cardinality(f[n + 1])
              /\ Cardinality(f[n + 1]) # Cardinality(f[n])
          BY <1>0, <3>2, <4>1, FS_Subset
        <4>3. Cardinality(f[n]) \in Nat /\ Cardinality(f[n + 1]) \in Nat
          BY <1>0, <3>2
        <4> QED
          BY <3>4, <4>2, <4>3
      <3> QED
        BY <1>2, <3>1, <3>3, <3>4
    <2> QED
      BY <2>1
  <1> HIDE DEF Holding
  <1>3. N \in Holding
    BY <1>1, <1>2, SetInduction
  <1>4. f[N] \in SUBSET U
    BY <1>a
  <1> QED
    BY <1>0, <1>3, <1>4 DEF Holding

-----------------------------------------------------------------------------
(* Orders *)

\* R orders the elements of E strictly and totally.
Orders(R, E) ==
    /\ \A x \in E : <<x, x>> \notin R
    /\ \A x, y, z \in E : <<x, y>> \in R /\ <<y, z>> \in R => <<x, z>> \in R
    /\ \A x, y \in E : x = y \/ <<x, y>> \in R \/ <<y, x>> \in R

\* The elements before another.
Lower(R, E, x) == {y \in E : <<y, x>> \in R}

\* In a finite order every rank is taken, and once.
LEMMA RankTaken ==
  ASSUME NEW E, IsFiniteSet(E), NEW R, Orders(R, E)
  PROVE  /\ \A x \in E : /\ Cardinality(Lower(R, E, x)) \in Nat
                          /\ Cardinality(Lower(R, E, x)) < Cardinality(E)
         /\ \A i \in 1 .. Cardinality(E) :
                \E x \in E : /\ Cardinality(Lower(R, E, x)) = i - 1
                             /\ \A y \in E : Cardinality(Lower(R, E, y)) = i - 1 => y = x
  <1>1. PICK N : N = Cardinality(E)
    OBVIOUS
  <1>2. N \in Nat
    BY <1>1, FS_CardinalityType
  <1>3. PICK f : f = [x \in E |-> Cardinality(Lower(R, E, x)) + 1]
    OBVIOUS
  <1>4. ASSUME NEW x \in E
        PROVE  /\ Lower(R, E, x) \in SUBSET E /\ IsFiniteSet(Lower(R, E, x))
               /\ Cardinality(Lower(R, E, x)) \in Nat /\ Cardinality(Lower(R, E, x)) < N
    <2>1. PICK L : L = Lower(R, E, x)
      OBVIOUS
    <2>2. L \in SUBSET E /\ x \notin L
      BY <2>1 DEF Lower, Orders
    <2>3. IsFiniteSet(L) /\ Cardinality(L) <= N /\ Cardinality(L) # N
      BY <1>1, <2>2, FS_Subset
    <2>4. Cardinality(L) \in Nat
      BY <2>3, FS_CardinalityType
    <2> QED
      BY <1>2, <2>1, <2>2, <2>3, <2>4
  <1>5. ASSUME NEW x \in E, NEW y \in E, <<x, y>> \in R
        PROVE  Cardinality(Lower(R, E, x)) < Cardinality(Lower(R, E, y))
    <2>1. PICK K, L : K = Lower(R, E, x) /\ L = Lower(R, E, y)
      OBVIOUS
    <2>2. K \in SUBSET L /\ x \in L /\ x \notin K
      BY <1>5, <2>1 DEF Lower, Orders
    <2>3. IsFiniteSet(L) /\ Cardinality(K) \in Nat /\ Cardinality(L) \in Nat
      BY <1>4, <2>1
    <2>4. Cardinality(K) <= Cardinality(L) /\ Cardinality(K) # Cardinality(L)
      BY <2>2, <2>3, FS_Subset
    <2> QED
      BY <2>1, <2>3, <2>4
  <1>6. ASSUME NEW x \in E, NEW y \in E, Cardinality(Lower(R, E, x)) = Cardinality(Lower(R, E, y))
        PROVE  x = y
    <2>1. Cardinality(Lower(R, E, x)) \in Nat /\ Cardinality(Lower(R, E, y)) \in Nat
      BY <1>4
    <2>2. <<x, y>> \notin R
      <3> SUFFICES ASSUME <<x, y>> \in R PROVE FALSE
        OBVIOUS
      <3>1. Cardinality(Lower(R, E, x)) < Cardinality(Lower(R, E, y))
        BY <1>5
      <3> QED
        BY <1>6, <2>1, <3>1
    <2>3. <<y, x>> \notin R
      <3> SUFFICES ASSUME <<y, x>> \in R PROVE FALSE
        OBVIOUS
      <3>1. Cardinality(Lower(R, E, y)) < Cardinality(Lower(R, E, x))
        BY <1>5
      <3> QED
        BY <1>6, <2>1, <3>1
    <2> QED
      BY <2>2, <2>3 DEF Orders
  <1>7. f \in [E -> 1 .. N]
    BY <1>2, <1>3, <1>4
  <1>8. \A x, y \in E : f[x] = f[y] => x = y
    <2> SUFFICES ASSUME NEW x \in E, NEW y \in E, f[x] = f[y] PROVE x = y
      OBVIOUS
    <2>1. f[x] = Cardinality(Lower(R, E, x)) + 1 /\ f[y] = Cardinality(Lower(R, E, y)) + 1
      BY <1>3
    <2>2. PICK m \in Nat, n \in Nat : m = Cardinality(Lower(R, E, x)) /\ n = Cardinality(Lower(R, E, y))
      BY <1>4
    <2>3. m + 1 = n + 1
      BY <2>1, <2>2
    <2>4. m = n
      BY <2>3
    <2> QED
      BY <1>6, <2>2, <2>4
  <1>9. f \in Injection(E, 1 .. N)
    BY <1>7, <1>8 DEF Injection, IsInjective
  <1>10. IsFiniteSet(1 .. N) /\ Cardinality(1 .. N) = N
    BY <1>2, FS_Interval
  <1>11. f \in Surjection(E, 1 .. N)
    BY <1>1, <1>9, <1>10, FS_Injection
  <1> SUFFICES ASSUME NEW i \in 1 .. N
               PROVE  \E x \in E : /\ Cardinality(Lower(R, E, x)) = i - 1
                                   /\ \A y \in E : Cardinality(Lower(R, E, y)) = i - 1 => y = x
    BY <1>1, <1>4
  <1>12. PICK x \in E : f[x] = i
    BY <1>11 DEF Surjection
  <1>13. Cardinality(Lower(R, E, x)) = i - 1
    BY <1>2, <1>3, <1>4, <1>12
  <1> QED
    BY <1>6, <1>13

-----------------------------------------------------------------------------
(* Recursion *)

\* f is N steps from x within D, the n-th of them G[n].
Steps(f, G, x, D, N) ==
    f \in [0 .. N -> D] /\ f[0] = x /\ \A n \in 1 .. N : f[n] = G[n][f[n - 1]]

\* There are such steps.
LEMMA StepsExist ==
  ASSUME NEW D, NEW N \in Nat, NEW G \in [1 .. N -> [D -> D]], NEW x \in D
  PROVE  \E f : Steps(f, G, x, D, N)
  <1> DEFINE Holding == {k \in Nat : k <= N => \E f \in [0 .. k -> D] :
                                     f[0] = x /\ \A n \in 1 .. k : f[n] = G[n][f[n - 1]]}
  <1>1. 0 \in Holding
    <2>1. [n \in 0 .. 0 |-> x] \in [0 .. 0 -> D]
      OBVIOUS
    <2>2. /\ [n \in 0 .. 0 |-> x][0] = x
          /\ \A n \in 1 .. 0 : [m \in 0 .. 0 |-> x][n] = G[n][[m \in 0 .. 0 |-> x][n - 1]]
      OBVIOUS
    <2> QED
      BY <2>1, <2>2
  <1>2. ASSUME NEW k \in Nat, k \in Holding
        PROVE  k + 1 \in Holding
    <2> SUFFICES ASSUME k + 1 <= N
                 PROVE  \E f \in [0 .. k + 1 -> D] :
                            f[0] = x /\ \A n \in 1 .. k + 1 : f[n] = G[n][f[n - 1]]
      OBVIOUS
    <2>1. PICK f \in [0 .. k -> D] : f[0] = x /\ \A n \in 1 .. k : f[n] = G[n][f[n - 1]]
      BY <1>2
    <2>2. PICK g : g = [n \in 0 .. k + 1 |-> IF n = k + 1 THEN G[k + 1][f[k]] ELSE f[n]]
      OBVIOUS
    <2>3. f[k] \in D /\ k + 1 \in 1 .. N /\ G[k + 1] \in [D -> D]
      BY <2>1
    <2>4. g \in [0 .. k + 1 -> D] /\ g[0] = x
      BY <2>1, <2>2, <2>3
    <2>5. ASSUME NEW n \in 1 .. k + 1 PROVE g[n] = G[n][g[n - 1]]
      <3>1. CASE n = k + 1
        BY <2>2, <3>1
      <3>2. CASE n # k + 1
        <4>1. n \in 1 .. k /\ n - 1 \in 0 .. k /\ n - 1 # k + 1
          BY <3>2
        <4> QED
          BY <2>1, <2>2, <4>1
      <3> QED
        BY <3>1, <3>2
    <2> QED
      BY <2>4, <2>5
  <1> HIDE DEF Holding
  <1>3. Nat \subseteq Holding
    BY <1>1, <1>2, SetInduction
  <1>4. N \in Holding
    BY <1>3
  <1> QED
    BY <1>4 DEF Holding, Steps

\* The recursion of a loop that applies g until nothing changes.
IsLoop(f, g) == f = [e \in Nat |-> IF g[e] = e THEN e ELSE f[g[e]]]

\* g is monotone.
Monotone(g) == \A x, y \in Nat : x <= y => g[x] <= g[y]

\* The loop of a monotone function has a solution: the fixed point next to a number, on its side.
LEMMA LoopExists ==
  ASSUME NEW g \in [Nat -> Nat], Monotone(g)
  PROVE  \E f : IsLoop(f, g)
  <1> DEFINE Up(e) == {x \in Nat : x >= e /\ g[x] <= x}
             Down(e) == {x \in Nat : x <= e /\ x <= g[x]}
             Least(S) == CHOOSE m \in S : \A k \in S : m <= k
             Greatest(S) == CHOOSE m \in S : \A k \in S : k <= m
  <1>1. PICK f : f = [e \in Nat |-> IF e <= g[e] THEN Least(Up(e)) ELSE Greatest(Down(e))]
    OBVIOUS
  <1>2. ASSUME NEW e \in Nat, g[e] = e PROVE Least(Up(e)) = e
    <2>1. e \in Up(e) /\ \A k \in Up(e) : e <= k
      BY <1>2
    <2>2. \A m \in Up(e) : (\A k \in Up(e) : m <= k) => m = e
      BY <2>1
    <2> HIDE DEF Up
    <2> QED
      BY <2>1, <2>2
  <1>3. ASSUME NEW e \in Nat, g[e] = e PROVE Greatest(Down(e)) = e
    <2>1. e \in Down(e) /\ \A k \in Down(e) : k <= e
      BY <1>3
    <2>2. \A m \in Down(e) : (\A k \in Down(e) : k <= m) => m = e
      BY <2>1
    <2> HIDE DEF Down
    <2> QED
      BY <2>1, <2>2
  <1>4. ASSUME NEW e \in Nat, e <= g[e] PROVE Up(e) = Up(g[e]) /\ g[e] <= g[g[e]]
    BY <1>4 DEF Monotone
  <1>5. ASSUME NEW e \in Nat, g[e] <= e PROVE Down(e) = Down(g[e]) /\ g[g[e]] <= g[e]
    BY <1>5 DEF Monotone
  <1> HIDE DEF Up, Down, Least, Greatest
  <1>6. ASSUME NEW e \in Nat
        PROVE  f[e] = IF g[e] = e THEN e ELSE f[g[e]]
    <2>0. g[e] \in Nat /\ g[g[e]] \in Nat
      OBVIOUS
    <2>1. CASE g[e] = e
      BY <1>1, <1>2, <2>1
    <2>2. CASE e < g[e]
      <3>1. f[e] = Least(Up(e)) /\ f[g[e]] = Least(Up(g[e]))
        BY <1>1, <1>4, <2>0, <2>2
      <3> QED
        BY <1>4, <2>0, <2>2, <3>1
    <2>3. CASE g[e] < e
      <3>1. f[e] = Greatest(Down(e)) /\ Down(e) = Down(g[e])
        BY <1>1, <1>5, <2>0, <2>3
      <3>2. CASE g[g[e]] = g[e]
        <4>1. f[g[e]] = g[e]
          BY <1>1, <1>2, <2>0, <3>2
        <4>2. Greatest(Down(g[e])) = g[e]
          BY <1>3, <2>0, <3>2
        <4> QED
          BY <2>3, <2>0, <3>1, <4>1, <4>2
      <3>3. CASE g[g[e]] # g[e]
        <4>1. ~(g[e] <= g[g[e]])
          BY <1>5, <2>0, <2>3, <3>3
        <4>2. f[g[e]] = Greatest(Down(g[e]))
          BY <1>1, <2>0, <4>1
        <4> QED
          BY <2>0, <2>3, <3>1, <4>2
      <3> QED
        BY <3>2, <3>3
    <2> QED
      BY <2>0, <2>1, <2>2, <2>3
  <1>7. IsLoop(f, g)
    <2>1. f = [e \in Nat |-> f[e]]
      BY <1>1
    <2> QED
      BY <1>6, <2>1 DEF IsLoop
  <1> QED
    BY <1>7

\* From 0 it ends at the least number that g does not raise.
LEMMA LoopFinds ==
  ASSUME NEW g \in [Nat -> Nat], Monotone(g), NEW b \in Nat, g[b] <= b, NEW f, IsLoop(f, g)
  PROVE  /\ f[0] \in Nat /\ g[f[0]] = f[0]
         /\ \A x \in Nat : g[x] <= x => f[0] <= x
  <1>1. PICK X : X = {x \in Nat : f[x] = f[0] /\ x <= g[x] /\ \A y \in Nat : g[y] <= y => x <= y}
    OBVIOUS
  <1>2. X \in SUBSET Nat /\ 0 \in X /\ \A x \in X : x <= b
    BY <1>1
  <1>3. PICK m \in X : \A x \in X : x <= m
    BY <1>2, GreatestNatural
  <1>4. m \in Nat /\ g[m] \in Nat /\ f[m] = f[0] /\ m <= g[m] /\ \A y \in Nat : g[y] <= y => m <= y
    BY <1>1, <1>3
  <1>5. g[m] = m
    <2> SUFFICES ASSUME g[m] # m PROVE FALSE
      OBVIOUS
    <2>1. f[g[m]] = f[0]
      BY <1>4 DEF IsLoop
    <2>2. g[m] <= g[g[m]]
      BY <1>4 DEF Monotone
    <2>3. ASSUME NEW y \in Nat, g[y] <= y PROVE g[m] <= y
      <3>1. m <= y /\ g[m] <= g[y] /\ g[y] \in Nat
        BY <1>4, <2>3 DEF Monotone
      <3> QED
        BY <1>4, <2>3, <3>1
    <2>4. g[m] \in X
      BY <1>1, <1>4, <2>1, <2>2, <2>3
    <2> QED
      BY <1>3, <1>4, <2>4
  <1>6. f[m] = m
    BY <1>4, <1>5 DEF IsLoop
  <1> QED
    BY <1>4, <1>5, <1>6
=============================================================================
