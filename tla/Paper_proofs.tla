---------------------------- MODULE Paper_proofs ----------------------------
(***************************************************************************)
(* Proofs about Paper.tla, the pipeline from fetched bars to paper orders, *)
(* for any calendar, any prices, any symbols and any settings PaperAssump- *)
(* tion and the assumptions of its parts admit.                            *)
(*                                                                         *)
(* EngineInv is the inductive invariant of the engine's half: types, that  *)
(* the record an engine acts on was the newest stored one when it started  *)
(* (Evidence), and that each row's profit is against the latest earlier    *)
(* row of its mode.  SimulationInv is that of the backtest's half: the     *)
(* trades kept end before the window being tested opens (WindowInv), and   *)
(* a window's book holds honest trades and accounts for every unit of the  *)
(* capital it began with (GoodBook and Balance).                           *)
(*                                                                         *)
(* Sums and sequences of entries need induction.  SubsetInduction and      *)
(* IntervalInduction state it for a set `good` instead of a predicate, so  *)
(* that an instance is a substitution of terms.                            *)
(***************************************************************************)
EXTENDS Paper, FiniteSetTheorems, WellFoundedInduction, TLAPS

-----------------------------------------------------------------------------
(* Sums over finite sets: what SumFunctionOnSet computes.                  *)

\* Induction over the subsets of a finite set, for a set `good` of them.
LEMMA SubsetInduction ==
    ASSUME NEW S, IsFiniteSet(S), NEW good,
           ASSUME NEW T \in SUBSET S, \A U \in SUBSET T : U # T => U \in good
           PROVE  T \in good
    PROVE  S \in good
<1> DEFINE bad == {T \in SUBSET S : T \notin good}
<1>1. SUFFICES ASSUME bad # {} PROVE FALSE
  BY Zenon
<1>2. bad \subseteq FiniteSubsetsOf(S)
  BY FS_FiniteSubsetsOfFinite
<1>3. IsWellFoundedOn(StrictSubsetOrdering(S), FiniteSubsetsOf(S))
  BY FS_StrictSubsetOrderingWellFounded
<1> HIDE DEF bad
<1>4. PICK T \in bad : \A U \in bad : <<U, T>> \notin StrictSubsetOrdering(S)
  BY <1>1, <1>2, <1>3, WFMin
<1> USE DEF bad
<1>5. T \in SUBSET S /\ T \notin good
  BY <1>4
<1>6. ASSUME NEW U \in SUBSET T, U # T PROVE U \in good
  BY <1>4, <1>5, <1>6 DEF StrictSubsetOrdering
<1> QED
  BY <1>5, <1>6

\* The element SumFunctionOnSet takes out first.
First(S) == CHOOSE x \in S : TRUE

\* g adds up f over every subset of S.
AddsUp(g, f, S) ==
    g = [s \in SUBSET S |-> IF s = {} THEN 0 ELSE f[First(s)] + g[s \ {First(s)}]]

\* SumFunctionOnSet is the choice of a function that adds up f.
LEMMA SumIsChosen ==
    ASSUME NEW f, NEW S
    PROVE  SumFunctionOnSet(f, S) = (CHOOSE g : AddsUp(g, f, S))[S]
BY Zenon DEF SumFunctionOnSet, FoldFunctionOnSet, MapThenFoldSet, AddsUp, First

\* Two functions that add up f agree where both are defined.
LEMMA SumsAgree ==
    ASSUME NEW f, NEW S, NEW g, AddsUp(g, f, S),
           NEW T, NEW h, AddsUp(h, f, T),
           NEW U, U \subseteq S, U \subseteq T, IsFiniteSet(U)
    PROVE  g[U] = h[U]
<1> DEFINE good == {V \in SUBSET U : g[V] = h[V]}
<1>1. ASSUME NEW V \in SUBSET U, \A W \in SUBSET V : W # V => W \in good
      PROVE  V \in good
  <2>1. g[V] = IF V = {} THEN 0 ELSE f[First(V)] + g[V \ {First(V)}]
    BY Zenon DEF AddsUp
  <2>2. h[V] = IF V = {} THEN 0 ELSE f[First(V)] + h[V \ {First(V)}]
    BY Zenon DEF AddsUp
  <2>3. CASE V = {}
    BY <2>1, <2>2, <2>3
  <2>4. CASE V # {}
    <3>1. First(V) \in V
      BY <2>4 DEF First
    <3>2. V \ {First(V)} \in good
      BY <1>1, <3>1
    <3> QED
      BY <2>1, <2>2, <3>2
  <2> QED
    BY <2>3, <2>4
<1> HIDE DEF good
<1>2. U \in good
  BY <1>1, SubsetInduction
<1> QED
  BY <1>2 DEF good

\* There is such a function for every finite set.
LEMMA SumExists ==
    ASSUME NEW f, NEW S, IsFiniteSet(S)
    PROVE  \E g : AddsUp(g, f, S)
<1> DEFINE good == {T \in SUBSET S : \E g : AddsUp(g, f, T)}
<1>1. ASSUME NEW T \in SUBSET S, \A U \in SUBSET T : U # T => U \in good
      PROVE  T \in good
  <2>1. PICK G : G = [U \in SUBSET T |-> CHOOSE g : AddsUp(g, f, U)]
    OBVIOUS
  <2>2. ASSUME NEW U \in SUBSET T, U # T PROVE AddsUp(G[U], f, U)
    <3>1. U \in good
      BY <1>1, <2>2
    <3>2. G[U] = CHOOSE g : AddsUp(g, f, U)
      BY <2>1
    <3> QED
      BY <3>1, <3>2
  <2>3. PICK h : h = [s \in SUBSET T |-> IF s = {} THEN 0
                        ELSE f[First(s)] + G[s \ {First(s)}][s \ {First(s)}]]
    OBVIOUS
  <2>4. ASSUME NEW s \in SUBSET T, s # {}, NEW r, r = s \ {First(s)}
        PROVE  h[r] = G[r][r]
    <3>1. First(s) \in s
      BY <2>4 DEF First
    <3>2. r \in SUBSET T /\ r # T
      BY <2>4, <3>1
    <3>3. AddsUp(G[r], f, r)
      BY <2>2, <3>2
    <3>4. G[r][r] = IF r = {} THEN 0 ELSE f[First(r)] + G[r][r \ {First(r)}]
      <4>1. r \in SUBSET r
        OBVIOUS
      <4> QED
        BY <3>3, <4>1, Zenon DEF AddsUp
    <3>5. h[r] = IF r = {} THEN 0
                 ELSE f[First(r)] + G[r \ {First(r)}][r \ {First(r)}]
      BY <2>3, <3>2
    <3>6. CASE r = {}
      BY <3>4, <3>5, <3>6
    <3>7. CASE r # {}
      <4>1. PICK q : q = r \ {First(r)}
        OBVIOUS
      <4>2. First(r) \in r
        BY <3>7 DEF First
      <4>3. q \in SUBSET T /\ q # T /\ q \subseteq r
        BY <3>2, <4>1, <4>2
      <4>4. AddsUp(G[q], f, q)
        BY <2>2, <4>3
      <4>5. IsFiniteSet(q)
        <5>1. q \in SUBSET S
          BY <4>3
        <5> QED
          BY <5>1, FS_Subset
      <4>6. G[r][q] = G[q][q]
        BY <3>3, <4>3, <4>4, <4>5, SumsAgree
      <4> QED
        BY <3>4, <3>5, <3>7, <4>1, <4>6
    <3> QED
      BY <3>6, <3>7
  <2>5. AddsUp(h, f, T)
    <3>1. ASSUME NEW s \in SUBSET T
          PROVE  h[s] = IF s = {} THEN 0 ELSE f[First(s)] + h[s \ {First(s)}]
      BY <2>3, <2>4
    <3>2. h = [s \in SUBSET T |-> h[s]]
      BY <2>3
    <3> QED
      BY <3>1, <3>2 DEF AddsUp
  <2> QED
    BY <2>5
<1> HIDE DEF good
<1>2. S \in good
  BY <1>1, SubsetInduction
<1> QED
  BY <1>2 DEF good

\* The chosen one gives the sums over all subsets.
LEMMA SumAddsUp ==
    ASSUME NEW f, NEW S, IsFiniteSet(S)
    PROVE  \E g : /\ AddsUp(g, f, S)
                  /\ \A T \in SUBSET S : g[T] = SumFunctionOnSet(f, T)
<1>1. PICK g : AddsUp(g, f, S)
  BY SumExists
<1>2. ASSUME NEW T \in SUBSET S PROVE g[T] = SumFunctionOnSet(f, T)
  <2>1. IsFiniteSet(T)
    BY FS_Subset
  <2> DEFINE h == CHOOSE h : AddsUp(h, f, T)
  <2>2. AddsUp(h, f, T)
    BY <2>1, SumExists
  <2>3. SumFunctionOnSet(f, T) = h[T]
    BY SumIsChosen
  <2> HIDE DEF h
  <2> QED
    BY <1>1, <2>1, <2>2, <2>3, SumsAgree
<1> QED
  BY <1>1, <1>2

\* The sum over nothing.
LEMMA SumEmpty == ASSUME NEW f PROVE SumFunctionOnSet(f, {}) = 0
<1>1. IsFiniteSet({})
  BY FS_EmptySet
<1>2. PICK g : AddsUp(g, f, {}) /\ \A T \in SUBSET {} : g[T] = SumFunctionOnSet(f, T)
  BY <1>1, SumAddsUp
<1>3. {} \in SUBSET {}
  OBVIOUS
<1> QED
  BY <1>2, <1>3 DEF AddsUp

\* The sum over a set, one element first.
LEMMA SumFirst ==
    ASSUME NEW f, NEW S, IsFiniteSet(S), S # {}
    PROVE  /\ First(S) \in S
           /\ SumFunctionOnSet(f, S) = f[First(S)] + SumFunctionOnSet(f, S \ {First(S)})
<1>1. First(S) \in S
  BY DEF First
<1>2. PICK g : AddsUp(g, f, S) /\ \A T \in SUBSET S : g[T] = SumFunctionOnSet(f, T)
  BY SumAddsUp
<1>3. g[S] = f[First(S)] + g[S \ {First(S)}]
  <2>1. S \in SUBSET S
    OBVIOUS
  <2>2. g[S] = IF S = {} THEN 0 ELSE f[First(S)] + g[S \ {First(S)}]
    BY <1>2, <2>1, Zenon DEF AddsUp
  <2> QED
    BY <2>2
<1>4. S \in SUBSET S /\ S \ {First(S)} \in SUBSET S
  OBVIOUS
<1> QED
  BY <1>1, <1>2, <1>3, <1>4

\* A sum of integers is an integer.
LEMMA SumType ==
    ASSUME NEW S, IsFiniteSet(S), NEW f, \A x \in S : f[x] \in Int
    PROVE  SumFunctionOnSet(f, S) \in Int
<1> DEFINE good == {T \in SUBSET S : SumFunctionOnSet(f, T) \in Int}
<1>1. ASSUME NEW T \in SUBSET S, \A U \in SUBSET T : U # T => U \in good
      PROVE  T \in good
  <2>1. IsFiniteSet(T)
    BY FS_Subset
  <2>2. CASE T = {}
    BY <2>2, SumEmpty
  <2>3. CASE T # {}
    <3>1. First(T) \in T
      BY <2>3 DEF First
    <3>2. T \ {First(T)} \in good
      BY <1>1, <3>1
    <3>3. SumFunctionOnSet(f, T) = f[First(T)] + SumFunctionOnSet(f, T \ {First(T)})
      BY <2>1, <2>3, SumFirst
    <3> QED
      BY <3>1, <3>2, <3>3
  <2> QED
    BY <2>2, <2>3
<1> HIDE DEF good
<1>2. S \in good
  BY <1>1, SubsetInduction
<1> QED
  BY <1>2 DEF good

\* Any element may be taken out of a sum.
LEMMA SumRemove ==
    ASSUME NEW S, IsFiniteSet(S), NEW f, \A x \in S : f[x] \in Int, NEW y \in S
    PROVE  SumFunctionOnSet(f, S) = f[y] + SumFunctionOnSet(f, S \ {y})
<1> DEFINE splits(T, x) ==
             SumFunctionOnSet(f, T) = f[x] + SumFunctionOnSet(f, T \ {x})
<1> DEFINE good == {T \in SUBSET S : \A x \in T : splits(T, x)}
<1>1. ASSUME NEW T \in SUBSET S, \A U \in SUBSET T : U # T => U \in good
      PROVE  T \in good
  <2> SUFFICES ASSUME NEW x \in T PROVE splits(T, x)
    OBVIOUS
  <2>1. IsFiniteSet(T)
    BY FS_Subset
  <2>2. PICK p : p = First(T)
    OBVIOUS
  <2>3. p \in T /\ splits(T, p)
    BY <2>1, <2>2, SumFirst
  <2>4. CASE p = x
    BY <2>3, <2>4
  <2>5. CASE p # x
    <3>1. PICK A, B, C : A = T \ {p} /\ B = T \ {x} /\ C = T \ {p, x}
      OBVIOUS
    <3>2. A \in good /\ B \in good
      BY <1>1, <2>3, <3>1
    <3>3. x \in A /\ p \in B
      BY <2>3, <2>5, <3>1
    <3>4. A \ {x} = C /\ B \ {p} = C
      BY <3>1
    <3>5. splits(A, x) /\ splits(B, p)
      BY <3>2, <3>3
    <3>6. IsFiniteSet(C)
      BY <2>1, <3>1, FS_Subset
    <3>7. SumFunctionOnSet(f, C) \in Int
      <4>1. \A z \in C : f[z] \in Int
        BY <3>1
      <4> QED
        BY <3>6, <4>1, SumType
    <3>8. f[x] \in Int /\ f[p] \in Int
      BY <2>3
    <3>9. SumFunctionOnSet(f, T) = f[p] + SumFunctionOnSet(f, A)
      BY <2>3, <3>1
    <3>10. SumFunctionOnSet(f, A) = f[x] + SumFunctionOnSet(f, C)
      BY <3>4, <3>5
    <3>11. SumFunctionOnSet(f, B) = f[p] + SumFunctionOnSet(f, C)
      BY <3>4, <3>5
    <3>12. SumFunctionOnSet(f, T) = f[x] + SumFunctionOnSet(f, B)
      BY <3>7, <3>8, <3>9, <3>10, <3>11
    <3> QED
      BY <3>1, <3>12
  <2> QED
    BY <2>4, <2>5
<1> HIDE DEF good
<1>2. S \in good
  BY <1>1, SubsetInduction
<1> QED
  BY <1>2 DEF good

\* An element is added to a sum.
LEMMA SumAdd ==
    ASSUME NEW S, IsFiniteSet(S), NEW f, NEW y, y \notin S,
           \A x \in S \cup {y} : f[x] \in Int
    PROVE  SumFunctionOnSet(f, S \cup {y}) = f[y] + SumFunctionOnSet(f, S)
<1>1. IsFiniteSet(S \cup {y})
  BY FS_AddElement
<1>2. (S \cup {y}) \ {y} = S
  OBVIOUS
<1> QED
  BY <1>1, <1>2, SumRemove

\* The sum depends only on what is summed.
LEMMA SumSame ==
    ASSUME NEW S, IsFiniteSet(S), NEW f, NEW g, \A x \in S : f[x] = g[x]
    PROVE  SumFunctionOnSet(f, S) = SumFunctionOnSet(g, S)
<1> DEFINE good == {T \in SUBSET S : SumFunctionOnSet(f, T) = SumFunctionOnSet(g, T)}
<1>1. ASSUME NEW T \in SUBSET S, \A U \in SUBSET T : U # T => U \in good
      PROVE  T \in good
  <2>1. IsFiniteSet(T)
    BY FS_Subset
  <2>2. CASE T = {}
    BY <2>2, SumEmpty
  <2>3. CASE T # {}
    <3>1. First(T) \in T /\ f[First(T)] = g[First(T)]
      BY <2>3 DEF First
    <3>2. T \ {First(T)} \in good
      BY <1>1, <3>1
    <3>3. /\ SumFunctionOnSet(f, T) = f[First(T)] + SumFunctionOnSet(f, T \ {First(T)})
          /\ SumFunctionOnSet(g, T) = g[First(T)] + SumFunctionOnSet(g, T \ {First(T)})
      BY <2>1, <2>3, SumFirst
    <3> QED
      BY <3>1, <3>2, <3>3
  <2> QED
    BY <2>2, <2>3
<1> HIDE DEF good
<1>2. S \in good
  BY <1>1, SubsetInduction
<1> QED
  BY <1>2 DEF good

\* The sum over two disjoint sets.
LEMMA SumUnion ==
    ASSUME NEW S, IsFiniteSet(S), NEW R, IsFiniteSet(R), S \cap R = {},
           NEW f, \A x \in S \cup R : f[x] \in Int
    PROVE  SumFunctionOnSet(f, S \cup R)
             = SumFunctionOnSet(f, S) + SumFunctionOnSet(f, R)
<1> DEFINE good == {T \in SUBSET S : SumFunctionOnSet(f, T \cup R)
                                       = SumFunctionOnSet(f, T) + SumFunctionOnSet(f, R)}
<1>1. SumFunctionOnSet(f, R) \in Int
  BY SumType
<1>2. ASSUME NEW T \in SUBSET S, \A U \in SUBSET T : U # T => U \in good
      PROVE  T \in good
  <2>1. IsFiniteSet(T) /\ IsFiniteSet(T \cup R)
    BY FS_Subset, FS_Union
  <2>2. CASE T = {}
    <3>1. T \cup R = R
      BY <2>2
    <3> QED
      BY <1>1, <2>2, <3>1, SumEmpty
  <2>3. CASE T # {}
    <3>1. PICK x : x \in T
      BY <2>3
    <3>2. T \ {x} \in good
      BY <1>2, <3>1
    <3>3. SumFunctionOnSet(f, T) = f[x] + SumFunctionOnSet(f, T \ {x})
      BY <2>1, <3>1, SumRemove
    <3>4. PICK A : A = T \ {x}
      OBVIOUS
    <3>5. SumFunctionOnSet(f, T \cup R) = f[x] + SumFunctionOnSet(f, A \cup R)
      <4>1. x \in T \cup R /\ \A z \in T \cup R : f[z] \in Int
        BY <3>1
      <4>2. (T \cup R) \ {x} = A \cup R
        BY <3>4, <3>1
      <4> QED
        BY <2>1, <4>1, <4>2, SumRemove
    <3>6. SumFunctionOnSet(f, A \cup R) = SumFunctionOnSet(f, A) + SumFunctionOnSet(f, R)
      BY <3>4, <3>2
    <3>7. SumFunctionOnSet(f, A) \in Int /\ f[x] \in Int
      <4>1. IsFiniteSet(A) /\ \A z \in A : f[z] \in Int
        BY <2>1, <3>4, FS_RemoveElement
      <4> QED
        BY <3>1, <4>1, SumType
    <3>8. SumFunctionOnSet(f, T) = f[x] + SumFunctionOnSet(f, A)
      BY <3>4, <3>3
    <3>9. SumFunctionOnSet(f, T \cup R) = SumFunctionOnSet(f, T) + SumFunctionOnSet(f, R)
      BY <1>1, <3>5, <3>6, <3>7, <3>8
    <3> QED
      BY <3>9
  <2> QED
    BY <2>2, <2>3
<1> HIDE DEF good
<1>3. S \in good
  BY <1>2, SubsetInduction
<1> QED
  BY <1>3 DEF good

\* Renaming what is summed, two elements never to one.
LEMMA SumRenamed ==
    ASSUME NEW S, IsFiniteSet(S), NEW f, NEW g, NEW r,
           \A x \in S : f[x] \in Int /\ g[r[x]] = f[x],
           \A x, y \in S : r[x] = r[y] => x = y
    PROVE  /\ IsFiniteSet({r[x] : x \in S})
           /\ SumFunctionOnSet(g, {r[x] : x \in S}) = SumFunctionOnSet(f, S)
<1> DEFINE image(T) == {r[x] : x \in T}
<1> DEFINE good == {T \in SUBSET S : /\ IsFiniteSet(image(T))
                                     /\ SumFunctionOnSet(g, image(T)) = SumFunctionOnSet(f, T)}
<1>1. ASSUME NEW T \in SUBSET S, \A U \in SUBSET T : U # T => U \in good
      PROVE  T \in good
  <2>1. IsFiniteSet(T)
    BY FS_Subset
  <2>2. CASE T = {}
    <3>1. image(T) = {}
      BY <2>2
    <3> QED
      BY <2>2, <3>1, SumEmpty, FS_EmptySet
  <2>3. CASE T # {}
    <3>1. PICK x : x \in T
      BY <2>3
    <3>2. T \ {x} \in good
      BY <1>1, <3>1
    <3>3. SumFunctionOnSet(f, T) = f[x] + SumFunctionOnSet(f, T \ {x})
      BY <2>1, <3>1, SumRemove
    <3>4. PICK A, I, J : A = T \ {x} /\ I = image(T) /\ J = image(A)
      OBVIOUS
    <3>5. I = J \cup {r[x]} /\ r[x] \notin J
      BY <3>4, <3>1
    <3>6. \A z \in I : g[z] \in Int
      BY <3>4
    <3>7. IsFiniteSet(J) /\ SumFunctionOnSet(g, J) = SumFunctionOnSet(f, A)
      BY <3>4, <3>2
    <3>8. IsFiniteSet(I)
      BY <3>5, <3>7, FS_AddElement
    <3>9. SumFunctionOnSet(g, I) = g[r[x]] + SumFunctionOnSet(g, J)
      BY <3>5, <3>6, <3>7, SumAdd
    <3>10. g[r[x]] = f[x]
      BY <3>1
    <3>11. SumFunctionOnSet(g, I) = SumFunctionOnSet(f, T)
      BY <3>4, <3>3, <3>7, <3>9, <3>10
    <3> QED
      BY <3>4, <3>8, <3>11
  <2> QED
    BY <2>2, <2>3
<1> HIDE DEF good
<1>2. S \in good
  BY <1>1, SubsetInduction
<1> QED
  BY <1>2 DEF good

\* A sum of natural numbers is one, and no less than any of its parts.
LEMMA SumNat ==
    ASSUME NEW S, IsFiniteSet(S), NEW f, \A x \in S : f[x] \in Nat
    PROVE  SumFunctionOnSet(f, S) \in Nat
<1> DEFINE good == {T \in SUBSET S : SumFunctionOnSet(f, T) \in Nat}
<1>1. ASSUME NEW T \in SUBSET S, \A U \in SUBSET T : U # T => U \in good
      PROVE  T \in good
  <2>1. IsFiniteSet(T)
    BY FS_Subset
  <2>2. CASE T = {}
    BY <2>2, SumEmpty
  <2>3. CASE T # {}
    <3>1. First(T) \in T
      BY <2>3 DEF First
    <3>2. T \ {First(T)} \in good
      BY <1>1, <3>1
    <3>3. SumFunctionOnSet(f, T) = f[First(T)] + SumFunctionOnSet(f, T \ {First(T)})
      BY <2>1, <2>3, SumFirst
    <3> QED
      BY <3>1, <3>2, <3>3
  <2> QED
    BY <2>2, <2>3
<1> HIDE DEF good
<1>2. S \in good
  BY <1>1, SubsetInduction
<1> QED
  BY <1>2 DEF good

-----------------------------------------------------------------------------
(* The calendar.                                                           *)

(* The calendar *)

\* A finite set of integers has a least and a greatest element.
LEMMA Extremes ==
    ASSUME NEW S, IsFiniteSet(S), S \subseteq Int, S # {}
    PROVE  /\ \E x \in S : \A y \in S : x <= y
           /\ \E x \in S : \A y \in S : x >= y
<1> DEFINE bounded(T) == /\ \E x \in T : \A y \in T : x <= y
                         /\ \E x \in T : \A y \in T : x >= y
<1> DEFINE good == {T \in SUBSET S : T # {} => bounded(T)}
<1>1. ASSUME NEW T \in SUBSET S, \A U \in SUBSET T : U # T => U \in good
      PROVE  T \in good
  <2> SUFFICES ASSUME NEW x \in T PROVE bounded(T)
    OBVIOUS
  <2>1. PICK U : U = T \ {x}
    OBVIOUS
  <2>2. U \in good /\ T = U \cup {x} /\ T \subseteq Int
    BY <1>1, <2>1
  <2>3. CASE U = {}
    BY <2>2, <2>3
  <2>4. CASE U # {}
    <3>1. PICK a, b \in U : \A y \in U : a <= y /\ b >= y
      BY <2>2, <2>4
    <3>2. \E c \in T : \A y \in T : c <= y
      <4>1. CASE a <= x
        BY <2>2, <3>1, <4>1
      <4>2. CASE ~(a <= x)
        BY <2>2, <3>1, <4>2
      <4> QED
        BY <4>1, <4>2
    <3>3. \E c \in T : \A y \in T : c >= y
      <4>1. CASE b >= x
        BY <2>2, <3>1, <4>1
      <4>2. CASE ~(b >= x)
        BY <2>2, <3>1, <4>2
      <4> QED
        BY <4>1, <4>2
    <3> QED
      BY <3>2, <3>3
  <2> QED
    BY <2>3, <2>4
<1> HIDE DEF good
<1>2. S \in good
  BY <1>1, SubsetInduction
<1> QED
  BY <1>2 DEF good

\* The day Earliest chooses.
LEMMA EarliestIsLeast ==
    ASSUME NEW S, IsFiniteSet(S), S \subseteq Int, S # {}
    PROVE  Earliest(S) \in S /\ \A d \in S : Earliest(S) <= d
BY Extremes DEF Earliest

\* The day Latest chooses.
LEMMA LatestIsGreatest ==
    ASSUME NEW S, IsFiniteSet(S), S \subseteq Int, S # {}
    PROVE  Latest(S) \in S /\ \A d \in S : Latest(S) >= d
BY Extremes DEF Latest

\* What is no earlier than all of a set, and in it, is its latest element.
LEMMA LatestIsUnique ==
    ASSUME NEW S, S \subseteq Int, NEW d \in S, \A e \in S : e <= d
    PROVE  Latest(S) = d
<1>1. \A x \in S : (\A y \in S : x >= y) <=> x = d
  OBVIOUS
<1> QED
  BY <1>1 DEF Latest

\* The calendar of a bounded run is finite.
LEMMA SessionsAreFinite == IsFiniteSet(Sessions) /\ Sessions \subseteq Nat
<1>1. FirstCovered \in Int /\ LastCovered \in Int
  BY CalendarAssumption DEF CalendarAssumption
<1>2. IsFiniteSet(FirstCovered .. LastCovered)
  BY <1>1, FS_Interval
<1>3. Sessions \in SUBSET (FirstCovered .. LastCovered)
  BY CalendarAssumption DEF CalendarAssumption
<1>4. IsFiniteSet(Sessions)
  BY <1>2, <1>3, FS_Subset
<1>5. Sessions \subseteq Nat
  BY CalendarAssumption DEF CalendarAssumption
<1> QED
  BY <1>4, <1>5

\* So are the sessions after a day.
LEMMA AfterIsFinite ==
    ASSUME NEW day
    PROVE  IsFiniteSet(After(day)) /\ After(day) \subseteq Nat
<1>1. After(day) \in SUBSET Sessions
  BY DEF After
<1> QED
  BY <1>1, SessionsAreFinite, FS_Subset

\* The n-th smallest element of a finite set.
LEMMA NthExists ==
    ASSUME NEW S, IsFiniteSet(S), S \subseteq Nat, NEW n \in 1 .. Cardinality(S)
    PROVE  \E d \in S : Cardinality({e \in S : e <= d}) = n
<1> DEFINE upto(d) == {e \in S : e <= d}
<1>1. Cardinality(S) \in Nat /\ S \subseteq Int
  BY FS_CardinalityType
<1>2. ASSUME NEW d \in S PROVE IsFiniteSet(upto(d)) /\ Cardinality(upto(d)) \in Nat
  <2>1. upto(d) \in SUBSET S
    OBVIOUS
  <2> HIDE DEF upto
  <2>2. IsFiniteSet(upto(d))
    BY <2>1, FS_Subset
  <2> QED
    BY <2>2, FS_CardinalityType
<1> DEFINE large == {d \in S : Cardinality(upto(d)) >= n}
<1>3. large # {}
  <2>1. S # {}
    BY <1>1, FS_EmptySet
  <2>2. PICK d \in S : \A e \in S : d >= e
    BY <1>1, <2>1, Extremes
  <2>3. \A e \in S : e <= d
    BY <2>2
  <2>4. upto(d) = S
    BY <2>3
  <2>5. d \in large
    BY <1>1, <2>4
  <2> QED
    BY <2>5
<1>4. IsFiniteSet(large) /\ large \subseteq S
  <2>1. large \in SUBSET S
    OBVIOUS
  <2> HIDE DEF large
  <2> QED
    BY <2>1, FS_Subset
<1>5. PICK d \in large : \A e \in large : d <= e
  <2> HIDE DEF large
  <2>1. large \subseteq Int
    BY <1>1, <1>4
  <2> QED
    BY <1>3, <1>4, <2>1, Extremes
<1>6. Cardinality(upto(d)) <= n
  <2> SUFFICES ASSUME Cardinality(upto(d)) > n PROVE FALSE
    BY <1>2
  <2>1. PICK T : T = upto(d) \ {d}
    OBVIOUS
  <2>2. IsFiniteSet(T) /\ Cardinality(T) = Cardinality(upto(d)) - 1
    BY <1>2, <2>1, FS_RemoveElement
  <2>3. Cardinality(T) >= n
    BY <1>2, <2>2
  <2>4. T # {}
    BY <2>3, FS_EmptySet
  <2>5. T \subseteq Int /\ d \in Nat
    BY <1>1, <2>1
  <2>6. PICK c \in T : \A e \in T : c >= e
    BY <2>2, <2>4, <2>5, Extremes
  <2>7. c \in S /\ c \in Nat /\ c <= d /\ c # d
    BY <2>1
  <2>8. c < d
    BY <2>5, <2>7
  <2>9. ASSUME NEW e \in S PROVE e <= c <=> e \in T
    BY <2>1, <2>5, <2>6, <2>8
  <2>10. upto(c) = T
    <3>1. T \subseteq S
      BY <2>1
    <3> QED
      BY <2>9, <3>1
  <2>11. c \in large
    BY <2>3, <2>7, <2>10
  <2> QED
    BY <1>5, <2>5, <2>7, <2>8, <2>11
<1> QED
  BY <1>2, <1>5, <1>6

\* Every day of the run has a settlement date.
LEMMA SettlementDateIsLater ==
    ASSUME NEW day \in Nat, day <= LastDay
    PROVE  /\ SettlementDate(day, SettlementDays) \in Sessions
           /\ SettlementDate(day, SettlementDays) \in Nat
           /\ SettlementDate(day, SettlementDays) >= day
<1>1. PICK d \in Sessions : d >= LastDay /\ Cardinality(After(d)) >= SettlementDays
  BY PaperAssumption DEF PaperAssumption
<1>2. LastDay \in Nat /\ SettlementDays \in Nat
  BY PaperAssumption, CalendarAssumption DEF PaperAssumption, CalendarAssumption, Covered
<1>3. PICK base : base = AddTradingDays(day, 0)
  OBVIOUS
<1>4. base \in Sessions /\ day <= base /\ base <= d
  <2>1. CASE day \in Sessions
    BY <1>1, <1>2, <1>3, <2>1, SessionsAreFinite DEF AddTradingDays
  <2>2. CASE day \notin Sessions
    <3>1. d \in After(day)
      BY <1>1, <1>2, <2>2, SessionsAreFinite DEF After
    <3>2. base = Earliest(After(day))
      BY <1>3, <2>2 DEF AddTradingDays, NextTradingDay
    <3>3. base \in After(day) /\ base <= d
      BY <3>1, <3>2, AfterIsFinite, EarliestIsLeast
    <3> QED
      BY <3>3, SessionsAreFinite DEF After
  <2> QED
    BY <2>1, <2>2
<1>5. SettlementDate(day, SettlementDays) = AddTradingDays(base, SettlementDays)
  BY <1>3 DEF SettlementDate
<1>6. CASE SettlementDays = 0
  BY <1>4, <1>5, <1>6, SessionsAreFinite DEF AddTradingDays
<1>7. CASE SettlementDays # 0
  <2>1. After(d) \subseteq After(base)
    <3>1. ASSUME NEW e \in Sessions, e > d PROVE e > base
      <4>1. e \in Nat /\ d \in Nat /\ base \in Nat
        BY <1>4, SessionsAreFinite
      <4> QED
        BY <1>4, <3>1, <4>1
    <3> QED
      BY <3>1 DEF After
  <2>2. SettlementDays <= Cardinality(After(base))
    <3>1. Cardinality(After(d)) <= Cardinality(After(base)) /\ Cardinality(After(d)) \in Nat
          /\ Cardinality(After(base)) \in Nat
      BY <2>1, AfterIsFinite, FS_Subset, FS_CardinalityType
    <3> QED
      BY <1>1, <1>2, <3>1
  <2>3. SettlementDays \in 1 .. Cardinality(After(base))
    <3>1. Cardinality(After(base)) \in Nat
      BY AfterIsFinite, FS_CardinalityType
    <3> QED
      BY <1>2, <1>7, <2>2, <3>1
  <2>4. \E e \in After(base) : Cardinality({f \in After(base) : f <= e}) = SettlementDays
    BY <2>3, AfterIsFinite, NthExists
  <2>5. AddTradingDays(base, SettlementDays) \in After(base)
    BY <1>7, <2>4 DEF AddTradingDays
  <2>6. PICK e : e = SettlementDate(day, SettlementDays)
    OBVIOUS
  <2>7. e \in Sessions /\ e > base
    BY <1>5, <2>5, <2>6 DEF After
  <2>8. e \in Nat /\ base \in Nat
    BY <1>4, <2>7, SessionsAreFinite
  <2>9. e >= day
    BY <1>4, <2>7, <2>8
  <2> QED
    BY <2>6, <2>7, <2>8, <2>9
<1> QED
  BY <1>6, <1>7

-----------------------------------------------------------------------------
(* The mock broker: sums of proceeds, and the types of its variables.      *)

(* The mock broker's account *)

\* The broker's total and the account's amounts are the same sum.
LEMMA BrokerSum ==
    ASSUME NEW T
    PROVE  Broker!Total(T) = SumFunctionOnSet([e \in T |-> e.amount], T)
BY DEF Broker!Total, Broker!SumFunction, Broker!SumFunctionOnSet,
       Broker!FoldFunctionOnSet, Broker!MapThenFoldSet,
       SumFunctionOnSet, FoldFunctionOnSet, MapThenFoldSet

\* The sums of the models, as sums of a function over a set: of the account's amounts,
LEMMA AccountSum ==
    ASSUME NEW T
    PROVE  Broker!Account!Amounts(T) = SumFunctionOnSet([e \in T |-> e.amount], T)
BY DEF Broker!Account!Amounts, Broker!Account!SumFunction,
       Broker!Account!SumFunctionOnSet, Broker!Account!FoldFunctionOnSet,
       Broker!Account!MapThenFoldSet, SumFunctionOnSet, FoldFunctionOnSet, MapThenFoldSet

\* The instances have calendars of their own, which are the calendar.
LEMMA OneCalendar ==
    ASSUME NEW day, NEW n
    PROVE  /\ Broker!SettlementDate(day, n) = SettlementDate(day, n)
           /\ Broker!Account!SettlementDate(day, n) = SettlementDate(day, n)
<1>1. Broker!SettlementDate(day, n) = SettlementDate(day, n)
  BY DEF Broker!SettlementDate, SettlementDate, Broker!AddTradingDays, AddTradingDays,
         Broker!NextTradingDay, NextTradingDay, Broker!After, After,
         Broker!Earliest, Earliest, Broker!Cardinality, Cardinality
<1>2. Broker!Account!SettlementDate(day, n) = SettlementDate(day, n)
  BY DEF Broker!Account!SettlementDate, SettlementDate,
         Broker!Account!AddTradingDays, AddTradingDays,
         Broker!Account!NextTradingDay, NextTradingDay, Broker!Account!After, After,
         Broker!Account!Earliest, Earliest, Broker!Account!Cardinality, Cardinality
<1> QED
  BY <1>1, <1>2

\* An entry of the settlement ledger, and one of the broker's list.
LedgerEntry == [symbol : Symbols, amount : Nat, settlesOn : Nat]
Proceed == [nr : Nat, symbol : Symbols, amount : Nat, settlesOn : Nat]
\* A position of the broker.
Lot == [quantity : Nat \ {0}, mark : Nat, opened : Nat]

\* The types of what the broker keeps.
BrokerTyped ==
    /\ today \in Nat /\ today <= LastDay
    /\ settled \in Nat
    /\ pending \subseteq Proceed /\ IsFiniteSet(pending)
    /\ DOMAIN positions \subseteq Symbols
    /\ positions \in [DOMAIN positions -> Lot]

\* A total of natural amounts is one.
LEMMA TotalOfAmounts ==
    ASSUME NEW T, IsFiniteSet(T), \A e \in T : e.amount \in Nat
    PROVE  Broker!Total(T) \in Nat
<1> DEFINE amount == [e \in T |-> e.amount]
<1>1. \A e \in T : amount[e] \in Nat
  OBVIOUS
<1> HIDE DEF amount
<1>2. SumFunctionOnSet(amount, T) \in Nat
  BY <1>1, SumNat
<1> QED
  BY <1>2, BrokerSum DEF amount

\* What is due is never negative.
LEMMA TotalIsNat ==
    ASSUME NEW T, IsFiniteSet(T), T \subseteq Proceed
    PROVE  Broker!Total(T) \in Nat
<1>1. \A e \in T : e.amount \in Nat
  BY DEF Proceed
<1> QED
  BY <1>1, TotalOfAmounts

\* Totals of disjoint sets of proceeds add up.
LEMMA TotalOfUnion ==
    ASSUME NEW T, IsFiniteSet(T), T \subseteq Proceed,
           NEW U, IsFiniteSet(U), U \subseteq Proceed, T \cap U = {}
    PROVE  Broker!Total(T \cup U) = Broker!Total(T) + Broker!Total(U)
<1> DEFINE amount(V) == [e \in V |-> e.amount]
<1>1. PICK f : f = amount(T \cup U)
  OBVIOUS
<1>2. \A e \in T \cup U : f[e] \in Int /\ f[e] = e.amount
  BY <1>1 DEF Proceed
<1>3. SumFunctionOnSet(f, T \cup U) = SumFunctionOnSet(f, T) + SumFunctionOnSet(f, U)
  BY <1>2, SumUnion
<1>4. PICK g, h : g = amount(T) /\ h = amount(U)
  OBVIOUS
<1>5. SumFunctionOnSet(f, T) = SumFunctionOnSet(g, T)
  <2>1. \A e \in T : f[e] = g[e]
    BY <1>2, <1>4
  <2> QED
    BY <2>1, SumSame
<1>6. SumFunctionOnSet(f, U) = SumFunctionOnSet(h, U)
  <2>1. \A e \in U : f[e] = h[e]
    BY <1>2, <1>4
  <2> QED
    BY <2>1, SumSame
<1>7. /\ Broker!Total(T \cup U) = SumFunctionOnSet(f, T \cup U)
      /\ Broker!Total(T) = SumFunctionOnSet(g, T)
      /\ Broker!Total(U) = SumFunctionOnSet(h, U)
  BY <1>1, <1>4, BrokerSum
<1> QED
  BY <1>3, <1>5, <1>6, <1>7

\* The total of no proceeds.
LEMMA TotalOfNothing == Broker!Total({}) = 0
BY BrokerSum, SumEmpty

\* The total of one entry is its amount.
LEMMA TotalOfOne ==
    ASSUME NEW e, e.amount \in Nat
    PROVE  Broker!Total({e}) = e.amount
<1>1. PICK f : f = [x \in {e} |-> x.amount]
  OBVIOUS
<1>2. f[e] = e.amount /\ \A x \in {} \cup {e} : f[x] \in Int
  BY <1>1
<1>3. {} \cup {e} = {e} /\ e \notin {}
  OBVIOUS
<1>4. SumFunctionOnSet(f, {} \cup {e}) = f[e] + SumFunctionOnSet(f, {})
  BY <1>2, <1>3, FS_EmptySet, SumAdd
<1>5. SumFunctionOnSet(f, {e}) = e.amount
  BY <1>2, <1>3, <1>4, SumEmpty
<1> QED
  BY <1>1, <1>5, BrokerSum

\* What an entry of the broker is called in the account.
Due(e) == [nr |-> e.nr, symbol |-> e.symbol, amount |-> e.amount, on |-> e.settlesOn]

\* Renaming the broker's entries keeps their total.
LEMMA AmountsOfDue ==
    ASSUME NEW T, IsFiniteSet(T), T \subseteq Proceed
    PROVE  Broker!Account!Amounts({Due(e) : e \in T}) = Broker!Total(T)
<1> DEFINE D == {Due(e) : e \in T}
<1>1. PICK f, r : f = [e \in T |-> e.amount] /\ r = [e \in T |-> Due(e)]
  OBVIOUS
<1>2. PICK g : g = [e \in D |-> e.amount]
  OBVIOUS
<1>3. \A e \in T : /\ r[e] = Due(e) /\ f[e] = e.amount /\ e.amount \in Int
                   /\ Due(e) \in D /\ Due(e).amount = e.amount
  BY <1>1 DEF Proceed, Due
<1>4. \A e \in T : f[e] \in Int /\ g[r[e]] = f[e]
  BY <1>2, <1>3
<1>5. ASSUME NEW e \in T, NEW d \in T, Due(e) = Due(d) PROVE e = d
  <2>1. e \in Proceed /\ d \in Proceed
    OBVIOUS
  <2>2. /\ e.nr = d.nr /\ e.symbol = d.symbol
        /\ e.amount = d.amount /\ e.settlesOn = d.settlesOn
    BY <1>5 DEF Due
  <2> QED
    BY <2>1, <2>2 DEF Proceed
<1>6. \A e, d \in T : r[e] = r[d] => e = d
  BY <1>3, <1>5
<1>7. SumFunctionOnSet(g, {r[e] : e \in T}) = SumFunctionOnSet(f, T)
  BY <1>4, <1>6, SumRenamed
<1>8. {r[e] : e \in T} = D
  BY <1>3
<1> QED
  BY <1>1, <1>2, <1>7, <1>8, BrokerSum, AccountSum

-----------------------------------------------------------------------------
\* Nothing of the broker's money depends on when it was asked last.
LEMMA SettledNowTyped ==
    ASSUME BrokerTyped
    PROVE  /\ Broker!SettledNow \in Nat
           /\ Broker!PendingNow \subseteq Proceed
           /\ IsFiniteSet(Broker!PendingNow)
           /\ \A e \in Broker!PendingNow : e.settlesOn > today
           /\ IsFiniteSet(Broker!Matured) /\ Broker!Matured \subseteq Proceed
<1>1. Broker!Matured \in SUBSET pending /\ Broker!PendingNow \in SUBSET pending
  BY DEF Broker!Matured, Broker!PendingNow
<1>2. pending \subseteq Proceed /\ IsFiniteSet(pending) /\ settled \in Nat /\ today \in Nat
  BY DEF BrokerTyped
<1>3. IsFiniteSet(Broker!Matured) /\ IsFiniteSet(Broker!PendingNow)
  BY <1>1, <1>2, FS_Subset
<1>4. Broker!Matured \subseteq Proceed /\ Broker!PendingNow \subseteq Proceed
  BY <1>1, <1>2
<1>5. Broker!Total(Broker!Matured) \in Nat
  BY <1>3, <1>4, TotalIsNat
<1>6. Broker!SettledNow \in Nat
  BY <1>2, <1>5 DEF Broker!SettledNow
<1>7. ASSUME NEW e \in Broker!PendingNow PROVE e.settlesOn > today
  <2>1. e \in pending /\ ~(e.settlesOn <= today) /\ e.settlesOn \in Nat
    BY <1>4 DEF Broker!PendingNow, Broker!Matured, Proceed
  <2> QED
    BY <1>2, <2>1
<1> QED
  BY <1>3, <1>4, <1>6, <1>7

\* The number of a new entry is that of no other.
LEMMA NumberIsNew ==
    ASSUME BrokerTyped
    PROVE  /\ Broker!NextNr \in Nat
           /\ \A e \in Broker!PendingNow : e.nr # Broker!NextNr
<1>1. PICK taken : taken = {e.nr : e \in Broker!PendingNow}
  OBVIOUS
<1>2. Broker!PendingNow \subseteq Proceed /\ IsFiniteSet(Broker!PendingNow)
  BY SettledNowTyped
<1>3. IsFiniteSet(taken)
  <2>1. PICK number : number = [e \in Broker!PendingNow |-> e.nr]
    OBVIOUS
  <2>2. number \in [Broker!PendingNow -> taken]
    BY <1>1, <2>1
  <2>3. \A n \in taken : \E e \in Broker!PendingNow : number[e] = n
    BY <1>1, <2>1
  <2>4. number \in Surjection(Broker!PendingNow, taken)
    BY <2>2, <2>3 DEF Surjection
  <2> QED
    BY <1>2, <2>4, FS_Surjection
<1>4. \A e \in Broker!PendingNow : e.nr \in Nat /\ e.nr \in taken
  BY <1>1, <1>2 DEF Proceed
<1>5. taken \subseteq Nat
  BY <1>1, <1>4
<1>6. PICK top : top = Broker!Latest(taken)
  OBVIOUS
<1>7. taken # {} => top \in taken /\ \A n \in taken : top >= n
  <2>1. taken \subseteq Int
    BY <1>5
  <2> QED
    BY <1>3, <1>6, <2>1, Extremes DEF Broker!Latest
<1>8. Broker!NextNr = IF taken = {} THEN 1 ELSE 1 + top
  BY <1>1, <1>6 DEF Broker!NextNr
<1>9. CASE taken = {}
  BY <1>4, <1>8, <1>9
<1>10. CASE taken # {}
  <2>1. top \in Nat
    BY <1>5, <1>7, <1>10
  <2>2. ASSUME NEW n \in taken PROVE n # 1 + top
    <3>1. n \in Nat /\ top >= n
      BY <1>5, <1>7, <1>10
    <3> QED
      BY <2>1, <3>1
  <2> QED
    BY <1>4, <1>8, <1>10, <2>1, <2>2
<1> QED
  BY <1>9, <1>10

-----------------------------------------------------------------------------
(* What the steps of the pipeline do to the broker and to the store.       *)

(* What a step does to the broker *)

\* A position of the broker is sold whole, and bought in one order.
SellsAll(s) == s \in DOMAIN positions /\ Broker!SellOrder(s, positions[s].quantity)
Buys(s) == /\ s \notin DOMAIN positions /\ OrderSize > 0
           /\ Broker!BuyOrder(s, OrderSize)

\* What a step of the pipeline does to the broker: seven cases.
LEMMA BrokerSteps ==
    ASSUME [Next]_vars
    PROVE  \/ today' = today /\ UNCHANGED brokerVars
           \/ today' = today /\ Broker!OpenAccount
           \/ today' = today /\ Broker!ReadAccount
           \/ today' = today /\ \E s \in Symbols : SellsAll(s)
           \/ today' = today /\ \E s \in Symbols : Buys(s)
           \/ today < LastDay /\ today' = today + 1 /\ UNCHANGED brokerVars
<1>1. CASE UNCHANGED vars
  BY <1>1 DEF vars, brokerVars
<1>2. CASE \E s \in Symbols, range \in Ranges, outcome \in Outcomes :
             FetchBars(s, range, outcome)
  BY <1>2 DEF FetchBars
<1>3. CASE \E outcomes \in [Symbols -> Outcomes] : RunScript(outcomes)
  BY <1>3 DEF RunScript
<1>4. CASE Simulate \/ FinishSimulation \/ SaveTrackRecord \/ DiscardResult
  BY <1>4 DEF Simulate, FinishSimulation, SaveTrackRecord, DiscardResult, storeVars
<1>5. CASE \E mode \in {"paper", "live"} : StartEngine(mode)
  BY <1>5 DEF StartEngine
<1>6. CASE BeginCycle
  BY <1>6 DEF BeginCycle
<1>7. CASE \E s \in Symbols, cause \in {"compliance_exit", "max_hold"} :
             ExitPosition(s, cause)
  BY <1>7 DEF ExitPosition, SellsAll
<1>8. CASE ExitsDone \/ EndCycle
  BY <1>8 DEF ExitsDone, EndCycle
<1>9. CASE \E s \in Symbols, model \in ModelProbabilities : EnterPosition(s, model)
  BY <1>9 DEF EnterPosition, Buys
<1>10. CASE StopEngine
  BY <1>10 DEF StopEngine
<1>11. CASE NextDay
  BY <1>11 DEF NextDay
<1> QED
  BY <1>1, <1>2, <1>3, <1>4, <1>5, <1>6, <1>7, <1>8, <1>9, <1>10, <1>11 DEF Next

\* The broker starts typed.
LEMMA InitBroker == Init => BrokerTyped
<1> SUFFICES ASSUME Init PROVE BrokerTyped
  OBVIOUS
<1>1. today \in Nat /\ today <= LastDay /\ settled \in Nat
  BY PaperAssumption, CalendarAssumption
     DEF Init, PaperAssumption, CalendarAssumption, Covered
<1>2. pending = {} /\ DOMAIN positions = {} /\ positions = [s \in {} |-> 0]
  BY DEF Init, Broker!NoPosition
<1>3. positions \in [DOMAIN positions -> Lot]
  BY <1>2
<1> QED
  BY <1>1, <1>2, <1>3, FS_EmptySet DEF BrokerTyped


\* The modes an engine runs in.
Modes == {"paper", "live"}
\* The types of the engine's process and of the tables it reads.
EngineType ==
    [pc : {"down", "up", "exits", "entries"}, mode : Modes,
     record : TrackRecord \cup {NoRecord}, known : Nat, startedOn : Nat,
     cash : Nat, starts : Nat]

StoreTyped ==
    /\ engine \in EngineType
    /\ rows \in Seq(TrackRecord)
    /\ ledger \subseteq LedgerEntry /\ IsFiniteSet(ledger)

\* An order that is made is of a positive quantity.
LEMMA OrderSizeTyped ==
    ASSUME StoreTyped, OrderSize > 0
    PROVE  OrderSize \in Nat \ {0}
<1> DEFINE deployable == IF engine.cash > CashBuffer THEN engine.cash - CashBuffer ELSE 0
<1>1. PICK a, b, c : /\ a = RiskBudget \div StopDistance
                     /\ b = MaxNotional \div LastPrice
                     /\ c = deployable \div LastPrice
  OBVIOUS
<1>2. engine.cash \in Nat
  BY DEF StoreTyped, EngineType
<1>3. deployable \in Nat
  BY <1>2, PaperAssumption DEF PaperAssumption
<1> HIDE DEF deployable
<1>4. a \in Int /\ b \in Int /\ c \in Int
  BY <1>1, <1>3, PaperAssumption DEF PaperAssumption
<1>5. PICK quantity : quantity = Min({a, b, c})
  OBVIOUS
<1>6. quantity \in Int
  <2>1. \E x \in {a, b, c} : \A y \in {a, b, c} : x <= y
    BY <1>4
  <2>2. quantity \in {a, b, c}
    BY <1>5, <2>1 DEF Min
  <2> QED
    BY <1>4, <2>2
<1>7. OrderSize = IF quantity * LastPrice < MinNotional THEN 0 ELSE quantity
  BY <1>1, <1>5 DEF OrderSize, deployable
<1> QED
  BY <1>6, <1>7

-----------------------------------------------------------------------------
(* What the steps of the broker do to the account *)

\* Asking the broker moves what is due, and changes no balance.
LEMMA AskingChangesNothing ==
    ASSUME BrokerTyped, today' = today, Broker!SettleDue
    PROVE  /\ Broker!SettledNow' = Broker!SettledNow
           /\ Broker!PendingNow' = Broker!PendingNow
           /\ Broker!Matured' = {}
<1>1. Broker!Matured' = {}
  <2>1. Broker!Matured' = {e \in Broker!PendingNow : e.settlesOn <= today}
    BY DEF Broker!Matured, Broker!SettleDue
  <2>2. ASSUME NEW e \in Broker!PendingNow PROVE ~(e.settlesOn <= today)
    <3>1. e.settlesOn > today /\ e.settlesOn \in Nat /\ today \in Nat
      BY SettledNowTyped DEF BrokerTyped, Proceed
    <3> QED
      BY <3>1
  <2> QED
    BY <2>1, <2>2
<1>2. Broker!PendingNow' = Broker!PendingNow
  BY <1>1 DEF Broker!PendingNow, Broker!SettleDue
<1>3. Broker!SettledNow' = Broker!SettledNow
  <2>1. Broker!SettledNow' = settled' + Broker!Total(Broker!Matured')
    BY DEF Broker!SettledNow, Broker!Total
  <2>2. settled' = Broker!SettledNow /\ Broker!SettledNow \in Nat
    BY SettledNowTyped DEF Broker!SettleDue
  <2> QED
    BY <1>1, <2>1, <2>2, TotalOfNothing
<1> QED
  BY <1>1, <1>2, <1>3

\* A purchase takes its price from settled cash and never more than there is.
LEMMA BuyMoves ==
    ASSUME BrokerTyped, today' = today, NEW s \in Symbols, s \notin DOMAIN positions,
           NEW q \in Nat \ {0}, Broker!ApplyBuy(s, q), Broker!Affordable(q)
    PROVE  /\ Broker!SettledNow' = Broker!SettledNow - q * BuyFill
           /\ Broker!SettledNow' \in 0 .. Broker!SettledNow
           /\ Broker!PendingNow' = Broker!PendingNow
           /\ positions' = [t \in DOMAIN positions \cup {s} |->
                              IF t = s THEN [quantity |-> q, mark |-> BuyFill, opened |-> today]
                              ELSE positions[t]]
           /\ BrokerTyped'
<1>1. /\ Broker!SettledNow \in Nat /\ BuyFill \in Nat /\ q * BuyFill \in Nat
      /\ today \in Nat
  BY SettledNowTyped, PaperAssumption DEF PaperAssumption, BrokerTyped
<1>2. Broker!Matured' = {}
  <2>1. Broker!Matured' = {e \in Broker!PendingNow : e.settlesOn <= today}
    BY DEF Broker!Matured, Broker!ApplyBuy
  <2>2. ASSUME NEW e \in Broker!PendingNow PROVE ~(e.settlesOn <= today)
    <3>1. e.settlesOn > today /\ e.settlesOn \in Nat /\ today \in Nat
      BY SettledNowTyped DEF BrokerTyped, Proceed
    <3> QED
      BY <3>1
  <2> QED
    BY <2>1, <2>2
<1>3. Broker!PendingNow' = Broker!PendingNow
  BY <1>2 DEF Broker!PendingNow, Broker!ApplyBuy
<1>4. q * BuyFill <= Broker!SettledNow
  BY <1>1 DEF Broker!Affordable, Broker!Available
<1>5. settled' = Broker!SettledNow - q * BuyFill /\ settled' \in Nat
  BY <1>1, <1>4 DEF Broker!ApplyBuy
<1>6. Broker!SettledNow' = settled'
  <2>1. Broker!SettledNow' = settled' + Broker!Total(Broker!Matured')
    BY DEF Broker!SettledNow, Broker!Total
  <2> QED
    BY <1>2, <1>5, <2>1, TotalOfNothing
<1>7. positions' = [t \in DOMAIN positions \cup {s} |->
                      IF t = s THEN [quantity |-> q, mark |-> BuyFill, opened |-> today]
                      ELSE positions[t]]
  <2>1. Broker!HeldQuantity(s) = 0 /\ 0 + q = q
    BY DEF Broker!HeldQuantity
  <2> QED
    BY <2>1 DEF Broker!ApplyBuy
<1>8. BrokerTyped'
  <2>1. DOMAIN positions' \subseteq Symbols
    BY <1>7 DEF BrokerTyped
  <2>2. \A t \in DOMAIN positions' : positions'[t] \in Lot
    BY <1>1, <1>7 DEF BrokerTyped, Lot
  <2>3. positions' \in [DOMAIN positions' -> Lot]
    BY <1>7, <2>2
  <2>4. pending' = Broker!PendingNow
    BY DEF Broker!ApplyBuy
  <2>5. today' \in Nat /\ today' <= LastDay
    BY DEF BrokerTyped
  <2> QED
    BY <1>5, <2>1, <2>3, <2>4, <2>5, SettledNowTyped DEF BrokerTyped
<1> QED
  BY <1>1, <1>3, <1>4, <1>5, <1>6, <1>7, <1>8

\* A position is sold as a whole: its proceeds become cash at once when they
\* settle today, and are due otherwise.
LEMMA SellMoves ==
    ASSUME BrokerTyped, today' = today, NEW s \in Symbols, SellsAll(s)
    PROVE  LET entry == [nr |-> Broker!NextNr, symbol |-> s,
                         amount |-> positions[s].quantity * SellFill,
                         settlesOn |-> SettlementDate(today, SettlementDays)]
           IN /\ entry \in Proceed
              /\ positions' = [t \in DOMAIN positions \ {s} |-> positions[t]]
              /\ IF entry.settlesOn > today
                 THEN /\ Broker!PendingNow' = Broker!PendingNow \cup {entry}
                      /\ Broker!SettledNow' = Broker!SettledNow
                 ELSE /\ Broker!PendingNow' = Broker!PendingNow
                      /\ Broker!SettledNow' = Broker!SettledNow + entry.amount
              /\ BrokerTyped'
<1>1. PICK date : date = SettlementDate(today, SettlementDays)
  OBVIOUS
<1>2. today \in Nat /\ today <= LastDay
  BY DEF BrokerTyped
<1>3. date \in Nat /\ date >= today
  BY <1>1, <1>2, SettlementDateIsLater
<1>4. s \in DOMAIN positions /\ positions[s] \in Lot
  BY DEF BrokerTyped, SellsAll
<1>5. PICK amount : amount = positions[s].quantity * SellFill
  OBVIOUS
<1>6. amount \in Nat
  BY <1>4, <1>5, PaperAssumption DEF PaperAssumption, Lot
<1>7. PICK entry : entry = [nr |-> Broker!NextNr, symbol |-> s, amount |-> amount, settlesOn |-> date]
  OBVIOUS
<1>8. entry \in Proceed /\ entry.settlesOn = date /\ entry.amount = amount
  BY <1>3, <1>6, <1>7, NumberIsNew DEF Proceed
<1>9. /\ settled' = Broker!SettledNow
      /\ pending' = Broker!PendingNow \cup {entry}
  BY <1>1, <1>5, <1>7, OneCalendar DEF SellsAll, Broker!SellOrder
<1>10. positions' = [t \in DOMAIN positions \ {s} |-> positions[t]]
  BY <1>4 DEF SellsAll, Broker!SellOrder, Broker!HeldQuantity
<1>11. /\ Broker!SettledNow \in Nat /\ IsFiniteSet(Broker!PendingNow)
       /\ Broker!PendingNow \subseteq Proceed
       /\ \A e \in Broker!PendingNow : e.settlesOn > today
  BY SettledNowTyped
<1>12. Broker!Matured' = IF date > today THEN {} ELSE {entry}
  <2>1. Broker!Matured' = {e \in Broker!PendingNow \cup {entry} : e.settlesOn <= today}
    BY <1>9 DEF Broker!Matured
  <2>2. \A e \in Broker!PendingNow : ~(e.settlesOn <= today)
    BY <1>2, <1>11 DEF Proceed
  <2>3. entry.settlesOn <= today <=> ~(date > today)
    BY <1>2, <1>3, <1>8
  <2> QED
    BY <2>1, <2>2, <2>3
<1>13. Broker!SettledNow' = settled' + Broker!Total(Broker!Matured')
  BY DEF Broker!SettledNow, Broker!Total
<1>14. Broker!PendingNow' = (Broker!PendingNow \cup {entry}) \ Broker!Matured'
  BY <1>9 DEF Broker!PendingNow
<1>15. Broker!Total({entry}) = entry.amount /\ entry.amount \in Nat
  BY <1>6, <1>8, TotalOfOne
<1>16. IF date > today
       THEN /\ Broker!PendingNow' = Broker!PendingNow \cup {entry}
            /\ Broker!SettledNow' = Broker!SettledNow
       ELSE /\ Broker!PendingNow' = Broker!PendingNow
            /\ Broker!SettledNow' = Broker!SettledNow + entry.amount
  <2>1. CASE date > today
    BY <1>9, <1>11, <1>12, <1>13, <1>14, <2>1, TotalOfNothing
  <2>2. CASE ~(date > today)
    <3>1. entry \notin Broker!PendingNow
      BY <1>8, <1>11, <2>2
    <3> QED
      BY <1>9, <1>11, <1>12, <1>13, <1>14, <1>15, <2>2, <3>1
  <2> QED
    BY <2>1, <2>2
<1>17. BrokerTyped'
  <2>1. DOMAIN positions' \subseteq Symbols
    BY <1>10 DEF BrokerTyped
  <2>2. positions' \in [DOMAIN positions' -> Lot]
    BY <1>10 DEF BrokerTyped
  <2>3. pending' \subseteq Proceed /\ IsFiniteSet(pending')
    BY <1>8, <1>9, <1>11, FS_AddElement
  <2>4. settled' \in Nat /\ today' \in Nat /\ today' <= LastDay
    BY <1>2, <1>9, <1>11
  <2> QED
    BY <2>1, <2>2, <2>3, <2>4 DEF BrokerTyped
<1> QED
  BY <1>1, <1>5, <1>7, <1>8, <1>10, <1>16, <1>17

\* A day that passes settles what is due on it, although the broker is not asked.
LEMMA DayMoves ==
    ASSUME BrokerTyped, today < LastDay, today' = today + 1, UNCHANGED brokerVars
    PROVE  LET matures == {e \in Broker!PendingNow : e.settlesOn <= today + 1}
           IN /\ Broker!SettledNow' = Broker!SettledNow + Broker!Total(matures)
              /\ Broker!PendingNow' = Broker!PendingNow \ matures
              /\ BrokerTyped'
<1>1. PICK matures : matures = {e \in Broker!PendingNow : e.settlesOn <= today + 1}
  OBVIOUS
<1>2. /\ today \in Nat /\ LastDay \in Nat /\ settled \in Nat /\ pending \subseteq Proceed
      /\ UNCHANGED <<settled, pending, positions>>
  BY PaperAssumption, CalendarAssumption
     DEF BrokerTyped, PaperAssumption, CalendarAssumption, Covered, brokerVars
<1>3. Broker!Matured' = {e \in pending : e.settlesOn <= today + 1}
  BY <1>2 DEF Broker!Matured
<1>4. Broker!Matured' = Broker!Matured \cup matures
  <2>1. ASSUME NEW e \in pending
        PROVE  e.settlesOn <= today + 1 <=> e \in Broker!Matured \cup matures
    <3>1. e.settlesOn \in Nat
      BY <1>2 DEF Proceed
    <3>2. e.settlesOn <= today => e.settlesOn <= today + 1
      BY <1>2, <3>1
    <3> QED
      BY <1>1, <3>2 DEF Broker!Matured, Broker!PendingNow
  <2>2. Broker!Matured \cup matures \subseteq pending
    BY <1>1 DEF Broker!Matured, Broker!PendingNow
  <2> QED
    BY <1>3, <2>1, <2>2
<1>5. Broker!Matured \cap matures = {}
  BY <1>1 DEF Broker!PendingNow
<1>6. /\ IsFiniteSet(Broker!Matured) /\ Broker!Matured \subseteq Proceed
      /\ IsFiniteSet(Broker!PendingNow) /\ Broker!PendingNow \subseteq Proceed
  BY SettledNowTyped
<1>7. IsFiniteSet(matures) /\ matures \subseteq Proceed
  <2>1. matures \in SUBSET Broker!PendingNow
    BY <1>1
  <2> QED
    BY <1>6, <2>1, FS_Subset
<1>8. Broker!Total(Broker!Matured') = Broker!Total(Broker!Matured) + Broker!Total(matures)
  BY <1>4, <1>5, <1>6, <1>7, TotalOfUnion
<1>9. /\ Broker!Total(Broker!Matured) \in Nat
      /\ Broker!Total(matures) \in Nat
  BY <1>6, <1>7, TotalIsNat
<1>10. Broker!SettledNow' = settled + Broker!Total(Broker!Matured')
  BY <1>2 DEF Broker!SettledNow, Broker!Total
<1>11. Broker!SettledNow' = Broker!SettledNow + Broker!Total(matures)
  BY <1>2, <1>8, <1>9, <1>10 DEF Broker!SettledNow
<1>12. Broker!PendingNow' = Broker!PendingNow \ matures
  BY <1>2, <1>4 DEF Broker!PendingNow
<1>13. BrokerTyped'
  BY <1>2 DEF BrokerTyped
<1> QED
  BY <1>1, <1>11, <1>12, <1>13

\* Reading the account keeps the types.
LEMMA AskingTyped ==
    ASSUME BrokerTyped, today' = today, Broker!ReadAccount
    PROVE  BrokerTyped'
BY SettledNowTyped DEF BrokerTyped, Broker!ReadAccount, Broker!SettleDue

\* A broker that is opened starts from the configured cash, with nothing due.
LEMMA OpeningTyped ==
    ASSUME BrokerTyped, today' = today, Broker!OpenAccount
    PROVE  /\ BrokerTyped'
           /\ Broker!SettledNow' = StartingCash
           /\ Broker!PendingNow' = {}
           /\ DOMAIN positions' = {}
<1>1. settled' = StartingCash /\ pending' = {} /\ positions' = [s \in {} |-> 0]
  BY DEF Broker!OpenAccount, Broker!NoPosition
<1>2. StartingCash \in Nat
  BY PaperAssumption DEF PaperAssumption
<1>3. BrokerTyped'
  <2>1. positions' \in [DOMAIN positions' -> Lot] /\ DOMAIN positions' = {}
    BY <1>1
  <2> QED
    BY <1>1, <1>2, <2>1, FS_EmptySet DEF BrokerTyped
<1>4. Broker!Matured' = {}
  BY <1>1 DEF Broker!Matured
<1>5. Broker!SettledNow' = settled' + Broker!Total(Broker!Matured')
  BY DEF Broker!SettledNow, Broker!Total
<1>6. Broker!PendingNow' = {}
  BY <1>1 DEF Broker!PendingNow
<1> QED
  BY <1>1, <1>2, <1>3, <1>4, <1>5, <1>6, TotalOfNothing

-----------------------------------------------------------------------------
(* The invariant of the engine's half.                                     *)

(* The engine's process and what it leaves in the database *)

\* The types of the backtest script and of a row of the equity curve.
ScriptType == [pc : {"idle", "running", "measured", "over"}, synthetic : BOOLEAN,
               invented : BOOLEAN,
               result : [trades : TradeCounts, winning : BOOLEAN, measurable : BOOLEAN]]
CurveRow == [equity : Int, mode : Modes, dayPnl : Int \cup {None}]

\* The record the engine acts on is the newest there was when it started.
Evidence ==
    /\ engine.known <= Len(rows)
    /\ engine.record # NoRecord =>
         /\ engine.known > 0
         /\ engine.record = rows[engine.known]
         /\ rows[engine.known].outOfSample
         /\ engine.startedOn - rows[engine.known].measured <= MaxAgeDays

\* No row is of a day to come.
CurveTyped ==
    /\ IsFiniteSet(DOMAIN curve) /\ DOMAIN curve \subseteq Nat
    /\ \A d \in DOMAIN curve : d <= today
    /\ curve \in [DOMAIN curve -> CurveRow]

\* The parts together.
EngineInv ==
    /\ BrokerTyped
    /\ StoreTyped
    /\ script \in ScriptType
    /\ Evidence
    /\ CurveTyped
    /\ DayPnlIsOfOneMode

\* What the settlement ledger leaves to spend is never negative.
LEMMA SpendableTyped ==
    ASSUME BrokerTyped, StoreTyped
    PROVE  Spendable \in Nat
<1>1. PICK late : late = {e \in ledger : e.settlesOn > today}
  OBVIOUS
<1>2. late \in SUBSET ledger
  BY <1>1
<1>3. IsFiniteSet(late) /\ \A e \in late : e.amount \in Nat
  BY <1>2, FS_Subset DEF StoreTyped, LedgerEntry
<1>4. Broker!Total(late) \in Nat
  BY <1>3, TotalOfAmounts
<1>5. Broker!SettledNow \in Nat
  BY SettledNowTyped
<1>6. Spendable = IF Broker!SettledNow > Broker!Total(late)
                  THEN Broker!SettledNow - Broker!Total(late) ELSE 0
  BY <1>1 DEF Spendable
<1> QED
  BY <1>4, <1>5, <1>6

\* The equity is an integer.
LEMMA EquityTyped ==
    ASSUME BrokerTyped
    PROVE  Broker!Equity \in Int
<1>1. Broker!SettledNow \in Nat /\ Broker!Total(Broker!PendingNow) \in Nat
  BY SettledNowTyped, TotalIsNat
<1>2. PICK value : value = [s \in DOMAIN positions |->
                              positions[s].quantity * positions[s].mark]
  OBVIOUS
<1>3. IsFiniteSet(DOMAIN positions)
  <2>1. DOMAIN positions \in SUBSET Symbols
    BY DEF BrokerTyped
  <2> QED
    BY <2>1, MarketDataAssumption, FS_Subset DEF MarketDataAssumption
<1>4. \A s \in DOMAIN positions : value[s] \in Int
  BY <1>2 DEF BrokerTyped, Lot
<1>5. SumFunctionOnSet(value, DOMAIN positions) \in Int
  BY <1>3, <1>4, SumType
<1>6. DOMAIN value = DOMAIN positions
  BY <1>2
<1>7. Broker!PositionsValue = SumFunctionOnSet(value, DOMAIN positions)
  BY <1>2, <1>6 DEF Broker!PositionsValue, Broker!SumFunction, Broker!SumFunctionOnSet,
       Broker!FoldFunctionOnSet, Broker!MapThenFoldSet,
       SumFunctionOnSet, FoldFunctionOnSet, MapThenFoldSet
<1> QED
  BY <1>1, <1>5, <1>7 DEF Broker!Equity

\* Loading finds the last row stored, or refuses it.
LEMMA LoadIsNewest ==
    ASSUME StoreTyped
    PROVE  /\ Load(today) \in TrackRecord \cup {NoRecord}
           /\ Load(today) # NoRecord =>
                /\ Len(rows) > 0
                /\ Load(today) = rows[Len(rows)]
                /\ rows[Len(rows)].outOfSample
                /\ ~Expired(rows[Len(rows)], today)
<1>1. rows \in Seq(TrackRecord)
  BY DEF StoreTyped
<1>2. CASE Loadable(today)
  <2>1. Load(today) = rows[Len(rows)] /\ rows # <<>>
    BY <1>2 DEF Load, Loadable, Newest
  <2>2. Len(rows) > 0 /\ Len(rows) \in 1 .. Len(rows)
    BY <1>1, <2>1
  <2>3. rows[Len(rows)] \in TrackRecord
    BY <1>1, <2>2
  <2> QED
    BY <1>2, <2>1, <2>2, <2>3 DEF Loadable, Newest
<1>3. CASE ~Loadable(today)
  BY <1>3 DEF Load
<1> QED
  BY <1>2, <1>3

-----------------------------------------------------------------------------
(* Every step keeps it.                                                    *)

\* Every step keeps the types of the broker.
LEMMA BrokerStaysTyped ==
    ASSUME BrokerTyped, StoreTyped, [Next]_vars
    PROVE  BrokerTyped'
<1>1. CASE today' = today /\ UNCHANGED brokerVars
  BY <1>1 DEF BrokerTyped, brokerVars
<1>2. CASE today' = today /\ Broker!OpenAccount
  BY <1>2, OpeningTyped
<1>3. CASE today' = today /\ Broker!ReadAccount
  BY <1>3, AskingTyped
<1>4. CASE today' = today /\ \E s \in Symbols : SellsAll(s)
  BY <1>4, SellMoves
<1>5. CASE today' = today /\ \E s \in Symbols : Buys(s)
  <2>1. PICK s \in Symbols : Buys(s)
    BY <1>5
  <2>2. PICK q : q = OrderSize
    OBVIOUS
  <2>3. q \in Nat \ {0} /\ s \notin DOMAIN positions /\ Broker!BuyOrder(s, q)
    BY <2>1, <2>2, OrderSizeTyped DEF Buys
  <2>4. CASE Broker!Affordable(q)
    BY <1>5, <2>3, <2>4, BuyMoves DEF Broker!BuyOrder
  <2>5. CASE ~Broker!Affordable(q)
    BY <1>5, <2>3, <2>5, AskingTyped DEF Broker!BuyOrder
  <2> QED
    BY <2>4, <2>5
<1>6. CASE today < LastDay /\ today' = today + 1 /\ UNCHANGED brokerVars
  BY <1>6, DayMoves
<1> QED
  BY <1>1, <1>2, <1>3, <1>4, <1>5, <1>6, BrokerSteps

\* What a step does to the engine's process and to the tables.
LEMMA EngineSteps ==
    ASSUME [Next]_vars
    PROVE  \/ UNCHANGED <<engine, rows, curve, ledger>>
           \/ /\ script.pc = "measured" /\ script.result.measurable
              /\ SaveRow(today, script.result.trades, script.result.winning, TRUE)
              /\ UNCHANGED <<engine, curve, ledger, today>>
           \/ (\E mode \in Modes : StartEngine(mode)) \/ StopEngine
           \/ BeginCycle \/ ExitsDone \/ EndCycle
           \/ \E s \in Symbols, cause \in {"compliance_exit", "max_hold"} :
                ExitPosition(s, cause)
<1>1. CASE UNCHANGED vars
  BY <1>1 DEF vars, storeVars
<1>2. CASE \E s \in Symbols, range \in Ranges, outcome \in Outcomes :
             FetchBars(s, range, outcome)
  BY <1>2 DEF FetchBars, storeVars
<1>3. CASE \E outcomes \in [Symbols -> Outcomes] : RunScript(outcomes)
  BY <1>3 DEF RunScript, storeVars
<1>4. CASE Simulate \/ FinishSimulation \/ DiscardResult
  BY <1>4 DEF Simulate, FinishSimulation, DiscardResult, storeVars
<1>5. CASE SaveTrackRecord
  BY <1>5 DEF SaveTrackRecord
<1>6. CASE \E s \in Symbols, model \in ModelProbabilities : EnterPosition(s, model)
  BY <1>6 DEF EnterPosition
<1>7. CASE NextDay
  BY <1>7 DEF NextDay
<1> QED
  BY <1>1, <1>2, <1>3, <1>4, <1>5, <1>6, <1>7 DEF Next, Modes

\* Every step keeps the types of the engine and of the tables.
LEMMA StoreStaysTyped ==
    ASSUME EngineInv, [Next]_vars
    PROVE  StoreTyped'
<1> USE DEF EngineInv
<1>1. /\ engine \in EngineType /\ rows \in Seq(TrackRecord)
      /\ ledger \subseteq LedgerEntry /\ IsFiniteSet(ledger)
      /\ today \in Nat /\ today <= LastDay
  BY DEF StoreTyped, BrokerTyped
<1>2. CASE UNCHANGED <<engine, rows, curve, ledger>>
  BY <1>2 DEF StoreTyped
<1>3. CASE /\ script.pc = "measured" /\ script.result.measurable
           /\ SaveRow(today, script.result.trades, script.result.winning, TRUE)
           /\ UNCHANGED <<engine, curve, ledger, today>>
  <2>1. PICK row : row = [measured |-> today, trades |-> script.result.trades,
                          winning |-> script.result.winning, outOfSample |-> TRUE]
    OBVIOUS
  <2>2. row \in TrackRecord
    BY <1>1, <2>1 DEF TrackRecord, ScriptType
  <2>3. rows' = Append(rows, row)
    BY <1>3, <2>1 DEF SaveRow
  <2> QED
    BY <1>1, <1>3, <2>2, <2>3 DEF StoreTyped
<1>4. CASE \E mode \in Modes : StartEngine(mode)
  <2>1. PICK mode \in Modes : StartEngine(mode)
    BY <1>4
  <2>2. PICK record : record = Load(today)
    OBVIOUS
  <2>3. record \in TrackRecord \cup {NoRecord} /\ Len(rows) \in Nat
    BY <1>1, <2>2, LoadIsNewest
  <2>4. engine' = [EngineDown EXCEPT !.pc = "up", !.mode = mode, !.record = record,
                     !.known = Len(rows), !.startedOn = today, !.starts = engine.starts + 1]
    BY <2>1, <2>2 DEF StartEngine
  <2>5. engine.starts + 1 \in Nat
    BY <1>1 DEF EngineType
  <2>6. engine' = [pc |-> "up", mode |-> mode, record |-> record, known |-> Len(rows),
                   startedOn |-> today, cash |-> 0, starts |-> engine.starts + 1]
    BY <2>4 DEF EngineDown
  <2>7. engine' \in EngineType
    BY <1>1, <2>3, <2>5, <2>6 DEF EngineType
  <2> QED
    BY <1>1, <2>1, <2>7 DEF StoreTyped, StartEngine, storeVars
<1>5. CASE StopEngine
  BY <1>1, <1>5 DEF StopEngine, StoreTyped, storeVars, EngineType, EngineDown, Modes
<1>6. CASE BeginCycle
  <2>1. ledger' \in SUBSET ledger
    BY <1>6 DEF BeginCycle
  <2>2. IsFiniteSet(ledger') /\ ledger' \subseteq LedgerEntry
    BY <1>1, <2>1, FS_Subset
  <2> QED
    BY <1>1, <1>6, <2>2 DEF BeginCycle, StoreTyped, EngineType
<1>7. CASE ExitsDone
  BY <1>1, <1>7, SpendableTyped DEF ExitsDone, StoreTyped, storeVars, EngineType
<1>8. CASE EndCycle
  BY <1>1, <1>8 DEF EndCycle, StoreTyped, EngineType
<1>9. CASE \E s \in Symbols, cause \in {"compliance_exit", "max_hold"} :
             ExitPosition(s, cause)
  <2>1. PICK s \in Symbols, cause \in {"compliance_exit", "max_hold"} :
           ExitPosition(s, cause)
    BY <1>9
  <2>2. PICK date : date = SettlementDate(today, SettlementDays)
    OBVIOUS
  <2>3. date \in Nat
    BY <1>1, <2>2, SettlementDateIsLater
  <2>4. positions[s] \in Lot
    BY <2>1 DEF ExitPosition, BrokerTyped
  <2>5. PICK entry : entry = [symbol |-> s, settlesOn |-> date,
                              amount |-> positions[s].quantity * positions[s].mark]
    OBVIOUS
  <2>6. entry \in LedgerEntry
    BY <2>3, <2>4, <2>5 DEF LedgerEntry, Lot
  <2>7. ledger' = ledger \/ ledger' = ledger \cup {entry}
    BY <2>1, <2>2, <2>5 DEF ExitPosition
  <2>8. ledger' \subseteq LedgerEntry /\ IsFiniteSet(ledger')
    BY <1>1, <2>6, <2>7, FS_AddElement
  <2> QED
    BY <1>1, <2>1, <2>8 DEF ExitPosition, StoreTyped
<1> QED
  BY <1>2, <1>3, <1>4, <1>5, <1>6, <1>7, <1>8, <1>9, EngineSteps

\* Every step keeps the type of the script.
LEMMA ScriptStaysTyped ==
    ASSUME script \in ScriptType, [Next]_vars
    PROVE  script' \in ScriptType
<1>1. CASE UNCHANGED vars
  BY <1>1 DEF vars, scriptVars
<1>2. CASE \E s \in Symbols, range \in Ranges, outcome \in Outcomes :
             FetchBars(s, range, outcome)
  BY <1>2 DEF FetchBars
<1>3. CASE \E outcomes \in [Symbols -> Outcomes] : RunScript(outcomes)
  <2>1. PICK synthetic \in BOOLEAN, invented \in BOOLEAN :
          script' = [script EXCEPT !.pc = "running", !.synthetic = synthetic,
                                   !.invented = invented]
    BY <1>3 DEF RunScript
  <2> QED
    BY <2>1 DEF ScriptType
<1>4. CASE Simulate
  BY <1>4 DEF Simulate, scriptVars
<1>5. CASE FinishSimulation
  <2>1. PICK result : result = Measured
    OBVIOUS
  <2>2. result \in [trades : TradeCounts, winning : BOOLEAN, measurable : BOOLEAN]
    BY <2>1 DEF Measured, TradeCounts
  <2>3. script' = [pc |-> "measured", synthetic |-> FALSE, invented |-> FALSE,
                   result |-> result]
    BY <1>5, <2>1 DEF FinishSimulation, IdleScript
  <2> QED
    BY <2>2, <2>3 DEF ScriptType
<1>6. CASE SaveTrackRecord \/ DiscardResult
  <2>1. script' = [script EXCEPT !.pc = "over", !.result = NoResult]
    BY <1>6 DEF SaveTrackRecord, DiscardResult
  <2>2. NoResult \in [trades : TradeCounts, winning : BOOLEAN, measurable : BOOLEAN]
    BY DEF NoResult, TradeCounts
  <2> QED
    BY <2>1, <2>2 DEF ScriptType
<1>7. CASE \E mode \in {"paper", "live"} : StartEngine(mode)
  BY <1>7 DEF StartEngine, scriptVars
<1>8. CASE BeginCycle \/ ExitsDone \/ EndCycle \/ StopEngine \/ NextDay
  BY <1>8 DEF BeginCycle, ExitsDone, EndCycle, StopEngine, NextDay, scriptVars
<1>9. CASE \E s \in Symbols, cause \in {"compliance_exit", "max_hold"} :
             ExitPosition(s, cause)
  BY <1>9 DEF ExitPosition, scriptVars
<1>10. CASE \E s \in Symbols, model \in ModelProbabilities : EnterPosition(s, model)
  BY <1>10 DEF EnterPosition, scriptVars
<1> QED
  BY <1>1, <1>2, <1>3, <1>4, <1>5, <1>6, <1>7, <1>8, <1>9, <1>10 DEF Next

\* Rows are only appended and the record is only read at the start.
LEMMA EvidenceStays ==
    ASSUME EngineInv, [Next]_vars
    PROVE  Evidence'
<1>1. /\ engine \in EngineType /\ rows \in Seq(TrackRecord)
      /\ today \in Nat /\ Evidence
  BY DEF EngineInv, StoreTyped, BrokerTyped
<1>2. CASE UNCHANGED <<engine, rows, curve, ledger>>
  BY <1>1, <1>2 DEF Evidence
<1>3. CASE /\ script.pc = "measured" /\ script.result.measurable
           /\ SaveRow(today, script.result.trades, script.result.winning, TRUE)
           /\ UNCHANGED <<engine, curve, ledger, today>>
  <2>1. PICK row : rows' = Append(rows, row)
    BY <1>3 DEF SaveRow
  <2>2. Len(rows') = Len(rows) + 1 /\ \A i \in 1 .. Len(rows) : rows'[i] = rows[i]
    BY <1>1, <2>1
  <2>3. engine.known \in Nat /\ Len(rows) \in Nat
    BY <1>1 DEF EngineType
  <2> QED
    BY <1>1, <1>3, <2>2, <2>3 DEF Evidence
<1>4. CASE \E mode \in Modes : StartEngine(mode)
  <2>1. PICK mode \in Modes : StartEngine(mode)
    BY <1>4
  <2>2. PICK record : record = Load(today)
    OBVIOUS
  <2>3. /\ engine'.record = record /\ engine'.known = Len(rows)
        /\ engine'.startedOn = today /\ rows' = rows
    BY <2>1, <2>2 DEF StartEngine, EngineDown, storeVars
  <2>4. Len(rows) \in Nat
    BY <1>1
  <2>5. ASSUME record # NoRecord
        PROVE  /\ Len(rows) > 0 /\ record = rows[Len(rows)]
               /\ rows[Len(rows)].outOfSample
               /\ today - rows[Len(rows)].measured <= MaxAgeDays
    <3>1. /\ Len(rows) > 0 /\ record = rows[Len(rows)]
          /\ rows[Len(rows)].outOfSample /\ ~Expired(rows[Len(rows)], today)
      BY <1>1, <2>2, <2>5, LoadIsNewest DEF EngineInv
    <3>2. rows[Len(rows)].measured \in Int /\ MaxAgeDays \in Nat \ {0}
      <4>1. Len(rows) \in 1 .. Len(rows)
        BY <2>4, <3>1
      <4>2. rows[Len(rows)] \in TrackRecord
        BY <1>1, <4>1
      <4> QED
        BY <4>2, AgeAssumption DEF TrackRecord, AgeAssumption
    <3> QED
      BY <1>1, <3>1, <3>2 DEF Expired
  <2> QED
    BY <2>3, <2>4, <2>5 DEF Evidence
<1>5. CASE StopEngine
  BY <1>1, <1>5 DEF StopEngine, EngineDown, storeVars, Evidence
<1>6. CASE BeginCycle
  BY <1>1, <1>6 DEF BeginCycle, Evidence, EngineType
<1>7. CASE ExitsDone
  BY <1>1, <1>7 DEF ExitsDone, storeVars, Evidence, EngineType
<1>8. CASE EndCycle
  BY <1>1, <1>8 DEF EndCycle, Evidence, EngineType
<1>9. CASE \E s \in Symbols, cause \in {"compliance_exit", "max_hold"} :
             ExitPosition(s, cause)
  BY <1>1, <1>9 DEF ExitPosition, Evidence
<1> QED
  BY <1>2, <1>3, <1>4, <1>5, <1>6, <1>7, <1>8, <1>9, EngineSteps

\* The profit in a row of a day is the one the earlier rows give, and they are
\* settled when the row is written.
SameMode(c, d) == {e \in DOMAIN c : e < d /\ c[e].mode = c[d].mode}
PnlOf(c, d) == IF SameMode(c, d) = {} THEN None
               ELSE c[d].equity - c[Latest(SameMode(c, d))].equity

\* The property, with the rows of a mode named.
LEMMA PnlIsByMode ==
    DayPnlIsOfOneMode <=> \A d \in DOMAIN curve : curve[d].dayPnl = PnlOf(curve, d)
BY DEF DayPnlIsOfOneMode, PnlOf, SameMode

\* What RecordSnapshot computes for a day.
LEMMA DayPnlTyped ==
    ASSUME CurveTyped, NEW mode \in Modes, NEW equity \in Int
    PROVE  /\ DayPnl(today, mode, equity) \in Int \cup {None}
           /\ LET earlier == EarlierRows(today, mode)
              IN DayPnl(today, mode, equity) =
                   IF earlier = {} THEN None ELSE equity - curve[Latest(earlier)].equity
<1>1. PICK earlier : earlier = EarlierRows(today, mode)
  OBVIOUS
<1>2. earlier \in SUBSET DOMAIN curve
  BY <1>1 DEF EarlierRows
<1>3. IsFiniteSet(earlier) /\ earlier \subseteq Int
  BY <1>2, FS_Subset DEF CurveTyped
<1>4. CASE earlier = {}
  BY <1>1, <1>4 DEF DayPnl, PreviousEquity
<1>5. CASE earlier # {}
  <2>1. Latest(earlier) \in earlier
    BY <1>3, <1>5, LatestIsGreatest
  <2>2. ASSUME NEW d \in earlier, NEW e \in earlier PROVE (e <= d) <=> (d >= e)
    BY <1>3
  <2>3. (CHOOSE d \in earlier : \A e \in earlier : e <= d) = Latest(earlier)
    <3>1. \A d \in earlier : (\A e \in earlier : e <= d) <=> (\A e \in earlier : d >= e)
      BY <2>2
    <3> QED
      BY <3>1 DEF Latest
  <2>4. PreviousEquity(today, mode) = curve[Latest(earlier)].equity
    BY <1>1, <1>5, <2>3 DEF PreviousEquity
  <2>5. curve[Latest(earlier)].equity \in Int
    BY <1>2, <2>1 DEF CurveTyped, CurveRow
  <2>6. PreviousEquity(today, mode) # None
    BY <2>4, <2>5, NoneAssumption DEF NoneAssumption
  <2> QED
    BY <1>1, <1>5, <2>4, <2>5, <2>6 DEF DayPnl
<1> QED
  BY <1>4, <1>5

\* Writing the row of today, again or for the first time, leaves the earlier rows.
LEMMA SnapshotKeepsTheCurve ==
    ASSUME CurveTyped, DayPnlIsOfOneMode, today \in Nat, today' = today,
           NEW mode \in Modes, NEW equity \in Int,
           RecordSnapshot(today, mode, equity)
    PROVE  CurveTyped' /\ DayPnlIsOfOneMode'
<1>1. PICK pnl : pnl = DayPnl(today, mode, equity)
  OBVIOUS
<1>2. PICK earlier : earlier = EarlierRows(today, mode)
  OBVIOUS
<1>3. /\ pnl \in Int \cup {None}
      /\ pnl = IF earlier = {} THEN None ELSE equity - curve[Latest(earlier)].equity
  BY <1>1, <1>2, DayPnlTyped
<1>4. curve' = [d \in DOMAIN curve \cup {today} |->
                  IF d = today THEN [equity |-> equity, mode |-> mode, dayPnl |-> pnl]
                  ELSE curve[d]]
  BY <1>1 DEF RecordSnapshot
<1>5. /\ IsFiniteSet(DOMAIN curve) /\ DOMAIN curve \subseteq Nat
      /\ \A d \in DOMAIN curve : d <= today /\ curve[d] \in CurveRow
  BY DEF CurveTyped
<1>6. CurveTyped'
  <2>1. IsFiniteSet(DOMAIN curve') /\ DOMAIN curve' \subseteq Nat
    BY <1>4, <1>5, FS_AddElement
  <2>2. \A d \in DOMAIN curve' : d <= today' /\ curve'[d] \in CurveRow
    BY <1>3, <1>4, <1>5 DEF CurveRow
  <2>3. curve' \in [DOMAIN curve' -> CurveRow]
    BY <1>4, <2>2
  <2> QED
    BY <2>1, <2>2, <2>3 DEF CurveTyped
<1>7. ASSUME NEW d \in DOMAIN curve' PROVE curve'[d].dayPnl = PnlOf(curve', d)
  <2>1. CASE d = today
    <3>1. curve'[d].mode = mode /\ curve'[d].equity = equity /\ curve'[d].dayPnl = pnl
      BY <1>4, <2>1
    <3>2. SameMode(curve', d) = earlier
      <4>1. \A e \in DOMAIN curve : e < today => curve'[e] = curve[e]
        BY <1>4, <1>5
      <4> QED
        BY <1>2, <1>4, <1>5, <2>1, <3>1, <4>1 DEF SameMode, EarlierRows
    <3>3. earlier # {} => curve'[Latest(earlier)].equity = curve[Latest(earlier)].equity
      <4>1. earlier \in SUBSET DOMAIN curve /\ today \notin earlier
        BY <1>2, <1>5 DEF EarlierRows
      <4>2. IsFiniteSet(earlier) /\ earlier \subseteq Int
        BY <1>5, <4>1, FS_Subset
      <4>3. earlier # {} => Latest(earlier) \in earlier
        BY <4>2, LatestIsGreatest
      <4> QED
        BY <1>4, <4>1, <4>3
    <3> QED
      BY <1>3, <3>1, <3>2, <3>3 DEF PnlOf
  <2>2. CASE d # today
    <3>1. d \in DOMAIN curve /\ curve'[d] = curve[d] /\ d <= today
      BY <1>4, <1>5, <2>2
    <3>2. \A e \in DOMAIN curve : e < d => e # today /\ curve'[e] = curve[e]
      BY <1>4, <1>5, <3>1
    <3>3. ~(today < d)
      BY <1>5, <3>1
    <3>4. SameMode(curve', d) = SameMode(curve, d)
      BY <1>4, <3>1, <3>2, <3>3 DEF SameMode
    <3>5. PICK same : same = SameMode(curve, d)
      OBVIOUS
    <3>6. same \in SUBSET DOMAIN curve /\ \A e \in same : e < d
      BY <3>5 DEF SameMode
    <3>7. same # {} => curve'[Latest(same)] = curve[Latest(same)]
      <4>1. IsFiniteSet(same) /\ same \subseteq Int
        BY <1>5, <3>6, FS_Subset
      <4>2. same # {} => Latest(same) \in same
        BY <4>1, LatestIsGreatest
      <4> QED
        BY <3>2, <3>6, <4>2
    <3>8. curve[d].dayPnl = PnlOf(curve, d)
      BY <3>1, PnlIsByMode
    <3> QED
      BY <3>1, <3>4, <3>5, <3>7, <3>8 DEF PnlOf
  <2> QED
    BY <2>1, <2>2
<1>8. DayPnlIsOfOneMode'
  BY <1>7 DEF DayPnlIsOfOneMode, PnlOf, SameMode
<1> QED
  BY <1>6, <1>8

\* Only the end of a cycle writes a row.
LEMMA CurveStays ==
    ASSUME EngineInv, [Next]_vars
    PROVE  CurveTyped' /\ DayPnlIsOfOneMode'
<1>1. today \in Nat /\ engine.mode \in Modes /\ CurveTyped /\ DayPnlIsOfOneMode
  BY DEF EngineInv, StoreTyped, BrokerTyped, EngineType
<1>2. CASE UNCHANGED curve /\ (today' = today \/ today' = today + 1)
  <2>1. \A d \in DOMAIN curve : d <= today'
    BY <1>1, <1>2 DEF CurveTyped
  <2> QED
    BY <1>1, <1>2, <2>1 DEF CurveTyped, DayPnlIsOfOneMode
<1>3. CASE EndCycle
  <2>1. PICK equity : equity = Broker!Equity
    OBVIOUS
  <2>2. equity \in Int
    BY <2>1, EquityTyped DEF EngineInv
  <2>3. RecordSnapshot(today, engine.mode, equity) /\ today' = today
    BY <1>3, <2>1 DEF EndCycle
  <2> QED
    BY <1>1, <2>2, <2>3, SnapshotKeepsTheCurve
<1>4. today' = today \/ today' = today + 1
  BY BrokerSteps
<1>5. UNCHANGED curve \/ EndCycle
  <2>1. CASE \E mode \in Modes : StartEngine(mode)
    BY <2>1 DEF StartEngine, storeVars
  <2>2. CASE StopEngine \/ BeginCycle \/ ExitsDone
    BY <2>2 DEF StopEngine, BeginCycle, ExitsDone, storeVars
  <2>3. CASE \E s \in Symbols, cause \in {"compliance_exit", "max_hold"} :
               ExitPosition(s, cause)
    BY <2>3 DEF ExitPosition
  <2> QED
    BY <2>1, <2>2, <2>3, EngineSteps
<1> QED
  BY <1>2, <1>3, <1>4, <1>5

\* The initial states satisfy the invariant.
LEMMA EngineInvInit == Init => EngineInv
<1> SUFFICES ASSUME Init PROVE EngineInv
  OBVIOUS
<1>1. BrokerTyped
  BY InitBroker
<1>2. EngineDown \in EngineType
  BY DEF EngineDown, EngineType, Modes
<1>3. StoreTyped
  <2>1. rows \in Seq(TrackRecord)
    BY PaperAssumption DEF Init, PaperAssumption
  <2> QED
    BY <1>2, <2>1, FS_EmptySet DEF Init, StoreTyped
<1>4. script \in ScriptType
  BY DEF Init, IdleScript, NoResult, ScriptType, TradeCounts
<1>5. Evidence
  <2>1. rows \in Seq(TrackRecord) /\ engine = EngineDown
    BY <1>3 DEF StoreTyped, Init
  <2> QED
    BY <2>1 DEF EngineDown, Evidence
<1>6. DOMAIN curve = {}
  BY DEF Init, EmptyCurve
<1>7. CurveTyped /\ DayPnlIsOfOneMode
  <2>1. curve \in [DOMAIN curve -> CurveRow]
    BY <1>6 DEF Init, EmptyCurve
  <2> QED
    BY <1>6, <2>1, FS_EmptySet DEF CurveTyped, DayPnlIsOfOneMode
<1> QED
  BY <1>1, <1>3, <1>4, <1>5, <1>7 DEF EngineInv

\* One fact per part.
LEMMA EngineInvStep == EngineInv /\ [Next]_vars => EngineInv'
<1> SUFFICES ASSUME EngineInv, [Next]_vars PROVE EngineInv'
  OBVIOUS
<1>1. BrokerTyped'
  BY BrokerStaysTyped DEF EngineInv
<1>2. script' \in ScriptType
  BY ScriptStaysTyped DEF EngineInv
<1> QED
  BY <1>1, <1>2, StoreStaysTyped, EvidenceStays, CurveStays DEF EngineInv

\* The invariant holds in every reachable state.
LEMMA EngineInvariant == Spec => []EngineInv
<1> QED
  BY EngineInvInit, EngineInvStep, PTL DEF Spec

\* The profit of a day compares equities of one mode: a row written in paper mode
\* is never the base of a live row, whichever engines started in between.
THEOREM ProfitIsOfOneMode == Spec => []DayPnlIsOfOneMode
<1>1. EngineInv => DayPnlIsOfOneMode
  BY DEF EngineInv
<1> QED
  BY <1>1, EngineInvariant, PTL

\* A held quantity is a natural number.
LEMMA HeldIsNat ==
    ASSUME BrokerTyped, NEW s
    PROVE  Broker!HeldQuantity(s) \in Nat
BY DEF BrokerTyped, Lot, Broker!HeldQuantity

\* Only an order of a cycle raises what is held.
LEMMA OnlyEntriesBuy ==
    ASSUME EngineInv, [Next]_vars, NEW s \in Symbols,
           Broker!HeldQuantity(s)' > Broker!HeldQuantity(s)
    PROVE  \E t \in Symbols, model \in ModelProbabilities : EnterPosition(t, model)
<1> SUFFICES ASSUME ~ \E t \in Symbols, model \in ModelProbabilities :
                        EnterPosition(t, model)
             PROVE  FALSE
  OBVIOUS
<1>1. /\ BrokerTyped /\ Broker!HeldQuantity(s) \in Nat
      /\ ~(Broker!HeldQuantity(s) > Broker!HeldQuantity(s))
      /\ ~(0 > Broker!HeldQuantity(s))
  BY HeldIsNat DEF EngineInv
<1>2. ASSUME UNCHANGED positions PROVE FALSE
  BY <1>1, <1>2 DEF Broker!HeldQuantity
<1>3. ASSUME Broker!OpenAccount PROVE FALSE
  <2>1. DOMAIN positions' = {}
    BY <1>3 DEF Broker!OpenAccount, Broker!NoPosition
  <2>2. Broker!HeldQuantity(s)' = 0
    BY <2>1 DEF Broker!HeldQuantity
  <2> QED
    BY <1>1, <2>2
<1>4. ASSUME NEW t \in Symbols, SellsAll(t) PROVE FALSE
  <2>1. positions' = [u \in DOMAIN positions \ {t} |-> positions[u]]
    BY <1>4 DEF SellsAll, Broker!SellOrder, Broker!HeldQuantity
  <2>2. Broker!HeldQuantity(s)' = IF s = t THEN 0 ELSE Broker!HeldQuantity(s)
    BY <2>1 DEF Broker!HeldQuantity
  <2> QED
    BY <1>1, <2>2
<1>5. CASE UNCHANGED vars
  BY <1>2, <1>5 DEF vars, brokerVars
<1>6. CASE \E t \in Symbols, range \in Ranges, outcome \in Outcomes :
             FetchBars(t, range, outcome)
  BY <1>2, <1>6 DEF FetchBars, brokerVars
<1>7. CASE \E outcomes \in [Symbols -> Outcomes] : RunScript(outcomes)
  BY <1>2, <1>7 DEF RunScript, brokerVars
<1>8. CASE Simulate \/ FinishSimulation \/ SaveTrackRecord \/ DiscardResult
  BY <1>2, <1>8 DEF Simulate, FinishSimulation, SaveTrackRecord, DiscardResult, brokerVars
<1>9. CASE \E mode \in {"paper", "live"} : StartEngine(mode)
  BY <1>3, <1>9 DEF StartEngine
<1>10. CASE BeginCycle \/ NextDay
  BY <1>2, <1>10 DEF BeginCycle, NextDay, brokerVars
<1>11. CASE \E t \in Symbols, cause \in {"compliance_exit", "max_hold"} :
              ExitPosition(t, cause)
  BY <1>4, <1>11 DEF ExitPosition, SellsAll
<1>12. CASE ExitsDone \/ EndCycle
  BY <1>2, <1>12 DEF ExitsDone, EndCycle, Broker!ReadAccount
<1>13. CASE StopEngine
  BY <1>3, <1>13 DEF StopEngine
<1> QED
  BY <1>5, <1>6, <1>7, <1>8, <1>9, <1>10, <1>11, <1>12, <1>13 DEF Next

\* A forecast that rests on nothing permits nothing.
LEMMA NoRecordNoAction ==
    ASSUME NEW model
    PROVE  Classify(TRUE, "compliant", TRUE, NoRecord, TRUE, model) # "actionable"
BY DEF Classify, Confidence, NoRecord

\* A holding grows only in a cycle whose engine read a record when it started,
\* and that record was out of sample, not expired then, and the last one stored.
THEOREM BuysOnNewestEvidence == Spec => ActsOnNewestEvidence
<1> DEFINE Step ==
      \A s \in Symbols : Broker!HeldQuantity(s)' > Broker!HeldQuantity(s) =>
        /\ engine.known > 0
        /\ LET newest == rows[engine.known]
           IN /\ engine.record = newest
              /\ newest.outOfSample
              /\ engine.startedOn - newest.measured <= MaxAgeDays
<1>1. ASSUME EngineInv, [Next]_vars PROVE [Step]_vars
  <2> SUFFICES ASSUME NEW s \in Symbols,
                      Broker!HeldQuantity(s)' > Broker!HeldQuantity(s)
               PROVE  /\ engine.known > 0
                      /\ engine.record = rows[engine.known]
                      /\ rows[engine.known].outOfSample
                      /\ engine.startedOn - rows[engine.known].measured <= MaxAgeDays
    OBVIOUS
  <2>1. PICK t \in Symbols, model \in ModelProbabilities : EnterPosition(t, model)
    BY <1>1, OnlyEntriesBuy
  <2>2. engine.record # NoRecord
    BY <2>1, NoRecordNoAction DEF EnterPosition
  <2>3. Evidence
    BY <1>1 DEF EngineInv
  <2> QED
    BY <2>2, <2>3 DEF Evidence
<1> QED
  BY <1>1, EngineInvariant, PTL DEF Spec, ActsOnNewestEvidence

-----------------------------------------------------------------------------
(* The mock broker implements the cash account.                            *)

\* What the abstract account calls the broker's pending entries and positions.
DueNow == {Due(e) : e \in Broker!PendingNow}
LotsNow == [s \in Symbols |-> Broker!HeldQuantity(s)]

\* The initial states map to initial states.
LEMMA AccountStarts == Init => Broker!Account!AccountInit
<1> SUFFICES ASSUME Init PROVE Broker!Account!AccountInit
  OBVIOUS
<1>1. settled = StartingCash /\ pending = {} /\ DOMAIN positions = {}
  BY DEF Init, Broker!NoPosition
<1>2. Broker!Matured = {} /\ Broker!PendingNow = {}
  BY <1>1 DEF Broker!Matured, Broker!PendingNow
<1>3. Broker!SettledNow = StartingCash
  BY <1>1, <1>2, TotalOfNothing, PaperAssumption DEF Broker!SettledNow, PaperAssumption
<1>4. \A s \in Symbols : Broker!HeldQuantity(s) = 0
  BY <1>1 DEF Broker!HeldQuantity
<1>5. today \in FirstCovered .. LastCovered
  BY PaperAssumption DEF Init, PaperAssumption, Covered
<1> QED
  BY <1>2, <1>3, <1>4, <1>5 DEF Broker!Account!AccountInit, Broker!Account!Covered

\* An affordable purchase is the purchase of the account.
LEMMA BuyRefined ==
    ASSUME BrokerTyped, StoreTyped, today' = today, NEW s \in Symbols, Buys(s),
           Broker!Affordable(OrderSize)
    PROVE  Broker!Account!Buy(s)
<1>1. PICK q : q = OrderSize
  OBVIOUS
<1>2. q \in Nat \ {0} /\ s \notin DOMAIN positions /\ Broker!ApplyBuy(s, q)
  BY <1>1, OrderSizeTyped DEF Buys, Broker!BuyOrder
<1>3. /\ Broker!SettledNow' = Broker!SettledNow - q * BuyFill
      /\ Broker!SettledNow' \in 0 .. Broker!SettledNow
      /\ Broker!PendingNow' = Broker!PendingNow
      /\ positions' = [t \in DOMAIN positions \cup {s} |->
                         IF t = s THEN [quantity |-> q, mark |-> BuyFill, opened |-> today]
                         ELSE positions[t]]
  BY <1>1, <1>2, BuyMoves
<1>4. \A t \in Symbols : Broker!HeldQuantity(t)' = IF t = s THEN q ELSE Broker!HeldQuantity(t)
  BY <1>3 DEF Broker!HeldQuantity
<1>5. Broker!HeldQuantity(s) = 0
  BY <1>2 DEF Broker!HeldQuantity
<1>6. q > 0 /\ q - 0 = q
  BY <1>2
<1>7. q * BuyFill <= Broker!SettledNow
  <2>1. q * BuyFill \in Nat /\ Broker!SettledNow \in Nat
    BY <1>2, SettledNowTyped, PaperAssumption DEF PaperAssumption
  <2> QED
    BY <1>3, <2>1
<1> QED
  BY <1>3, <1>4, <1>5, <1>6, <1>7 DEF Broker!Account!Buy

\* A sale, settled today or later, is the sale of the account.
LEMMA SellRefined ==
    ASSUME BrokerTyped, today' = today, NEW s \in Symbols, SellsAll(s)
    PROVE  Broker!Account!Sell(s)
<1>1. PICK date : date = SettlementDate(today, SettlementDays)
  OBVIOUS
<1>2. PICK entry : entry = [nr |-> Broker!NextNr, symbol |-> s,
                            amount |-> positions[s].quantity * SellFill,
                            settlesOn |-> date]
  OBVIOUS
<1>3. /\ entry \in Proceed /\ entry.settlesOn = date /\ entry.symbol = s
      /\ entry.nr = Broker!NextNr
      /\ entry.amount = positions[s].quantity * SellFill
      /\ positions' = [t \in DOMAIN positions \ {s} |-> positions[t]]
      /\ IF date > today
         THEN /\ Broker!PendingNow' = Broker!PendingNow \cup {entry}
              /\ Broker!SettledNow' = Broker!SettledNow
         ELSE /\ Broker!PendingNow' = Broker!PendingNow
              /\ Broker!SettledNow' = Broker!SettledNow + entry.amount
  BY <1>1, <1>2, SellMoves
<1>4. \A t \in Symbols : Broker!HeldQuantity(t)' = IF t = s THEN 0 ELSE Broker!HeldQuantity(t)
  BY <1>3 DEF Broker!HeldQuantity
<1>5. /\ Broker!HeldQuantity(s) \in Nat \ {0}
      /\ Broker!HeldQuantity(s) = positions[s].quantity
  BY DEF SellsAll, BrokerTyped, Lot, Broker!HeldQuantity
<1>6. /\ 0 \in 0 .. Broker!HeldQuantity(s) - 1
      /\ (Broker!HeldQuantity(s) - 0) * SellFill = entry.amount
  BY <1>3, <1>5
<1>7. Broker!Account!SettlementDate(today, SettlementDays) = date
  BY <1>1, OneCalendar
<1>8. DueNow' = {Due(e) : e \in Broker!PendingNow'}
  BY DEF DueNow
<1>9. date > today => DueNow' = DueNow \cup {Due(entry)}
  BY <1>3, <1>8 DEF DueNow
<1>10. /\ Due(entry).symbol = s /\ Due(entry).on = date
       /\ Due(entry).amount = entry.amount
       /\ \A other \in DueNow : other.nr # Due(entry).nr
  BY <1>3, NumberIsNew DEF Due, DueNow
<1>11. IF date > today
       THEN \E due \in DueNow' :
              /\ \A other \in DueNow : other.nr # due.nr
              /\ due.symbol = s /\ due.amount = entry.amount /\ due.on = date
              /\ DueNow' = DueNow \cup {due}
       ELSE DueNow' = DueNow
  <2>1. CASE date > today
    BY <1>9, <1>10, <2>1
  <2>2. CASE ~(date > today)
    BY <1>3, <1>8, <2>2 DEF DueNow
  <2> QED
    BY <2>1, <2>2
<1>12. DueNow = {[nr |-> e.nr, symbol |-> e.symbol, amount |-> e.amount, on |-> e.settlesOn] :
                   e \in Broker!PendingNow}
  BY DEF DueNow, Due
<1>13. DueNow' = {[nr |-> e.nr, symbol |-> e.symbol, amount |-> e.amount, on |-> e.settlesOn] :
                    e \in Broker!PendingNow}'
  BY DEF DueNow, Due
<1> HIDE DEF DueNow
<1> QED
  BY <1>3, <1>4, <1>5, <1>6, <1>7, <1>11, <1>12, <1>13 DEF Broker!Account!Sell

\* A day that passes matures what is due, although nobody asks the broker.
LEMMA DayRefined ==
    ASSUME BrokerTyped, today < LastDay, today' = today + 1, UNCHANGED brokerVars
    PROVE  Broker!Account!DayPasses
<1>1. PICK matures : matures = {e \in Broker!PendingNow : e.settlesOn <= today + 1}
  OBVIOUS
<1>2. /\ Broker!SettledNow' = Broker!SettledNow + Broker!Total(matures)
      /\ Broker!PendingNow' = Broker!PendingNow \ matures
  BY <1>1, DayMoves
<1>3. matures \in SUBSET Broker!PendingNow
  BY <1>1
<1>4. Broker!PendingNow \subseteq Proceed /\ IsFiniteSet(Broker!PendingNow)
  BY SettledNowTyped
<1>5. matures \subseteq Proceed /\ IsFiniteSet(matures)
  BY <1>3, <1>4, FS_Subset
<1>6. PICK settles : settles = {d \in DueNow : d.on <= today + 1}
  OBVIOUS
<1>7. settles = {Due(e) : e \in matures}
  BY <1>1, <1>6 DEF DueNow, Due
<1>8. Broker!Account!Amounts(settles) = Broker!Total(matures)
  BY <1>5, <1>7, AmountsOfDue
<1>9. DueNow' = DueNow \ settles
  <2>1. DueNow' = {Due(e) : e \in Broker!PendingNow \ matures}
    BY <1>2 DEF DueNow
  <2>2. ASSUME NEW e \in Broker!PendingNow
        PROVE  Due(e) \in settles <=> e \in matures
    BY <1>1, <1>6 DEF DueNow, Due
  <2> QED
    BY <1>3, <2>1, <2>2 DEF DueNow
<1>10. DueNow = {[nr |-> e.nr, symbol |-> e.symbol, amount |-> e.amount, on |-> e.settlesOn] :
                   e \in Broker!PendingNow}
  BY DEF DueNow, Due
<1>11. DueNow' = {[nr |-> e.nr, symbol |-> e.symbol, amount |-> e.amount, on |-> e.settlesOn] :
                    e \in Broker!PendingNow}'
  BY DEF DueNow, Due
<1>12. \A s \in Symbols : Broker!HeldQuantity(s)' = Broker!HeldQuantity(s)
  BY DEF Broker!HeldQuantity, brokerVars
<1> HIDE DEF DueNow
<1>13. settles = {d \in DueNow : d.on <= today'}
  BY <1>6
<1> QED
  BY <1>2, <1>8, <1>9, <1>10, <1>11, <1>12, <1>13 DEF Broker!Account!DayPasses

\* Settling late, when somebody asks, is a stutter.
LEMMA AskingRefined ==
    ASSUME BrokerTyped, today' = today, Broker!ReadAccount
    PROVE  UNCHANGED Broker!Account!accountVars
<1>1. Broker!SettledNow' = Broker!SettledNow /\ Broker!PendingNow' = Broker!PendingNow
  BY AskingChangesNothing DEF Broker!ReadAccount
<1>2. positions' = positions
  BY DEF Broker!ReadAccount
<1>3. \A s \in Symbols : Broker!HeldQuantity(s)' = Broker!HeldQuantity(s)
  BY <1>2 DEF Broker!HeldQuantity
<1> QED
  BY <1>1, <1>3 DEF Broker!Account!accountVars

\* So is a step that leaves the broker alone.
LEMMA StillRefined ==
    ASSUME today' = today, UNCHANGED brokerVars
    PROVE  UNCHANGED Broker!Account!accountVars
<1>1. UNCHANGED <<settled, pending, positions>>
  BY DEF brokerVars
<1>2. Broker!Matured' = Broker!Matured
  BY <1>1 DEF Broker!Matured
<1>3. Broker!PendingNow' = Broker!PendingNow
  BY <1>1, <1>2 DEF Broker!PendingNow
<1>4. Broker!SettledNow' = Broker!SettledNow
  BY <1>1, <1>2 DEF Broker!SettledNow, Broker!Total
<1>5. \A s \in Symbols : Broker!HeldQuantity(s)' = Broker!HeldQuantity(s)
  BY <1>1 DEF Broker!HeldQuantity
<1> QED
  BY <1>3, <1>4, <1>5 DEF Broker!Account!accountVars

\* An opened broker is an account opened again.
LEMMA OpeningRefined ==
    ASSUME BrokerTyped, today' = today, Broker!OpenAccount
    PROVE  Broker!Account!Reopen
<1>1. /\ Broker!SettledNow' = StartingCash /\ Broker!PendingNow' = {}
      /\ DOMAIN positions' = {}
  BY OpeningTyped
<1>2. \A s \in Symbols : Broker!HeldQuantity(s)' = 0
  BY <1>1 DEF Broker!HeldQuantity
<1> QED
  BY <1>1, <1>2 DEF Broker!Account!Reopen

\* Every step maps to a step of the account or to a stutter.
LEMMA AccountSteps ==
    ASSUME EngineInv, [Next]_vars
    PROVE  [Broker!Account!AccountNext]_(Broker!Account!accountVars)
<1>1. BrokerTyped /\ StoreTyped
  BY DEF EngineInv
<1>2. CASE today' = today /\ UNCHANGED brokerVars
  BY <1>2, StillRefined
<1>3. CASE today' = today /\ Broker!OpenAccount
  BY <1>1, <1>3, OpeningRefined DEF Broker!Account!AccountNext
<1>4. CASE today' = today /\ Broker!ReadAccount
  BY <1>1, <1>4, AskingRefined
<1>5. CASE today' = today /\ \E s \in Symbols : SellsAll(s)
  BY <1>1, <1>5, SellRefined DEF Broker!Account!AccountNext
<1>6. CASE today' = today /\ \E s \in Symbols : Buys(s)
  <2>1. PICK s \in Symbols : Buys(s)
    BY <1>6
  <2>2. CASE Broker!Affordable(OrderSize)
    BY <1>1, <1>6, <2>1, <2>2, BuyRefined DEF Broker!Account!AccountNext
  <2>3. CASE ~Broker!Affordable(OrderSize)
    BY <1>1, <1>6, <2>1, <2>3, AskingRefined DEF Buys, Broker!BuyOrder
  <2> QED
    BY <2>2, <2>3
<1>7. CASE today < LastDay /\ today' = today + 1 /\ UNCHANGED brokerVars
  BY <1>1, <1>7, DayRefined DEF Broker!Account!AccountNext
<1> QED
  BY <1>2, <1>3, <1>4, <1>5, <1>6, <1>7, BrokerSteps

\* The mock broker implements the cash account: only settled cash is spent and
\* every sale becomes cash on its settlement date, once, although the broker
\* settles only when it is asked.
THEOREM MockBrokerKeepsTheAccount == Spec => KeepsTheCashAccount
<1>1. EngineInv /\ [Next]_vars => [Broker!Account!AccountNext]_(Broker!Account!accountVars)
  BY AccountSteps
<1> QED
  BY <1>1, AccountStarts, EngineInvariant, PTL
     DEF Spec, KeepsTheCashAccount, Broker!Account!AccountSpec

-----------------------------------------------------------------------------
(* The windows of a walk-forward run and the entries of a session.         *)

(* The windows of a simulation *)

\* Induction over an interval of the naturals.
LEMMA IntervalInduction ==
    ASSUME NEW n \in Nat, NEW good, 0 \in good,
           \A i \in 1 .. n : i - 1 \in good => i \in good
    PROVE  \A i \in 0 .. n : i \in good
<1> DEFINE bad == {i \in 0 .. n : i \notin good}
<1> SUFFICES ASSUME bad # {} PROVE FALSE
  OBVIOUS
<1>1. bad \in SUBSET (0 .. n) /\ IsFiniteSet(0 .. n)
  BY FS_Interval
<1>2. IsFiniteSet(bad)
  <2> HIDE DEF bad
  <2> QED
    BY <1>1, FS_Subset
<1>3. PICK i \in bad : \A j \in bad : i <= j
  <2>1. bad \subseteq Int
    OBVIOUS
  <2> HIDE DEF bad
  <2> QED
    BY <1>2, <2>1, Extremes
<1>4. i \in 0 .. n /\ i \notin good /\ i # 0
  BY <1>3
<1>5. i - 1 \in 0 .. n /\ i - 1 \notin bad
  BY <1>3, <1>4
<1>6. i - 1 \in good
  BY <1>5
<1> QED
  BY <1>4, <1>6

\* The first day of the k-th window's test period.
FirstTest(k) == Start + k * TestDays + TrainDays + GapDays
\* The day the w-th window opens.
Opens(w) == FirstTest(w - 1)

\* Windows open on days, in order.
LEMMA OpensIsNat ==
    ASSUME NEW w \in Nat \ {0}
    PROVE  Opens(w) \in Nat /\ Opens(w + 1) \in Nat /\ Opens(w) <= Opens(w + 1)
<1>1. /\ Start \in Nat /\ TestDays \in Nat /\ TrainDays \in Nat /\ GapDays \in Nat
  BY WalkForwardAssumption DEF WalkForwardAssumption
<1>2. PICK a, b : a = (w - 1) * TestDays /\ b = w * TestDays
  OBVIOUS
<1>3. a \in Nat /\ b \in Nat /\ b = a + TestDays
  BY <1>1, <1>2
<1>4. Opens(w) = Start + a + TrainDays + GapDays
  BY <1>2 DEF Opens, FirstTest
<1>5. Opens(w + 1) = Start + b + TrainDays + GapDays
  BY <1>2 DEF Opens, FirstTest
<1> QED
  BY <1>1, <1>3, <1>4, <1>5

\* A window is over when the next one opens, whatever the steps and gaps are.
LEMMA WindowsInOrder ==
    /\ Len(Windows) \in Nat
    /\ Windows # <<>> => Len(Windows) # 0
    /\ \A w \in 1 .. Len(Windows) :
         /\ Windows[w].testStart = Opens(w)
         /\ Windows[w].testEnd \in Nat
         /\ Windows[w].testEnd <= Opens(w + 1)
<1> DEFINE early == {k \in 0 .. End : FirstTest(k) < End}
<1>1. PICK count : count = Cardinality(early)
  OBVIOUS
<1>2. count \in Nat
  <2>1. early \in SUBSET (0 .. End)
    OBVIOUS
  <2>2. IsFiniteSet(0 .. End)
    BY WalkForwardAssumption, FS_Interval DEF WalkForwardAssumption
  <2>3. IsFiniteSet(early)
    <3> HIDE DEF early
    <3> QED
      BY <2>1, <2>2, FS_Subset
  <2> HIDE DEF early
  <2> QED
    BY <1>1, <2>3, FS_CardinalityType
<1>3. Windows = [i \in 1 .. count |->
        [trainEnd |-> FirstTest(i - 1) - GapDays,
         testStart |-> FirstTest(i - 1),
         testEnd |-> IF FirstTest(i) < End THEN FirstTest(i) ELSE End]]
  BY <1>1 DEF Windows, FirstTest
<1>4. Len(Windows) = count
  BY <1>2, <1>3
<1>5. ASSUME NEW w \in 1 .. count
      PROVE  /\ Windows[w].testStart = Opens(w)
             /\ Windows[w].testEnd \in Nat
             /\ Windows[w].testEnd <= Opens(w + 1)
  <2>1. /\ Windows[w].testStart = FirstTest(w - 1)
        /\ Windows[w].testEnd = IF FirstTest(w) < End THEN FirstTest(w) ELSE End
    BY <1>3
  <2>2. w \in Nat \ {0} /\ w + 1 - 1 = w
    BY <1>2
  <2>3. FirstTest(w) = Opens(w + 1) /\ FirstTest(w - 1) = Opens(w)
    BY <2>2 DEF Opens
  <2>4. Opens(w + 1) \in Nat /\ End \in Nat
    BY <2>2, OpensIsNat, WalkForwardAssumption DEF WalkForwardAssumption
  <2> QED
    BY <2>1, <2>3, <2>4
<1>6. count = 0 => Windows = <<>>
  <2>1. 1 .. 0 = {}
    OBVIOUS
  <2>2. ASSUME count = 0 PROVE Windows \in Seq({})
    BY <1>3, <2>1, <2>2
  <2> QED
    BY <1>4, <2>2
<1> QED
  BY <1>2, <1>4, <1>5, <1>6

\* The sessions of a window are days of it.
LEMMA SessionsOfWindow ==
    ASSUME NEW w \in 1 .. Len(Windows)
    PROVE  /\ SessionsOf(w) \subseteq Sessions /\ SessionsOf(w) \subseteq Nat
           /\ IsFiniteSet(SessionsOf(w))
           /\ \A d \in SessionsOf(w) : Opens(w) <= d /\ d <= Opens(w + 1)
<1>1. SessionsOf(w) \in SUBSET Sessions
  BY DEF SessionsOf
<1>2. IsFiniteSet(SessionsOf(w)) /\ SessionsOf(w) \subseteq Nat
  BY <1>1, SessionsAreFinite, FS_Subset
<1>3. ASSUME NEW d \in SessionsOf(w) PROVE Opens(w) <= d /\ d <= Opens(w + 1)
  <2>1. Windows[w].testStart <= d /\ d <= Windows[w].testEnd /\ d \in Nat
    BY <1>2 DEF SessionsOf
  <2>2. Windows[w].testStart = Opens(w) /\ Windows[w].testEnd \in Nat
        /\ Windows[w].testEnd <= Opens(w + 1) /\ w \in Nat \ {0}
    BY WindowsInOrder
  <2>3. Opens(w) \in Nat /\ Opens(w + 1) \in Nat
    BY <2>2, OpensIsNat
  <2> QED
    BY <2>1, <2>2, <2>3
<1> QED
  BY <1>1, <1>2, <1>3

-----------------------------------------------------------------------------
(* The entries of a session, one after the other *)

\* The entries of a session are made one after the other.
LEMMA EntriesInTurn ==
    ASSUME NEW b, NEW targets, NEW decided, NEW next, Len(targets) \in Nat
    PROVE  \E after : /\ after[0] = b
                      /\ \A i \in 1 .. Len(targets) :
                           after[i] = Enter(after[i - 1], targets[i],
                                            MaxWeightPct \div Len(targets), decided, next)
                      /\ AfterEntries(b, targets, decided, next) = after[Len(targets)]
<1> DEFINE n == Len(targets)
<1> DEFINE enter(c, i) == Enter(c, targets[i], MaxWeightPct \div n, decided, next)
<1> DEFINE recurs(g, m) == g = [i \in 0 .. m |-> IF i = 0 THEN b ELSE enter(g[i - 1], i)]
<1> DEFINE good == {m \in 0 .. n : \E g : recurs(g, m)}
<1>1. 0 \in good
  <2>1. PICK g : g = [i \in 0 .. 0 |-> b]
    OBVIOUS
  <2>2. \A i \in 0 .. 0 : i = 0
    OBVIOUS
  <2>3. recurs(g, 0)
    BY <2>1, <2>2
  <2> QED
    BY <2>3
<1>2. ASSUME NEW m \in 1 .. n, m - 1 \in good PROVE m \in good
  <2>1. PICK g : recurs(g, m - 1)
    BY <1>2
  <2>2. PICK e : e = enter(g[m - 1], m)
    OBVIOUS
  <2>3. PICK h : h = [i \in 0 .. m |-> IF i = m THEN e ELSE g[i]]
    OBVIOUS
  <2>4. ASSUME NEW i \in 0 .. m PROVE h[i] = IF i = 0 THEN b ELSE enter(h[i - 1], i)
    <3>1. CASE i = 0
      <4>1. h[i] = g[i] /\ i \in 0 .. m - 1
        BY <2>3, <3>1
      <4> QED
        BY <2>1, <3>1, <4>1
    <3>2. CASE i # 0
      <4>1. i - 1 \in 0 .. m - 1 /\ i - 1 # m /\ i - 1 \in 0 .. m
        BY <3>2
      <4>2. h[i - 1] = g[i - 1]
        BY <2>3, <4>1
      <4>3. CASE i = m
        BY <2>2, <2>3, <3>2, <4>2, <4>3
      <4>4. CASE i # m
        <5>1. i \in 0 .. m - 1 /\ h[i] = g[i]
          BY <2>3, <4>4
        <5>2. g[i] = enter(g[i - 1], i)
          BY <2>1, <3>2, <5>1
        <5> QED
          BY <3>2, <4>2, <5>1, <5>2
      <4> QED
        BY <4>3, <4>4
    <3> QED
      BY <3>1, <3>2
  <2>5. recurs(h, m)
    <3> HIDE DEF enter
    <3> QED
      BY <2>3, <2>4
  <2>6. m \in 0 .. n
    OBVIOUS
  <2> QED
    BY <2>5, <2>6
<1>3. n \in good
  <2>1. \A m \in 1 .. n : m - 1 \in good => m \in good
    BY <1>2
  <2>2. n \in Nat /\ n \in 0 .. n
    OBVIOUS
  <2> HIDE DEF good, n
  <2>3. \A m \in 0 .. n : m \in good
    BY <1>1, <2>1, <2>2, IntervalInduction
  <2> QED
    BY <2>2, <2>3
<1>4. PICK after : after = CHOOSE g : recurs(g, n)
  OBVIOUS
<1>5. recurs(after, n)
  BY <1>3, <1>4
<1>6. AfterEntries(b, targets, decided, next) = after[n]
  BY <1>4 DEF AfterEntries
<1>7. after[0] = b
  BY <1>5
<1>8. ASSUME NEW i \in 1 .. n PROVE after[i] = enter(after[i - 1], i)
  <2>1. i \in 0 .. n /\ i # 0
    OBVIOUS
  <2> HIDE DEF enter, n
  <2> QED
    BY <1>5, <2>1
<1> QED
  BY <1>6, <1>7, <1>8

-----------------------------------------------------------------------------
(* Books: what a window holds, traded and still has.                       *)

(* The books of a window *)

\* Why a position was closed.
Reasons == {"stop_loss", "take_profit", "signal", "window_end"}
\* The simulator's positions and trades.
Position == [quantity : Nat \ {0}, price : Int, entry : Nat, cost : Int,
             decided : Int, stop : Int, target : Int]
Trade == [symbol : Symbols, decided : Int, entry : Nat, exit : Nat, net : Int,
          reason : Reasons]

\* A position entered in a window that opened on `start` and is at `day`.
GoodPosition(p, start, day) ==
    /\ p \in Position
    /\ p.decided < p.entry /\ start < p.entry /\ p.entry <= day
    /\ p.stop # 0 => PaysForItself(p.stop)
    /\ p.target # 0 => PaysForItself(p.target)

\* A trade was decided before it was entered and held for the minimum.
Honest(t) ==
    /\ t.decided < t.entry /\ t.entry <= t.exit
    /\ t.reason # "window_end" => TradingDaysBetween(t.entry, t.exit) >= MinHold

\* No two trades of one symbol overlap.
Apart(trades) == \A t, u \in trades : Overlap(t, u) => t = u

\* The invariant of a book of a window that opened on `start` and is at `day`.
GoodBook(b, start, day) ==
    /\ b = [capital |-> b.capital, positions |-> b.positions, trades |-> b.trades]
    /\ b.capital \in Int /\ b.capital >= 0
    /\ Held(b) \subseteq Symbols /\ b.positions = [s \in Held(b) |-> b.positions[s]]
    /\ \A s \in Held(b) : GoodPosition(b.positions[s], start, day)
    /\ IsFiniteSet(b.trades) /\ b.trades \subseteq Trade
    /\ \A t \in b.trades : Honest(t) /\ start < t.entry /\ t.exit <= day
    /\ Apart(b.trades)
    /\ \A t \in b.trades : t.symbol \in Held(b) => t.exit < b.positions[t.symbol].entry

\* What was paid for a position, costs included.
Paid(p) == p.price * p.quantity + p.cost

\* What a book is worth at cost, less what its trades earned.
Balance(b) == b.capital + PaidFor(b.positions) - Net(b.trades)

\* A set of symbols is finite.
LEMMA SymbolsAreFinite ==
    ASSUME NEW S, S \subseteq Symbols
    PROVE  IsFiniteSet(S)
<1>1. S \in SUBSET Symbols
  OBVIOUS
<1> QED
  BY <1>1, MarketDataAssumption, FS_Subset DEF MarketDataAssumption

\* Net and PaidFor as sums.
LEMMA NetIsSum ==
    ASSUME NEW T
    PROVE  Net(T) = SumFunctionOnSet([t \in T |-> t.net], T)
BY DEF Net, SumFunction

\* What positions have cost, as a sum over the held symbols.
LEMMA PaidForIsSum ==
    ASSUME NEW p, p = [s \in DOMAIN p |-> p[s]]
    PROVE  PaidFor(p) = SumFunctionOnSet([s \in DOMAIN p |-> Paid(p[s])], DOMAIN p)
BY DEF PaidFor, SumFunction, Paid

\* What trades earned is an integer.
LEMMA NetType ==
    ASSUME NEW T, IsFiniteSet(T), T \subseteq Trade
    PROVE  Net(T) \in Int
<1>1. PICK f : f = [t \in T |-> t.net]
  OBVIOUS
<1>2. \A t \in T : f[t] \in Int
  BY <1>1 DEF Trade
<1>3. SumFunctionOnSet(f, T) \in Int
  BY <1>2, SumType
<1> QED
  BY <1>1, <1>3, NetIsSum

\* What disjoint sets of trades earned adds up.
LEMMA NetOfUnion ==
    ASSUME NEW T, IsFiniteSet(T), T \subseteq Trade,
           NEW U, IsFiniteSet(U), U \subseteq Trade, T \cap U = {}
    PROVE  Net(T \cup U) = Net(T) + Net(U)
<1>1. PICK f, g, h : /\ f = [t \in T \cup U |-> t.net]
                     /\ g = [t \in T |-> t.net] /\ h = [t \in U |-> t.net]
  OBVIOUS
<1>2. \A t \in T \cup U : f[t] \in Int
  BY <1>1 DEF Trade
<1>3. SumFunctionOnSet(f, T \cup U) = SumFunctionOnSet(f, T) + SumFunctionOnSet(f, U)
  BY <1>2, SumUnion
<1>4. \A t \in T : f[t] = g[t]
  BY <1>1
<1>5. \A t \in U : f[t] = h[t]
  BY <1>1
<1>6. SumFunctionOnSet(f, T) = SumFunctionOnSet(g, T)
  BY <1>4, SumSame
<1>7. SumFunctionOnSet(f, U) = SumFunctionOnSet(h, U)
  BY <1>5, SumSame
<1> QED
  BY <1>1, <1>3, <1>6, <1>7, NetIsSum

\* No trades earned nothing.
LEMMA NetOfNothing == Net({}) = 0
BY NetIsSum, SumEmpty

\* What was paid for positions is an integer.
LEMMA PaidForType ==
    ASSUME NEW p, p = [s \in DOMAIN p |-> p[s]], IsFiniteSet(DOMAIN p),
           \A s \in DOMAIN p : p[s] \in Position
    PROVE  PaidFor(p) \in Int
<1>1. PICK f : f = [s \in DOMAIN p |-> Paid(p[s])]
  OBVIOUS
<1>2. ASSUME NEW s \in DOMAIN p PROVE f[s] \in Int
  BY <1>1 DEF Paid, Position
<1>3. SumFunctionOnSet(f, DOMAIN p) \in Int
  BY <1>2, SumType
<1> QED
  BY <1>1, <1>3, PaidForIsSum

\* Nothing was paid for no positions.
LEMMA PaidForNothing == PaidFor(NoPositions) = 0
<1>1. DOMAIN NoPositions = {} /\ NoPositions = [s \in DOMAIN NoPositions |-> NoPositions[s]]
  BY DEF NoPositions
<1> QED
  BY <1>1, PaidForIsSum, SumEmpty

-----------------------------------------------------------------------------
(* Sales *)

\* A sale that pays for itself brings no less than nothing.
LEMMA ProceedsType ==
    ASSUME NEW p \in Position, NEW price \in Int
    PROVE  /\ Proceeds(p, price) \in Int
           /\ PaysForItself(price) => Proceeds(p, price) >= 0
<1>1. PICK q : q = p.quantity
  OBVIOUS
<1>2. q \in Nat \ {0}
  BY <1>1 DEF Position
<1>3. PICK fill : fill = FillPrice(price, "sell")
  OBVIOUS
<1>4. fill \in Int
  BY <1>3, CostAssumption DEF FillPrice, Drift, CostAssumption
<1>5. PICK x : x = fill * q
  OBVIOUS
<1>6. x \in Int
  BY <1>2, <1>4, <1>5
<1>7. PICK spread, slip, sec :
        /\ spread = Bps(x, SpreadBps) /\ slip = Bps(x, SlippageBps)
        /\ sec = Bps(x, SecFeeBps)
  OBVIOUS
<1>8. /\ spread \in Int /\ slip \in Int /\ sec \in Int
      /\ 10000 * spread <= x * SpreadBps
      /\ 10000 * slip <= x * SlippageBps
      /\ 10000 * sec <= x * SecFeeBps
  BY <1>6, <1>7, CostAssumption DEF Bps, CostAssumption
<1>9. PICK c : c = Commission(q)
  OBVIOUS
<1>10. c \in Int /\ c <= CommissionPerShare * q + CommissionMin * q
  <2>1. PICK perShare : perShare = CommissionPerShare * q
    OBVIOUS
  <2>2. perShare \in Nat /\ CommissionMin \in Nat
    BY <1>2, <2>1, CostAssumption DEF CostAssumption
  <2>3. CommissionMin * q >= CommissionMin
    BY <1>2, CostAssumption DEF CostAssumption
  <2>4. CommissionMin * q \in Nat
    BY <1>2, CostAssumption DEF CostAssumption
  <2>5. c = IF perShare >= CommissionMin THEN perShare ELSE CommissionMin
    BY <1>2, <1>9, <2>1 DEF Commission, Larger
  <2> QED
    BY <2>1, <2>2, <2>3, <2>4, <2>5
<1>11. PICK taf : taf = TafPerShare * q
  OBVIOUS
<1>12. taf \in Nat
  BY <1>2, <1>11, CostAssumption DEF CostAssumption
<1>13. Cost(fill, q, "sell") = c + spread + slip + (sec + taf)
  BY <1>5, <1>7, <1>9, <1>11 DEF Cost, Regulatory
<1>14. Proceeds(p, price) = x - (c + spread + slip + (sec + taf))
  BY <1>1, <1>3, <1>5, <1>13 DEF Proceeds
<1>15. Proceeds(p, price) \in Int
  BY <1>6, <1>8, <1>10, <1>12, <1>14
<1>16. ASSUME PaysForItself(price) PROVE Proceeds(p, price) >= 0
  <2>1. PICK fees, rates : /\ fees = CommissionMin + CommissionPerShare + TafPerShare
                           /\ rates = SpreadBps + SlippageBps + SecFeeBps
    OBVIOUS
  <2>2. fees \in Nat /\ rates \in Nat
    BY <2>1, CostAssumption DEF CostAssumption
  <2>3. 10000 * fees + fill * rates <= 10000 * fill
    BY <1>3, <1>16, <2>1 DEF PaysForItself
  <2>4. q * (10000 * fees + fill * rates) <= q * (10000 * fill)
    <3>1. PICK u, v : u = 10000 * fees + fill * rates /\ v = 10000 * fill
      OBVIOUS
    <3>2. u \in Int /\ v \in Int /\ u <= v
      BY <1>4, <2>2, <2>3, <3>1
    <3>3. q * u <= q * v
      BY <1>2, <3>2
    <3> QED
      BY <3>1, <3>3
  <2>5. q * (10000 * fill) = 10000 * x
    BY <1>2, <1>4, <1>5
  <2>6. q * (10000 * fees + fill * rates) = 10000 * (q * fees) + x * rates
    BY <1>2, <1>4, <1>5, <2>2
  <2>7. x * rates = x * SpreadBps + x * SlippageBps + x * SecFeeBps
    BY <1>6, <2>1, CostAssumption DEF CostAssumption
  <2>8. q * fees = CommissionMin * q + CommissionPerShare * q + taf
    BY <1>2, <1>11, <2>1, CostAssumption DEF CostAssumption
  <2>9. PICK a, b, d, e, f : /\ a = CommissionMin * q /\ b = CommissionPerShare * q
                             /\ d = x * SpreadBps /\ e = x * SlippageBps /\ f = x * SecFeeBps
    OBVIOUS
  <2>10. a \in Int /\ b \in Int /\ d \in Int /\ e \in Int /\ f \in Int
    BY <1>2, <1>6, <2>9, CostAssumption DEF CostAssumption
  <2>11. 10000 * (a + b + taf) + (d + e + f) <= 10000 * x
    BY <2>4, <2>5, <2>6, <2>7, <2>8, <2>9
  <2>12. /\ c <= b + a /\ 10000 * spread <= d /\ 10000 * slip <= e /\ 10000 * sec <= f
    BY <1>8, <1>10, <2>9
  <2>13. 10000 * (c + spread + slip + (sec + taf)) <= 10000 * x
    BY <1>6, <1>8, <1>10, <1>12, <2>10, <2>11, <2>12
  <2> QED
    BY <1>6, <1>8, <1>10, <1>12, <1>14, <2>13
<1> QED
  BY <1>15, <1>16

\* What a trade earned is what its sale brought less what was paid.
LEMMA TradeOfType ==
    ASSUME NEW p \in Position, NEW price \in Int, NEW s \in Symbols, NEW day \in Nat,
           NEW reason \in Reasons
    PROVE  /\ TradeOf(s, p, price, day, reason) \in Trade
           /\ TradeOf(s, p, price, day, reason).net = Proceeds(p, price) - Paid(p)
<1>1. PICK q, fill, c : /\ q = p.quantity /\ fill = FillPrice(price, "sell")
                        /\ c = Cost(fill, q, "sell")
  OBVIOUS
<1>2. q \in Nat /\ p.price \in Int /\ p.cost \in Int
  BY <1>1 DEF Position
<1>3. fill \in Int
  BY <1>1, CostAssumption DEF FillPrice, Drift, CostAssumption
<1>4. c \in Int
  <2>1. PICK x : x = fill * q
    OBVIOUS
  <2>2. x \in Int
    BY <1>2, <1>3, <2>1
  <2>3. Bps(x, SpreadBps) \in Int /\ Bps(x, SlippageBps) \in Int /\ Bps(x, SecFeeBps) \in Int
    BY <2>2, CostAssumption DEF Bps, CostAssumption
  <2>4. Commission(q) \in Int /\ TafPerShare * q \in Int
    BY <1>2, CostAssumption DEF Commission, Larger, CostAssumption
  <2> QED
    BY <1>1, <2>1, <2>3, <2>4 DEF Cost, Regulatory
<1>5. TradeOf(s, p, price, day, reason) =
        [symbol |-> s, decided |-> p.decided, entry |-> p.entry, exit |-> day,
         net |-> (fill - p.price) * q - (c + p.cost), reason |-> reason]
  BY <1>1 DEF TradeOf
<1>6. (fill - p.price) * q - (c + p.cost) = (fill * q - c) - (p.price * q + p.cost)
  <2>1. (fill - p.price) * q = fill * q - p.price * q
    BY <1>2, <1>3
  <2>2. fill * q \in Int /\ p.price * q \in Int
    BY <1>2, <1>3
  <2> QED
    BY <1>2, <1>4, <2>1, <2>2
<1>7. Proceeds(p, price) = fill * q - c /\ Paid(p) = p.price * q + p.cost
  BY <1>1 DEF Proceeds, Paid
<1>8. (fill - p.price) * q - (c + p.cost) \in Int
  BY <1>2, <1>3, <1>4
<1>9. TradeOf(s, p, price, day, reason) \in Trade
  BY <1>5, <1>8 DEF Trade, Position
<1> QED
  BY <1>5, <1>6, <1>7, <1>9

\* The sum of sums.
LEMMA SumPlus ==
    ASSUME NEW S, IsFiniteSet(S), NEW f, NEW g, NEW h,
           \A x \in S : f[x] \in Int /\ g[x] \in Int /\ h[x] = f[x] + g[x]
    PROVE  SumFunctionOnSet(h, S) = SumFunctionOnSet(f, S) + SumFunctionOnSet(g, S)
<1> DEFINE adds(T) == SumFunctionOnSet(h, T) = SumFunctionOnSet(f, T) + SumFunctionOnSet(g, T)
<1> DEFINE good == {T \in SUBSET S : adds(T)}
<1>1. ASSUME NEW T \in SUBSET S, \A U \in SUBSET T : U # T => U \in good
      PROVE  T \in good
  <2>1. IsFiniteSet(T)
    <3> HIDE DEF good
    <3> QED
      BY FS_Subset
  <2>2. CASE T = {}
    BY <2>2, SumEmpty
  <2>3. CASE T # {}
    <3>1. PICK x \in T : TRUE
      BY <2>3
    <3>2. PICK U : U = T \ {x}
      OBVIOUS
    <3>3. U \in good
      BY <1>1, <3>1, <3>2
    <3>4. IsFiniteSet(U) /\ U \in SUBSET T
      <4>1. U \in SUBSET T
        BY <3>2
      <4> HIDE DEF good
      <4> QED
        BY <2>1, <4>1, FS_Subset
    <3>5. adds(U)
      BY <3>3
    <3>6. \A y \in T : f[y] \in Int /\ g[y] \in Int /\ h[y] \in Int
      OBVIOUS
    <3> HIDE DEF good
    <3>7. /\ SumFunctionOnSet(f, T) = f[x] + SumFunctionOnSet(f, U)
          /\ SumFunctionOnSet(g, T) = g[x] + SumFunctionOnSet(g, U)
          /\ SumFunctionOnSet(h, T) = h[x] + SumFunctionOnSet(h, U)
      BY <2>1, <3>1, <3>2, <3>6, SumRemove
    <3>8. SumFunctionOnSet(f, U) \in Int /\ SumFunctionOnSet(g, U) \in Int
      BY <3>4, <3>6, SumType
    <3>9. h[x] = f[x] + g[x] /\ f[x] \in Int /\ g[x] \in Int
      BY <3>1
    <3>10. adds(T)
      BY <3>5, <3>7, <3>8, <3>9
    <3> QED
      BY <3>10 DEF good
  <2> QED
    BY <2>2, <2>3
<1> HIDE DEF good
<1>2. S \in good
  BY <1>1, SubsetInduction
<1> QED
  BY <1>2 DEF good

\* Exits of held positions at prices whose sale pays for itself.
GoodExits(b, exits, day) ==
    /\ DOMAIN exits \subseteq Held(b)
    /\ \A s \in DOMAIN exits :
         /\ exits[s].price \in Int /\ PaysForItself(exits[s].price)
         /\ exits[s].reason \in Reasons
         /\ exits[s].reason # "window_end" =>
              TradingDaysBetween(b.positions[s].entry, day) >= MinHold

\* The trade that closes a position.
Closing(b, exits, day, s) ==
    TradeOf(s, b.positions[s], exits[s].price, day, exits[s].reason)

\* The exits of `day` from a book that is good since `last`.
MayClose(b, start, last, exits, day) ==
    /\ start \in Nat /\ last \in Nat /\ GoodBook(b, start, last)
    /\ day \in Nat /\ day >= last /\ GoodExits(b, exits, day)

\* The trade an exit makes.
LEMMA ClosingTrades ==
    ASSUME NEW b, NEW start, NEW last, NEW day, NEW exits,
           MayClose(b, start, last, exits, day),
           NEW s \in DOMAIN exits, NEW t, t = Closing(b, exits, day, s)
    PROVE  /\ t \in Trade /\ Honest(t) /\ start < t.entry /\ t.exit = day
           /\ t.symbol = s /\ t.entry = b.positions[s].entry
           /\ t.net = Proceeds(b.positions[s], exits[s].price) - Paid(b.positions[s])
           /\ Proceeds(b.positions[s], exits[s].price) \in Int
           /\ Proceeds(b.positions[s], exits[s].price) >= 0
<1> USE DEF MayClose
<1>1. PICK p : p = b.positions[s]
  OBVIOUS
<1>2. s \in Symbols /\ GoodPosition(p, start, last) /\ p \in Position
  BY <1>1 DEF GoodBook, GoodExits, GoodPosition
<1>3. PICK price, reason : price = exits[s].price /\ reason = exits[s].reason
  OBVIOUS
<1>4. price \in Int /\ PaysForItself(price) /\ reason \in Reasons
  BY <1>3 DEF GoodExits
<1>5. t = TradeOf(s, p, price, day, reason)
  BY <1>1, <1>3 DEF Closing
<1>6. t \in Trade /\ t.net = Proceeds(p, price) - Paid(p)
  BY <1>2, <1>4, <1>5, TradeOfType
<1>7. /\ t.symbol = s /\ t.decided = p.decided /\ t.entry = p.entry /\ t.exit = day
      /\ t.reason = reason
  BY <1>5 DEF TradeOf
<1>8. /\ p.decided < p.entry /\ start < p.entry /\ p.entry <= last /\ p.entry \in Nat
  BY <1>2 DEF GoodPosition, Position
<1>9. p.entry <= day
  BY <1>8
<1>10. reason # "window_end" => TradingDaysBetween(p.entry, day) >= MinHold
  BY <1>1, <1>3 DEF GoodExits
<1>11. Honest(t)
  BY <1>7, <1>8, <1>9, <1>10 DEF Honest
<1>12. Proceeds(p, price) \in Int /\ Proceeds(p, price) >= 0
  BY <1>2, <1>4, ProceedsType
<1> QED
  BY <1>1, <1>3, <1>6, <1>7, <1>8, <1>11, <1>12

\* Closing positions moves what they cost from the positions to the trades.
LEMMA ClosingKeepsTheBalance ==
    ASSUME NEW b, NEW start \in Nat, NEW last \in Nat, GoodBook(b, start, last),
           NEW day \in Nat, day >= last, NEW exits, GoodExits(b, exits, day),
           {Closing(b, exits, day, s) : s \in DOMAIN exits} \cap b.trades = {}
    PROVE  LET c == CloseAll(b, exits, day)
           IN /\ c.capital \in Int /\ c.capital >= 0
              /\ Balance(c) = Balance(b)
<1>1. PICK closed : closed = DOMAIN exits
  OBVIOUS
<1>2. PICK p : p = b.positions
  OBVIOUS
<1>3. PICK held : held = Held(b)
  OBVIOUS
<1>4. /\ closed \subseteq held /\ held \subseteq Symbols /\ held = DOMAIN p
      /\ p = [s \in held |-> p[s]]
      /\ \A s \in held : p[s] \in Position
      /\ IsFiniteSet(b.trades) /\ b.trades \subseteq Trade
      /\ b.capital \in Int /\ b.capital >= 0
  BY <1>1, <1>2, <1>3 DEF GoodBook, GoodExits, GoodPosition, Held
<1>5. PICK rest : rest = held \ closed
  OBVIOUS
<1>6. /\ IsFiniteSet(closed) /\ IsFiniteSet(rest) /\ held = rest \cup closed
      /\ rest \cap closed = {} /\ closed \subseteq Symbols
  BY <1>4, <1>5, SymbolsAreFinite
<1>7. PICK brings, paid, r, net :
        /\ brings = [s \in closed |-> Proceeds(p[s], exits[s].price)]
        /\ paid = [s \in held |-> Paid(p[s])]
        /\ r = [s \in closed |-> Closing(b, exits, day, s)]
        /\ net = [s \in closed |-> Closing(b, exits, day, s).net]
  OBVIOUS
<1>8. ASSUME NEW s \in closed
      PROVE  /\ r[s] \in Trade /\ r[s].symbol = s /\ net[s] = r[s].net
             /\ net[s] = brings[s] - paid[s]
             /\ brings[s] \in Nat
  <2>1. /\ r[s] = Closing(b, exits, day, s) /\ net[s] = r[s].net
        /\ brings[s] = Proceeds(b.positions[s], exits[s].price)
        /\ paid[s] = Paid(b.positions[s])
    BY <1>2, <1>4, <1>7
  <2>2. /\ r[s] \in Trade /\ r[s].symbol = s
        /\ r[s].net = Proceeds(b.positions[s], exits[s].price) - Paid(b.positions[s])
        /\ Proceeds(b.positions[s], exits[s].price) \in Int
        /\ Proceeds(b.positions[s], exits[s].price) >= 0
    <3>1. s \in DOMAIN exits /\ MayClose(b, start, last, exits, day)
      BY <1>1 DEF MayClose
    <3>2. PICK t : t = Closing(b, exits, day, s)
      OBVIOUS
    <3>3. /\ t \in Trade /\ t.symbol = s
          /\ t.net = Proceeds(b.positions[s], exits[s].price) - Paid(b.positions[s])
          /\ Proceeds(b.positions[s], exits[s].price) \in Int
          /\ Proceeds(b.positions[s], exits[s].price) >= 0
      BY <3>1, <3>2, ClosingTrades
    <3> QED
      BY <2>1, <3>2, <3>3
  <2> QED
    BY <2>1, <2>2
<1>9. \A s \in held : paid[s] \in Int
  BY <1>4, <1>7 DEF Paid, Position
<1>10. PICK P, N, W, R : /\ P = SumFunctionOnSet(brings, closed)
                         /\ N = SumFunctionOnSet(net, closed)
                         /\ W = SumFunctionOnSet(paid, closed)
                         /\ R = SumFunctionOnSet(paid, rest)
  OBVIOUS
<1>11. P \in Nat
  BY <1>6, <1>8, <1>10, SumNat
<1>12. ASSUME NEW s \in closed
       PROVE  net[s] \in Int /\ paid[s] \in Int /\ brings[s] = net[s] + paid[s]
  <2>1. s \in held
    BY <1>4
  <2> QED
    BY <1>8, <1>9, <2>1
<1>13. P = N + W
  BY <1>6, <1>10, <1>12, SumPlus
<1>14. N \in Int /\ W \in Int /\ R \in Int
  <2>1. \A s \in rest : paid[s] \in Int
    BY <1>5, <1>9
  <2> QED
    BY <1>6, <1>10, <1>12, <2>1, SumType
<1>15. PaidFor(p) = R + W
  <2>1. PaidFor(p) = SumFunctionOnSet(paid, held)
    BY <1>4, <1>7, PaidForIsSum
  <2>2. SumFunctionOnSet(paid, rest \cup closed) = R + W
    <3>1. \A s \in rest \cup closed : paid[s] \in Int
      BY <1>6, <1>9
    <3> QED
      BY <1>6, <1>10, <3>1, SumUnion
  <2> QED
    BY <1>6, <2>1, <2>2
<1>16. PICK q : q = [s \in rest |-> p[s]]
  OBVIOUS
<1>17. PaidFor(q) = R
  <2>1. PICK f : f = [s \in rest |-> Paid(q[s])]
    OBVIOUS
  <2>2. DOMAIN q = rest /\ q = [s \in DOMAIN q |-> q[s]]
    BY <1>16
  <2>3. PaidFor(q) = SumFunctionOnSet(f, rest)
    BY <2>1, <2>2, PaidForIsSum
  <2>4. \A s \in rest : f[s] = paid[s]
    BY <1>5, <1>7, <1>16, <2>1
  <2>5. SumFunctionOnSet(f, rest) = SumFunctionOnSet(paid, rest)
    BY <1>6, <2>4, SumSame
  <2> QED
    BY <1>10, <2>3, <2>5
<1>18. PICK new : new = {Closing(b, exits, day, s) : s \in closed}
  OBVIOUS
<1>19. new = {r[s] : s \in closed}
  BY <1>7, <1>18
<1>20. IsFiniteSet(new) /\ Net(new) = N /\ new \subseteq Trade
  <2>1. PICK g : g = [t \in new |-> t.net]
    OBVIOUS
  <2>2. \A s \in closed : net[s] \in Int /\ g[r[s]] = net[s]
    BY <1>8, <1>12, <1>19, <2>1
  <2>3. \A s, u \in closed : r[s] = r[u] => s = u
    BY <1>8
  <2>4. IsFiniteSet({r[s] : s \in closed}) /\ SumFunctionOnSet(g, {r[s] : s \in closed}) = N
    <3>1. IsFiniteSet(closed)
      BY <1>6
    <3>2. /\ IsFiniteSet({r[s] : s \in closed})
          /\ SumFunctionOnSet(g, {r[s] : s \in closed}) = SumFunctionOnSet(net, closed)
      BY <2>2, <2>3, <3>1, SumRenamed
    <3> QED
      BY <1>10, <3>2
  <2>5. Net(new) = SumFunctionOnSet(g, new)
    BY <2>1, NetIsSum
  <2>6. new \subseteq Trade
    BY <1>8, <1>19
  <2> QED
    BY <1>19, <2>4, <2>5, <2>6
<1>21. Net(b.trades \cup new) = Net(b.trades) + N /\ Net(b.trades) \in Int
  <2>1. b.trades \cap new = {}
    BY <1>1, <1>18
  <2> QED
    BY <1>4, <1>20, <2>1, NetOfUnion, NetType
<1>22. PICK c : c = CloseAll(b, exits, day)
  OBVIOUS
<1>23. /\ c.capital = b.capital + P
       /\ c.positions = q
       /\ c.trades = b.trades \cup new
  <2>1. SumFunction(brings) = P
    BY <1>7, <1>10 DEF SumFunction
  <2>2. c.capital = b.capital + SumFunction(brings)
    BY <1>1, <1>2, <1>7, <1>22 DEF CloseAll
  <2>3. c.positions = q
    BY <1>1, <1>2, <1>3, <1>5, <1>16, <1>22 DEF CloseAll
  <2>4. c.trades = b.trades \cup new
    BY <1>1, <1>18, <1>22 DEF CloseAll, Closing
  <2> QED
    BY <2>1, <2>2, <2>3, <2>4
<1>24. Balance(b) = b.capital + (R + W) - Net(b.trades)
  BY <1>2, <1>15 DEF Balance
<1>25. Balance(c) = b.capital + P + R - (Net(b.trades) + N)
  BY <1>17, <1>21, <1>23 DEF Balance
<1>26. Balance(c) = Balance(b)
  BY <1>4, <1>11, <1>13, <1>14, <1>21, <1>24, <1>25
<1>27. c.capital \in Int /\ c.capital >= 0
  BY <1>4, <1>11, <1>23
<1> QED
  BY <1>22, <1>26, <1>27

\* A trade that is closed begins after every earlier one of its symbol ended.
LEMMA ClosingIsNew ==
    ASSUME NEW b, NEW start \in Nat, NEW last \in Nat, GoodBook(b, start, last),
           NEW day \in Nat, day >= last, NEW exits, GoodExits(b, exits, day),
           NEW s \in DOMAIN exits, NEW t \in b.trades
    PROVE  /\ ~Overlap(t, Closing(b, exits, day, s))
           /\ ~Overlap(Closing(b, exits, day, s), t)
           /\ t # Closing(b, exits, day, s)
<1>1. PICK u : u = Closing(b, exits, day, s)
  OBVIOUS
<1>2. u \in Trade /\ u.symbol = s /\ u.entry = b.positions[s].entry
  <2>1. MayClose(b, start, last, exits, day)
    BY DEF MayClose
  <2> QED
    BY <1>1, <2>1, ClosingTrades
<1>3. t \in Trade /\ Honest(t) /\ s \in Held(b)
  BY DEF GoodBook, GoodExits
<1>4. t.symbol = s => t.exit < u.entry
  BY <1>2, <1>3 DEF GoodBook
<1>5. t.exit \in Nat /\ t.entry \in Nat /\ u.entry \in Nat /\ u.exit \in Nat
      /\ t.entry <= t.exit
  BY <1>2, <1>3 DEF Trade, Honest
<1> QED
  BY <1>1, <1>2, <1>4, <1>5 DEF Overlap

\* Closing positions keeps the book.
LEMMA ClosingKeepsTheBook ==
    ASSUME NEW b, NEW start \in Nat, NEW last \in Nat, GoodBook(b, start, last),
           NEW day \in Nat, day >= last, NEW exits, GoodExits(b, exits, day)
    PROVE  LET c == CloseAll(b, exits, day)
           IN /\ GoodBook(c, start, day)
              /\ Balance(c) = Balance(b)
              /\ Held(c) = Held(b) \ DOMAIN exits
              /\ \A t \in c.trades : t \in b.trades \/ t.symbol \in DOMAIN exits
<1>1. PICK closed : closed = DOMAIN exits
  OBVIOUS
<1>2. PICK new : new = {Closing(b, exits, day, s) : s \in closed}
  OBVIOUS
<1>3. PICK c : c = CloseAll(b, exits, day)
  OBVIOUS
<1>4. new \cap b.trades = {}
  <2>1. ASSUME NEW s \in closed, Closing(b, exits, day, s) \in b.trades PROVE FALSE
    <3>1. s \in DOMAIN exits
      BY <1>1
    <3>2. PICK t \in b.trades : t = Closing(b, exits, day, s)
      BY <2>1
    <3> QED
      BY <3>1, <3>2, ClosingIsNew
  <2> QED
    BY <1>2, <2>1
<1>5. c.capital \in Int /\ c.capital >= 0 /\ Balance(c) = Balance(b)
  BY <1>1, <1>2, <1>3, <1>4, ClosingKeepsTheBalance
<1>6. /\ c = [capital |-> c.capital, positions |-> c.positions, trades |-> c.trades]
      /\ c.positions = [s \in Held(b) \ closed |-> b.positions[s]]
      /\ c.trades = b.trades \cup new
  BY <1>1, <1>2, <1>3 DEF CloseAll, Closing
<1>7. Held(c) = Held(b) \ closed
  BY <1>6 DEF Held
<1>8. ASSUME NEW s \in DOMAIN exits, NEW t, t = Closing(b, exits, day, s)
      PROVE  t \in Trade /\ Honest(t) /\ start < t.entry /\ t.exit = day /\ t.symbol = s
  <2>1. MayClose(b, start, last, exits, day)
    BY DEF MayClose
  <2> QED
    BY <1>8, <2>1, ClosingTrades
<1>9. ASSUME NEW t \in new
      PROVE  /\ t \in Trade /\ Honest(t) /\ start < t.entry /\ t.exit = day
             /\ t.symbol \in closed
             /\ \A u \in b.trades : ~Overlap(t, u) /\ ~Overlap(u, t)
             /\ t = Closing(b, exits, day, t.symbol)
  <2>1. PICK s \in closed : t = Closing(b, exits, day, s)
    BY <1>2
  <2>2. s \in DOMAIN exits
    BY <1>1, <2>1
  <2>3. /\ t \in Trade /\ Honest(t) /\ start < t.entry /\ t.exit = day /\ t.symbol = s
    BY <1>8, <2>1, <2>2
  <2>4. \A u \in b.trades : ~Overlap(t, u) /\ ~Overlap(u, t)
    BY <2>1, <2>2, ClosingIsNew
  <2> QED
    BY <2>1, <2>3, <2>4
<1>10. IsFiniteSet(new)
  <2>1. IsFiniteSet(closed)
    BY <1>1, SymbolsAreFinite DEF GoodExits, GoodBook
  <2>2. PICK r : r = [s \in closed |-> Closing(b, exits, day, s)]
    OBVIOUS
  <2>3. new = {r[s] : s \in closed}
    BY <1>2, <2>2
  <2>4. r \in Surjection(closed, new)
    BY <2>2, <2>3 DEF Surjection
  <2> QED
    BY <2>1, <2>4, FS_Surjection
<1>11. IsFiniteSet(c.trades) /\ c.trades \subseteq Trade
  <2>1. IsFiniteSet(b.trades) /\ b.trades \subseteq Trade
    BY DEF GoodBook
  <2> QED
    <3>1. IsFiniteSet(b.trades \cup new)
      BY <1>10, <2>1, FS_Union
    <3> QED
      BY <1>6, <1>9, <2>1, <3>1
<1>12. \A t \in c.trades : Honest(t) /\ start < t.entry /\ t.exit <= day
  <2>1. ASSUME NEW t \in b.trades PROVE Honest(t) /\ start < t.entry /\ t.exit <= day
    <3>1. t \in Trade /\ Honest(t) /\ start < t.entry /\ t.exit <= last
      BY DEF GoodBook
    <3>2. t.exit \in Nat
      BY <3>1 DEF Trade
    <3> QED
      BY <3>1, <3>2
  <2> QED
    BY <1>6, <1>9, <2>1
<1>13. Apart(c.trades)
  <2>1. ASSUME NEW t \in c.trades, NEW u \in c.trades, Overlap(t, u) PROVE t = u
    <3>1. CASE t \in b.trades /\ u \in b.trades
      BY <2>1, <3>1 DEF GoodBook, Apart
    <3>2. CASE t \in new /\ u \in new
      BY <1>9, <2>1, <3>2 DEF Overlap
    <3>3. CASE t \in new /\ u \in b.trades
      BY <1>9, <2>1, <3>3
    <3>4. CASE t \in b.trades /\ u \in new
      BY <1>9, <2>1, <3>4
    <3> QED
      BY <1>6, <3>1, <3>2, <3>3, <3>4
  <2> QED
    BY <2>1 DEF Apart
<1>14. ASSUME NEW s \in Held(c)
       PROVE  c.positions[s] = b.positions[s] /\ GoodPosition(c.positions[s], start, day)
  <2>1. c.positions[s] = b.positions[s] /\ s \in Held(b)
    BY <1>6, <1>7
  <2>2. GoodPosition(b.positions[s], start, last)
    BY <2>1 DEF GoodBook
  <2>3. b.positions[s].entry <= last /\ b.positions[s].entry \in Nat
    BY <2>2 DEF GoodPosition, Position
  <2>4. b.positions[s].entry <= day
    BY <2>3
  <2> QED
    BY <2>1, <2>2, <2>4 DEF GoodPosition
<1>15. \A t \in c.trades : t.symbol \in Held(c) => t.exit < c.positions[t.symbol].entry
  <2>1. ASSUME NEW t \in c.trades, t.symbol \in Held(c)
        PROVE  t.exit < c.positions[t.symbol].entry
    <3>1. t.symbol \in Held(b) /\ t.symbol \notin closed
      BY <1>7, <2>1
    <3>2. t \in b.trades
      BY <1>6, <1>9, <3>1
    <3>3. t.exit < b.positions[t.symbol].entry
      BY <3>1, <3>2 DEF GoodBook
    <3> QED
      BY <1>14, <2>1, <3>3
  <2> QED
    BY <2>1
<1>16. Held(c) \subseteq Symbols /\ c.positions = [s \in Held(c) |-> c.positions[s]]
  BY <1>6, <1>7 DEF GoodBook
<1>17. GoodBook(c, start, day)
  BY <1>5, <1>6, <1>11, <1>12, <1>13, <1>14, <1>15, <1>16 DEF GoodBook
<1>18. \A t \in c.trades : t \in b.trades \/ t.symbol \in closed
  BY <1>6, <1>9
<1> QED
  BY <1>1, <1>3, <1>5, <1>7, <1>17, <1>18

-----------------------------------------------------------------------------
(* Entering: the bars, the costs and the size of a position.               *)

(* Purchases *)

\* A frame of daily bars.
IsFrame(frame) ==
    /\ DOMAIN frame \subseteq Sessions
    /\ \A d \in DOMAIN frame : frame[d] \in Series

\* The bars of the run are frames.
BarsTyped ==
    /\ DOMAIN bars \subseteq Symbols
    /\ \A s \in DOMAIN bars : IsFrame(bars[s])

\* A bar of the run, and the stop and target set from it, are prices whose sale
\* pays for itself.
LEMMA BarTyped ==
    ASSUME BarsTyped, NEW s \in DOMAIN bars, NEW day, HasRow(s, day)
    PROVE  LET bar == BarOf(s, day)
               bought == FillPrice(bar.open, "buy")
           IN /\ bar.open \in Nat \ {0} /\ bar.close \in Nat \ {0}
              /\ bought \in Nat
              /\ PaysForItself(bar.open) /\ PaysForItself(bar.close)
              /\ s \in Stopped => /\ PaysForItself(StopPrice(bought))
                                  /\ PaysForItself(TargetPrice(bought))
<1>1. PICK series : series = bars[s][day]
  OBVIOUS
<1>2. series \in Series /\ day \in Sessions /\ s \in Symbols
  BY <1>1 DEF BarsTyped, IsFrame, HasRow, Days
<1>3. PICK bar : bar = Price[series][s][day]
  OBVIOUS
<1>4. BarOf(s, day) = bar
  BY <1>1, <1>3 DEF BarOf
<1>5. bar.open \in Nat \ {0} /\ bar.close \in Nat \ {0}
  BY <1>2, <1>3, WalkForwardAssumption DEF WalkForwardAssumption
<1>6. /\ PaysForItself(bar.open) /\ PaysForItself(bar.close)
      /\ s \in Stopped => /\ PaysForItself(StopPrice(FillPrice(bar.open, "buy")))
                          /\ PaysForItself(TargetPrice(FillPrice(bar.open, "buy")))
  BY <1>2, <1>3, SalesPay
<1>7. FillPrice(bar.open, "buy") \in Nat
  <2>1. PICK open, rate : open = bar.open /\ rate = SpreadBps + 2 * SlippageBps
    OBVIOUS
  <2>2. open \in Nat /\ rate \in Nat
    BY <1>5, <2>1, CostAssumption DEF CostAssumption
  <2>3. open * rate \in Nat
    BY <2>2
  <2>4. (open * rate) \div 20000 \in Nat
    BY <2>3
  <2> QED
    BY <2>1, <2>2, <2>4 DEF FillPrice, Drift
<1> QED
  BY <1>4, <1>5, <1>6, <1>7

\* The costs of a purchase are an integer.
LEMMA BuyingCost ==
    ASSUME NEW fill \in Int, NEW q \in Int
    PROVE  Cost(fill, q, "buy") \in Int
<1>1. PICK x : x = fill * q
  OBVIOUS
<1>2. x \in Int
  BY <1>1
<1>3. Bps(x, SpreadBps) \in Int /\ Bps(x, SlippageBps) \in Int
  BY <1>2, CostAssumption DEF Bps, CostAssumption
<1>4. Commission(q) \in Int
  BY CostAssumption DEF Commission, Larger, CostAssumption
<1> QED
  BY <1>1, <1>3, <1>4 DEF Cost

\* The size of a position is an integer.
LEMMA SizeTyped ==
    ASSUME NEW capital \in Int, NEW weight \in Int, NEW price \in Nat \ {0}
    PROVE  Size(capital, weight, price) \in Int
<1>1. PICK a, b : /\ a = (capital * (100 - BufferPct)) \div 100
                  /\ b = (InitialCapital * weight) \div 100
  OBVIOUS
<1>2. a \in Int /\ b \in Int
  <2>1. BufferPct \in Int /\ InitialCapital \in Int
    BY WalkForwardAssumption DEF WalkForwardAssumption
  <2>2. capital * (100 - BufferPct) \in Int /\ InitialCapital * weight \in Int
    BY <2>1
  <2> QED
    BY <1>1, <2>2
<1>3. Size(capital, weight, price) = (IF a <= b THEN a ELSE b) \div price
  BY <1>1 DEF Size
<1> QED
  BY <1>2, <1>3

\* What a purchase adds to the positions is what it takes from the capital.
LEMMA PaidForMore ==
    ASSUME NEW p, NEW D, D = DOMAIN p, p = [s \in D |-> p[s]], IsFiniteSet(D),
           \A s \in D : p[s] \in Position, NEW t, t \notin D, NEW new \in Position,
           NEW more, more = [s \in D \cup {t} |-> IF s # t THEN p[s] ELSE new]
    PROVE  PaidFor(more) = PaidFor(p) + Paid(new)
<1>1. PICK f, g : f = [s \in D \cup {t} |-> Paid(more[s])] /\ g = [s \in D |-> Paid(p[s])]
  OBVIOUS
<1>2. ASSUME NEW s \in D \cup {t} PROVE f[s] \in Int
  BY <1>1 DEF Paid, Position
<1>3. SumFunctionOnSet(f, D \cup {t}) = f[t] + SumFunctionOnSet(f, D)
  BY <1>2, SumAdd
<1>4. \A s \in D : f[s] = g[s]
  BY <1>1
<1>5. SumFunctionOnSet(f, D) = SumFunctionOnSet(g, D)
  BY <1>4, SumSame
<1>6. SumFunctionOnSet(g, D) \in Int
  <2>1. \A s \in D : g[s] \in Int
    BY <1>2, <1>4
  <2> QED
    BY <2>1, SumType
<1>7. f[t] = Paid(new) /\ f[t] \in Int
  BY <1>1, <1>2
<1>8. PaidFor(p) = SumFunctionOnSet(g, D)
  BY <1>1, PaidForIsSum
<1>9. PaidFor(more) = SumFunctionOnSet(f, D \cup {t})
  <2>1. DOMAIN more = D \cup {t}
    OBVIOUS
  <2>2. more = [s \in DOMAIN more |-> more[s]]
    BY <2>1
  <2>3. f = [s \in DOMAIN more |-> Paid(more[s])]
    BY <1>1, <2>1
  <2>4. PaidFor(more) = SumFunctionOnSet(f, DOMAIN more)
    BY <2>2, <2>3, PaidForIsSum
  <2> QED
    BY <2>1, <2>4
<1> QED
  BY <1>3, <1>5, <1>6, <1>7, <1>8, <1>9

\* An entry keeps the book, whether or not it is affordable.
LEMMA EnteringKeepsTheBook ==
    ASSUME BarsTyped, NEW b, NEW start \in Nat, NEW next \in Nat, GoodBook(b, start, next),
           NEW decided \in Int, decided < next, start < next,
           NEW s \in DOMAIN bars, NEW weight \in Int,
           \A t \in b.trades : t.symbol = s => t.exit < next
    PROVE  LET c == Enter(b, s, weight, decided, next)
           IN /\ GoodBook(c, start, next)
              /\ Balance(c) = Balance(b)
              /\ c.trades = b.trades /\ Held(c) \subseteq Held(b) \cup {s}
<1>1. PICK quantity, fill, cost :
        /\ quantity = Size(b.capital, weight, BarOf(s, next).open)
        /\ fill = FillPrice(BarOf(s, next).open, "buy")
        /\ cost = Cost(fill, quantity, "buy")
  OBVIOUS
<1>2. PICK outlay : outlay = fill * quantity + cost
  OBVIOUS
<1>3. CASE s \in Held(b) \/ ~HasRow(s, next) \/ quantity <= 0 \/ outlay > b.capital
  <2>1. Enter(b, s, weight, decided, next) = b
    BY <1>1, <1>2, <1>3 DEF Enter
  <2> QED
    BY <2>1
<1>4. CASE ~(s \in Held(b) \/ ~HasRow(s, next) \/ quantity <= 0 \/ outlay > b.capital)
  <2>1. /\ s \notin Held(b) /\ HasRow(s, next) /\ s \in Symbols
        /\ b.capital \in Int /\ b.capital >= 0
    BY <1>4 DEF BarsTyped, GoodBook
  <2>2. /\ BarOf(s, next).open \in Nat \ {0} /\ fill \in Nat
        /\ s \in Stopped => PaysForItself(StopPrice(fill)) /\ PaysForItself(TargetPrice(fill))
    BY <1>1, <2>1, BarTyped
  <2>3. quantity \in Int /\ ~(quantity <= 0) /\ ~(outlay > b.capital)
    BY <1>1, <1>4, <2>1, <2>2, SizeTyped
  <2>4. cost \in Int /\ outlay \in Int
    <3>1. cost \in Int
      BY <1>1, <2>2, <2>3, BuyingCost
    <3>2. fill * quantity \in Int
      BY <2>2, <2>3
    <3> QED
      BY <1>2, <3>1, <3>2
  <2>5. PICK stop, target : /\ stop = IF s \in Stopped THEN StopPrice(fill) ELSE 0
                            /\ target = IF s \in Stopped THEN TargetPrice(fill) ELSE 0
    OBVIOUS
  <2>6. stop \in Int /\ target \in Int
    <3>1. StopPct \in Int /\ TargetPct \in Int
      BY WalkForwardAssumption DEF WalkForwardAssumption
    <3>2. fill * (100 - StopPct) \in Int /\ fill * (100 + TargetPct) \in Int
      BY <2>2, <3>1
    <3> QED
      BY <2>5, <3>2 DEF StopPrice, TargetPrice
  <2>7. PICK new : new = [quantity |-> quantity, price |-> fill, entry |-> next, cost |-> cost,
                          decided |-> decided, stop |-> stop, target |-> target]
    OBVIOUS
  <2>8. new \in Position
    BY <2>2, <2>3, <2>4, <2>6, <2>7 DEF Position
  <2>9. GoodPosition(new, start, next) /\ new.entry = next
    BY <2>2, <2>5, <2>7, <2>8 DEF GoodPosition
  <2>10. PICK c : c = Enter(b, s, weight, decided, next)
    OBVIOUS
  <2>11. c = [b EXCEPT !.capital = @ - outlay,
                       !.positions = [t \in Held(b) \cup {s} |-> IF t # s THEN @[t] ELSE new]]
    BY <1>1, <1>2, <1>4, <2>5, <2>7, <2>10 DEF Enter
  <2>12. b = [capital |-> b.capital, positions |-> b.positions, trades |-> b.trades]
    BY DEF GoodBook
  <2>13. c = [capital |-> b.capital - outlay,
              positions |-> [t \in Held(b) \cup {s} |-> IF t # s THEN b.positions[t] ELSE new],
              trades |-> b.trades]
    BY <2>11, <2>12
  <2>14. /\ c.capital = b.capital - outlay /\ c.trades = b.trades
         /\ c.positions = [t \in Held(b) \cup {s} |-> IF t # s THEN b.positions[t] ELSE new]
         /\ Held(c) = Held(b) \cup {s}
    BY <2>13 DEF Held
  <2>15. Balance(c) = Balance(b)
    <3>1. PICK p, D : p = b.positions /\ D = Held(b)
      OBVIOUS
    <3>2. /\ D = DOMAIN p /\ p = [t \in D |-> p[t]] /\ D \subseteq Symbols
          /\ \A t \in D : p[t] \in Position
      BY <2>1, <3>1 DEF GoodBook, GoodPosition, Held
    <3>3. IsFiniteSet(D)
      BY <3>2, SymbolsAreFinite
    <3>4. s \notin D
      BY <2>1, <3>1
    <3>5. PICK more : more = [t \in D \cup {s} |-> IF t # s THEN p[t] ELSE new]
      OBVIOUS
    <3>6. PaidFor(more) = PaidFor(p) + Paid(new)
      <4>1. D = DOMAIN p /\ p = [t \in D |-> p[t]]
        BY <3>2
      <4>2. \A t \in D : p[t] \in Position
        BY <3>2
      <4> QED
        BY <2>8, <3>3, <3>4, <3>5, <4>1, <4>2, PaidForMore
    <3>7. PaidFor(p) \in Int
      BY <3>2, <3>3, PaidForType
    <3>8. Paid(new) = outlay
      BY <1>2, <2>7 DEF Paid
    <3>9. Net(b.trades) \in Int
      BY NetType DEF GoodBook
    <3>10. Balance(b) = b.capital + PaidFor(p) - Net(b.trades)
      BY <3>1 DEF Balance
    <3>11. Balance(c) = (b.capital - outlay) + (PaidFor(p) + outlay) - Net(b.trades)
      BY <2>14, <3>1, <3>5, <3>6, <3>8 DEF Balance
    <3> QED
      BY <2>1, <2>4, <3>7, <3>9, <3>10, <3>11
  <2>16. c.capital \in Int /\ c.capital >= 0
    BY <2>1, <2>3, <2>4, <2>14
  <2>17. \A t \in Held(c) : GoodPosition(c.positions[t], start, next)
    BY <2>9, <2>14 DEF GoodBook
  <2>18. \A t \in c.trades : t.symbol \in Held(c) => t.exit < c.positions[t.symbol].entry
    BY <2>9, <2>14 DEF GoodBook
  <2>19. /\ Held(c) \subseteq Symbols /\ c.positions = [t \in Held(c) |-> c.positions[t]]
         /\ c = [capital |-> c.capital, positions |-> c.positions, trades |-> c.trades]
    BY <2>1, <2>13, <2>14 DEF GoodBook
  <2>20. GoodBook(c, start, next)
    BY <2>14, <2>16, <2>17, <2>18, <2>19 DEF GoodBook
  <2> QED
    BY <2>10, <2>14, <2>15, <2>20
<1> QED
  BY <1>3, <1>4

(* A session *)

\* The targets of a session are symbols with bars.
LEMMA DecisionsAreLists ==
    ASSUME BarsTyped, NEW targets \in Decisions
    PROVE  /\ Len(targets) \in Nat
           /\ \A i \in 1 .. Len(targets) : targets[i] \in DOMAIN bars
                                           /\ targets[i] \in Range(targets)
<1>1. PICK T \in SUBSET DOMAIN bars : targets \in SetToSeqs(T)
  BY DEF Decisions, SetToAllKPermutations
<1>2. targets \in [1 .. Cardinality(T) -> T]
  BY <1>1 DEF SetToSeqs
<1>3. Cardinality(T) \in Nat
  <2>1. T \subseteq Symbols
    BY <1>1 DEF BarsTyped
  <2> QED
    BY <2>1, SymbolsAreFinite, FS_CardinalityType
<1>4. PICK n : n = Cardinality(T)
  OBVIOUS
<1>5. Len(targets) = n /\ DOMAIN targets = 1 .. n /\ \A i \in 1 .. n : targets[i] \in T
  BY <1>2, <1>3, <1>4
<1> QED
  BY <1>1, <1>3, <1>4, <1>5 DEF Range

\* So do the entries of a session, by induction over the targets.
LEMMA EntriesKeepTheBook ==
    ASSUME BarsTyped, NEW b, NEW start \in Nat, NEW next \in Nat, GoodBook(b, start, next),
           NEW decided \in Int, decided < next, start < next,
           NEW targets \in Decisions, Held(b) \subseteq DOMAIN bars,
           \A t \in b.trades : t.symbol \in Range(targets) => t.exit < next
    PROVE  LET c == AfterEntries(b, targets, decided, next)
           IN /\ GoodBook(c, start, next) /\ Balance(c) = Balance(b)
              /\ Held(c) \subseteq DOMAIN bars
<1>1. PICK n : n = Len(targets)
  OBVIOUS
<1>2. /\ n \in Nat
      /\ \A i \in 1 .. n : targets[i] \in DOMAIN bars /\ targets[i] \in Range(targets)
  BY <1>1, DecisionsAreLists
<1>3. PICK after : /\ after[0] = b
                   /\ \A i \in 1 .. n : after[i] = Enter(after[i - 1], targets[i],
                                                         MaxWeightPct \div n, decided, next)
                   /\ AfterEntries(b, targets, decided, next) = after[n]
  BY <1>1, <1>2, EntriesInTurn
<1> DEFINE sound(c) == /\ GoodBook(c, start, next) /\ Balance(c) = Balance(b)
                       /\ c.trades = b.trades /\ Held(c) \subseteq DOMAIN bars
<1> DEFINE good == {i \in 0 .. n : sound(after[i])}
<1>4. 0 \in good
  BY <1>2, <1>3
<1>5. ASSUME NEW i \in 1 .. n, i - 1 \in good PROVE i \in good
  <2>1. PICK c, s : c = after[i - 1] /\ s = targets[i]
    OBVIOUS
  <2>2. sound(c) /\ s \in DOMAIN bars /\ s \in Range(targets)
    BY <1>2, <1>5, <2>1
  <2>3. MaxWeightPct \div n \in Int
    BY <1>2, WalkForwardAssumption DEF WalkForwardAssumption
  <2>4. PICK weight : weight = MaxWeightPct \div n
    OBVIOUS
  <2>5. PICK d : d = Enter(c, s, weight, decided, next)
    OBVIOUS
  <2>6. \A t \in c.trades : t.symbol = s => t.exit < next
    BY <2>2
  <2>7. /\ GoodBook(d, start, next) /\ Balance(d) = Balance(c) /\ d.trades = c.trades
        /\ Held(d) \subseteq Held(c) \cup {s}
    BY <2>2, <2>3, <2>4, <2>5, <2>6, EnteringKeepsTheBook
  <2>8. after[i] = d
    BY <1>3, <2>1, <2>4, <2>5
  <2> QED
    BY <2>2, <2>7, <2>8
<1>6. n \in good
  <2> HIDE DEF good
  <2>1. \A i \in 0 .. n : i \in good
    BY <1>2, <1>4, <1>5, IntervalInduction
  <2> QED
    BY <1>2, <2>1
<1> QED
  BY <1>3, <1>6

\* The stops and targets of a day.
LEMMA StopsKeepTheBook ==
    ASSUME NEW b, NEW start \in Nat, NEW day \in Nat, GoodBook(b, start, day)
    PROVE  LET c == AfterStops(b, day)
           IN GoodBook(c, start, day) /\ Balance(c) = Balance(b) /\ Held(c) \subseteq Held(b)
<1>1. PICK exits :
        exits = [s \in Touched(b, day) |->
                   IF StopTouched(b.positions[s], BarOf(s, day))
                   THEN [price |-> b.positions[s].stop, reason |-> "stop_loss"]
                   ELSE [price |-> b.positions[s].target, reason |-> "take_profit"]]
  OBVIOUS
<1>2. DOMAIN exits = Touched(b, day)
  BY <1>1
<1>3. ASSUME NEW s \in DOMAIN exits
      PROVE  /\ s \in Held(b)
             /\ exits[s].price \in Int /\ PaysForItself(exits[s].price)
             /\ exits[s].reason \in Reasons
             /\ TradingDaysBetween(b.positions[s].entry, day) >= MinHold
  <2>1. /\ s \in Held(b)
        /\ \/ StopTouched(b.positions[s], BarOf(s, day))
           \/ TargetTouched(b.positions[s], BarOf(s, day))
        /\ MinHoldSatisfied(b.positions[s], day)
    BY <1>2 DEF Touched
  <2>2. GoodPosition(b.positions[s], start, day)
    BY <2>1 DEF GoodBook
  <2>3. PICK p : p = b.positions[s]
    OBVIOUS
  <2>4. /\ p.stop \in Int /\ p.target \in Int
        /\ p.stop # 0 => PaysForItself(p.stop)
        /\ p.target # 0 => PaysForItself(p.target)
    BY <2>2, <2>3 DEF GoodPosition, Position
  <2>5. CASE StopTouched(p, BarOf(s, day))
    <3>1. exits[s].price = p.stop /\ exits[s].reason = "stop_loss"
      BY <1>1, <1>2, <2>3, <2>5
    <3>2. p.stop # 0
      BY <2>5 DEF StopTouched
    <3> QED
      BY <2>1, <2>3, <2>4, <3>1, <3>2 DEF Reasons, MinHoldSatisfied
  <2>6. CASE ~StopTouched(p, BarOf(s, day))
    <3>1. exits[s].price = p.target /\ exits[s].reason = "take_profit"
      BY <1>1, <1>2, <2>3, <2>6
    <3>2. p.target # 0
      BY <2>1, <2>3, <2>6 DEF TargetTouched
    <3> QED
      BY <2>1, <2>3, <2>4, <3>1, <3>2 DEF Reasons, MinHoldSatisfied
  <2> QED
    BY <2>5, <2>6
<1>4. GoodExits(b, exits, day)
  BY <1>3 DEF GoodExits
<1>5. AfterStops(b, day) = CloseAll(b, exits, day)
  BY <1>1 DEF AfterStops
<1>6. day >= day
  OBVIOUS
<1>7. PICK c : c = CloseAll(b, exits, day)
  OBVIOUS
<1>8. GoodBook(c, start, day) /\ Balance(c) = Balance(b) /\ Held(c) = Held(b) \ DOMAIN exits
  BY <1>4, <1>6, <1>7, ClosingKeepsTheBook
<1> QED
  BY <1>5, <1>7, <1>8

\* What is no longer wanted: a symbol that is sold at the next open is not
\* bought at it.
LEMMA SignalsKeepTheBook ==
    ASSUME BarsTyped, NEW b, NEW start \in Nat, NEW day \in Nat, GoodBook(b, start, day),
           Held(b) \subseteq DOMAIN bars, NEW next \in Nat, day < next, NEW targets
    PROVE  LET c == AfterSignals(b, targets, next)
           IN /\ GoodBook(c, start, next) /\ Balance(c) = Balance(b)
              /\ Held(c) \subseteq Held(b)
              /\ \A t \in c.trades : t.symbol \in Range(targets) => t.exit < next
<1>1. PICK closed : closed = {t \in Held(b) : /\ t \notin Range(targets)
                                              /\ MinHoldSatisfied(b.positions[t], next)
                                              /\ HasRow(t, next)}
  OBVIOUS
<1>2. PICK exits : exits = [s \in closed |->
                              [price |-> BarOf(s, next).open, reason |-> "signal"]]
  OBVIOUS
<1>3. ASSUME NEW s \in closed
      PROVE  /\ s \in Held(b) /\ s \notin Range(targets)
             /\ exits[s].price \in Int /\ PaysForItself(exits[s].price)
             /\ exits[s].reason \in Reasons
             /\ TradingDaysBetween(b.positions[s].entry, next) >= MinHold
  <2>1. /\ s \in Held(b) /\ s \notin Range(targets)
        /\ MinHoldSatisfied(b.positions[s], next) /\ HasRow(s, next)
    BY <1>1
  <2>2. BarOf(s, next).open \in Int /\ PaysForItself(BarOf(s, next).open)
    BY <2>1, BarTyped
  <2>3. exits[s].price = BarOf(s, next).open /\ exits[s].reason = "signal"
    BY <1>2
  <2> QED
    BY <2>1, <2>2, <2>3 DEF Reasons, MinHoldSatisfied
<1>4. DOMAIN exits = closed
  BY <1>2
<1>5. GoodExits(b, exits, next)
  BY <1>3, <1>4 DEF GoodExits
<1>6. AfterSignals(b, targets, next) = CloseAll(b, exits, next)
  BY <1>1, <1>2 DEF AfterSignals
<1>7. next >= day
  OBVIOUS
<1>8. PICK c : c = CloseAll(b, exits, next)
  OBVIOUS
<1>9. /\ GoodBook(c, start, next) /\ Balance(c) = Balance(b)
      /\ Held(c) = Held(b) \ DOMAIN exits
      /\ \A t \in c.trades : t \in b.trades \/ t.symbol \in DOMAIN exits
  BY <1>5, <1>7, <1>8, ClosingKeepsTheBook
<1>10. ASSUME NEW t \in c.trades, t.symbol \in Range(targets) PROVE t.exit < next
  <2>1. t \in b.trades
    BY <1>3, <1>4, <1>9, <1>10
  <2>2. t.exit <= day /\ t.exit \in Nat
    BY <2>1 DEF GoodBook, Trade
  <2> QED
    BY <2>2
<1> QED
  BY <1>6, <1>8, <1>9, <1>10

\* The end of a window closes what is left.
LEMMA CloseOutKeepsTheBook ==
    ASSUME BarsTyped, NEW b, NEW start \in Nat, NEW day \in Nat, GoodBook(b, start, day),
           Held(b) \subseteq DOMAIN bars
    PROVE  LET c == CloseOut(b, day)
           IN GoodBook(c, start, day) /\ Balance(c) = Balance(b)
<1>1. PICK closed : closed = {t \in Held(b) : HasRow(t, day)}
  OBVIOUS
<1>2. PICK exits : exits = [s \in closed |->
                              [price |-> BarOf(s, day).close, reason |-> "window_end"]]
  OBVIOUS
<1>3. ASSUME NEW s \in closed
      PROVE  /\ s \in Held(b) /\ exits[s].price \in Int /\ PaysForItself(exits[s].price)
             /\ exits[s].reason = "window_end"
  <2>1. s \in Held(b) /\ HasRow(s, day)
    BY <1>1
  <2>2. BarOf(s, day).close \in Int /\ PaysForItself(BarOf(s, day).close)
    BY <2>1, BarTyped
  <2> QED
    BY <1>2, <2>1, <2>2
<1>4. DOMAIN exits = closed
  BY <1>2
<1>5. GoodExits(b, exits, day)
  BY <1>3, <1>4 DEF GoodExits, Reasons
<1>6. CloseOut(b, day) = CloseAll(b, exits, day)
  BY <1>1, <1>2 DEF CloseOut
<1>7. day >= day
  OBVIOUS
<1>8. PICK c : c = CloseAll(b, exits, day)
  OBVIOUS
<1>9. GoodBook(c, start, day) /\ Balance(c) = Balance(b)
  BY <1>5, <1>7, <1>8, ClosingKeepsTheBook
<1> QED
  BY <1>6, <1>8, <1>9

-----------------------------------------------------------------------------
(* The invariant of the backtest's half.                                   *)

(* The bars *)

\* Merging, fetching and reading through the cache give frames.
LEMMA MergedFrames ==
    ASSUME NEW old, NEW new, IsFrame(old), IsFrame(new)
    PROVE  IsFrame(Merge(old, new))
BY DEF IsFrame, Merge, Days

\* What a provider or the generator returns is a frame ...
LEMMA FetchedFrames ==
    ASSUME NEW s, NEW from, NEW to, NEW outcome
    PROVE  IsFrame(Fetch(s, from, to, outcome).frame)
<1>1. IsFrame(SyntheticBars(from, to))
  BY DEF SyntheticBars, IsFrame, Series
<1>2. IsFrame(NoFrame)
  BY DEF NoFrame, IsFrame
<1>3. IsFrame(ProviderBars(s, from, to, outcome))
  <2>1. CASE outcome = "full"
    BY <2>1 DEF ProviderBars, IsFrame, Series
  <2>2. CASE outcome = "truncated"
    BY <2>2 DEF ProviderBars, IsFrame, Series
  <2>3. CASE outcome # "full" /\ outcome # "truncated"
    BY <1>2, <2>3 DEF ProviderBars
  <2> QED
    BY <2>1, <2>2, <2>3
<1> QED
  BY <1>1, <1>3 DEF Fetch

\* ... and so is what the repository keeps and returns.
LEMMA BarsAreFrames ==
    ASSUME NEW cached, IsFrame(cached), NEW s, NEW start, NEW end, NEW asOf, NEW validate,
           NEW outcome, NEW fresh, NEW day
    PROVE  /\ IsFrame(GetBars(cached, s, start, end, asOf, validate, outcome, fresh, day).cache)
           /\ IsFrame(GetBars(cached, s, start, end, asOf, validate, outcome, fresh, day).window)
<1>1. PICK fetched : fetched = Fetch(s, FetchStart(cached, start, FALSE, day), end, outcome)
  OBVIOUS
<1>2. IsFrame(Merge(cached, fetched.frame))
  BY <1>1, FetchedFrames, MergedFrames
<1>3. PICK frame : frame = IF CacheCovers(cached, start, end) /\ (end < day \/ fresh)
                           THEN cached ELSE Merge(cached, fetched.frame)
  OBVIOUS
<1>4. IsFrame(frame)
  BY <1>2, <1>3
<1>5. PICK window_ : window_ = Slice(frame, start, end, asOf)
  OBVIOUS
<1>6. IsFrame(window_)
  BY <1>4, <1>5 DEF IsFrame, Slice, Days
<1>7. IsFrame(NoFrame)
  BY DEF NoFrame, IsFrame
<1>8. /\ GetBars(cached, s, start, end, asOf, validate, outcome, fresh, day).cache = frame
      /\ GetBars(cached, s, start, end, asOf, validate, outcome, fresh, day).window
           = IF validate /\ Unusable(window_, end, asOf) THEN NoFrame ELSE window_
  BY <1>1, <1>3, <1>5 DEF GetBars
<1> QED
  BY <1>4, <1>6, <1>7, <1>8

-----------------------------------------------------------------------------
(* The invariant of the simulation *)

\* The trades kept over all windows are honest and apart, and account for what the
\* run has gained and lost.
TotalsInv ==
    /\ total.capital \in Int /\ total.capital >= 0 /\ total.vanished \in Int
    /\ IsFiniteSet(total.trades) /\ total.trades \subseteq Trade
    /\ \A t \in total.trades : Honest(t)
    /\ Apart(total.trades)
    /\ stage # "idle" => total.capital + total.vanished = InitialCapital + Net(total.trades)

\* The trades kept end before the window that is being tested opens, and its
\* book accounts for what the run has earned.
WindowInv ==
    /\ stage \in {"idle", "fit", "session", "done"}
    /\ stage \in {"fit", "session"} =>
         /\ window \in 1 .. Len(Windows)
         /\ \A t \in total.trades : t.exit <= Opens(window)
    /\ stage = "session" =>
         /\ session \in Nat
         /\ SessionsOf(window) # {} => session \in SessionsOf(window)
         /\ SessionsOf(window) = {} => session = 0
         /\ GoodBook(book, Opens(window), session)
         /\ Held(book) \subseteq DOMAIN bars
         /\ Balance(book) = total.capital
    /\ stage # "session" => book.trades = {}

\* The parts together.
WFInv == BarsTyped /\ TotalsInv /\ WindowInv

\* The cache holds frames.
CacheTyped == DOMAIN cache = Symbols /\ \A s \in Symbols : IsFrame(cache[s])

\* A window's book starts good.
LEMMA FreshBookIsGood ==
    ASSUME NEW capital \in Int, capital >= 0, NEW start, NEW day
    PROVE  /\ GoodBook(FreshBook(capital), start, day)
           /\ Balance(FreshBook(capital)) = capital
           /\ Held(FreshBook(capital)) = {}
           /\ FreshBook(capital).trades = {}
<1>1. PICK b : b = FreshBook(capital)
  OBVIOUS
<1>2. b = [capital |-> capital, positions |-> NoPositions, trades |-> {}]
  BY <1>1 DEF FreshBook
<1>3. DOMAIN NoPositions = {} /\ NoPositions = [s \in {} |-> NoPositions[s]]
  BY DEF NoPositions
<1>4. Held(b) = {} /\ b.trades = {} /\ b.capital = capital /\ b.positions = NoPositions
  BY <1>2, <1>3 DEF Held
<1>5. IsFiniteSet({}) /\ Apart({})
  BY FS_EmptySet DEF Apart
<1>6. b.positions = [s \in Held(b) |-> b.positions[s]]
  BY <1>3, <1>4
<1>7. GoodBook(b, start, day)
  BY <1>2, <1>4, <1>5, <1>6 DEF GoodBook
<1>8. Balance(b) = capital
  BY <1>4, PaidForNothing, NetOfNothing DEF Balance
<1> QED
  BY <1>1, <1>4, <1>7, <1>8

-----------------------------------------------------------------------------
(* The steps of the walk-forward run keep it.                              *)

(* The steps of a simulation *)

\* Going on to the next window.
LEMMA NextWindowStays ==
    ASSUME WFInv, stage \in {"fit", "session"}, NextWindow, UNCHANGED bars, TotalsInv',
           \A t \in total'.trades : t.exit <= Opens(window + 1)
    PROVE  WFInv'
<1>1. window \in 1 .. Len(Windows) /\ Len(Windows) \in Nat
  BY WindowsInOrder DEF WFInv, WindowInv
<1>2. /\ stage' = IF window < Len(Windows) THEN "fit" ELSE "done"
      /\ window' = window + 1 /\ book' = FreshBook(0)
  BY DEF NextWindow
<1>3. stage' = "fit" => window' \in 1 .. Len(Windows)
  BY <1>1, <1>2
<1>4. book'.trades = {}
  BY <1>2 DEF FreshBook
<1>5. WindowInv'
  BY <1>2, <1>3, <1>4 DEF WindowInv
<1>6. BarsTyped'
  BY DEF WFInv, BarsTyped
<1> QED
  BY <1>5, <1>6 DEF WFInv

\* What is kept when a window is given up was kept before it.
LEMMA LostWindowStays ==
    ASSUME WFInv, stage \in {"fit", "session"}, NextWindow, UNCHANGED <<bars, total>>
    PROVE  WFInv'
<1>1. window \in Nat \ {0}
  BY WindowsInOrder DEF WFInv, WindowInv
<1>2. stage' # "idle" /\ stage # "idle"
  BY DEF NextWindow
<1>3. TotalsInv'
  BY <1>2 DEF WFInv, TotalsInv
<1>4. ASSUME NEW t \in total'.trades PROVE t.exit <= Opens(window + 1)
  <2>1. t \in total.trades /\ t.exit <= Opens(window)
    BY <1>4 DEF WFInv, WindowInv
  <2>2. t.exit \in Nat
    BY <2>1 DEF WFInv, TotalsInv, Trade
  <2>3. Opens(window) \in Nat /\ Opens(window + 1) \in Nat /\ Opens(window) <= Opens(window + 1)
    BY <1>1, OpensIsNat
  <2> QED
    BY <2>1, <2>2, <2>3
<1> QED
  BY <1>3, <1>4, NextWindowStays

\* Fitting, or skipping a window without sessions or model.
LEMMA FitStays ==
    ASSUME WFInv, Fit
    PROVE  WFInv'
<1>1. /\ window \in 1 .. Len(Windows) /\ Len(Windows) \in Nat
      /\ \A t \in total.trades : t.exit <= Opens(window)
      /\ total.capital \in Int /\ total.capital >= 0
  BY WindowsInOrder DEF WFInv, WindowInv, TotalsInv, Fit
<1>2. /\ stage' = "session" /\ window' = window /\ total' = total /\ bars' = bars
      /\ session' = IF SessionsOf(window) = {} THEN 0 ELSE Earliest(SessionsOf(window))
      /\ book' = FreshBook(total.capital)
  BY DEF Fit
<1>3. SessionsOf(window) # {} => session' \in SessionsOf(window)
  <2>1. PICK days : days = SessionsOf(window)
    OBVIOUS
  <2>2. IsFiniteSet(days) /\ days \subseteq Int
    BY <1>1, <2>1, SessionsOfWindow
  <2> QED
    BY <1>2, <2>1, <2>2, EarliestIsLeast
<1>4. session' \in Nat
  BY <1>1, <1>2, <1>3, SessionsOfWindow
<1>5. /\ GoodBook(book', Opens(window), session') /\ Held(book') = {}
      /\ Balance(book') = total.capital
  BY <1>1, <1>2, FreshBookIsGood
<1>6. SessionsOf(window)' = SessionsOf(window) /\ Opens(window)' = Opens(window)
  BY <1>2 DEF SessionsOf, Opens
<1>7. TotalsInv'
  BY <1>2 DEF WFInv, TotalsInv, Fit
<1>8. BarsTyped'
  BY <1>2 DEF WFInv, BarsTyped
<1>9. WindowInv'
  BY <1>1, <1>2, <1>3, <1>4, <1>5, <1>6 DEF WindowInv
<1> QED
  BY <1>7, <1>8, <1>9 DEF WFInv

\* The next session is a later one of the same window.
LEMMA NextSessionIsLater ==
    ASSUME WFInv, stage = "session", ~IsLastSession
    PROVE  /\ window \in 1 .. Len(Windows)
           /\ session \in SessionsOf(window) /\ session \in Nat
           /\ NextSession \in SessionsOf(window) /\ NextSession \in Nat
           /\ session < NextSession
           /\ Opens(window) \in Nat /\ Opens(window) < NextSession
<1>1. window \in 1 .. Len(Windows) /\ session \in Nat
  BY DEF WFInv, WindowInv
<1>2. PICK later : later = LaterSessions
  OBVIOUS
<1>3. later \in SUBSET SessionsOf(window) /\ later # {}
  BY <1>2 DEF LaterSessions, IsLastSession
<1>4. /\ IsFiniteSet(SessionsOf(window)) /\ SessionsOf(window) \subseteq Nat
      /\ \A d \in SessionsOf(window) : Opens(window) <= d
  BY <1>1, SessionsOfWindow
<1>5. IsFiniteSet(later) /\ later \subseteq Int
  BY <1>3, <1>4, FS_Subset
<1>6. NextSession \in later
  BY <1>2, <1>3, <1>5, EarliestIsLeast DEF NextSession
<1>7. NextSession \in SessionsOf(window) /\ NextSession > session
  BY <1>2, <1>6 DEF LaterSessions
<1>8. session \in SessionsOf(window)
  BY <1>7 DEF WFInv, WindowInv
<1>9. Opens(window) \in Nat
  <2>1. Len(Windows) \in Nat
    BY WindowsInOrder
  <2>2. window \in Nat \ {0}
    BY <1>1, <2>1
  <2> QED
    BY <2>2, OpensIsNat
<1>10. Opens(window) <= session /\ NextSession \in Nat /\ session < NextSession
  BY <1>1, <1>4, <1>7, <1>8
<1> QED
  BY <1>1, <1>7, <1>8, <1>9, <1>10

\* A session: stops, then signals, then entries at the next open.
LEMMA TradeSessionStays ==
    ASSUME WFInv, NEW targets \in Decisions, TradeSession(targets)
    PROVE  WFInv'
<1>1. stage = "session" /\ ~IsLastSession
  BY DEF TradeSession
<1>2. PICK start, day, next : start = Opens(window) /\ day = session /\ next = NextSession
  OBVIOUS
<1>3. /\ window \in 1 .. Len(Windows) /\ start \in Nat
      /\ day \in SessionsOf(window) /\ day \in Nat
      /\ next \in SessionsOf(window) /\ next \in Nat /\ day < next /\ start < next
  BY <1>1, <1>2, NextSessionIsLater
<1>4. /\ GoodBook(book, start, day) /\ Balance(book) = total.capital
      /\ Held(book) \subseteq DOMAIN bars /\ BarsTyped
  BY <1>1, <1>2 DEF WFInv, WindowInv
<1>5. PICK b : b = AfterStops(book, day)
  OBVIOUS
<1>6. GoodBook(b, start, day) /\ Balance(b) = Balance(book) /\ Held(b) \subseteq Held(book)
  BY <1>3, <1>4, <1>5, StopsKeepTheBook
<1>7. PICK c : c = AfterSignals(b, targets, next)
  OBVIOUS
<1>8. /\ GoodBook(c, start, next) /\ Balance(c) = Balance(b) /\ Held(c) \subseteq Held(b)
      /\ \A t \in c.trades : t.symbol \in Range(targets) => t.exit < next
  <2>1. Held(b) \subseteq DOMAIN bars
    BY <1>4, <1>6
  <2> QED
    BY <1>3, <1>4, <1>6, <1>7, <2>1, SignalsKeepTheBook
<1>9. PICK d : d = AfterEntries(c, targets, day, next)
  OBVIOUS
<1>10. GoodBook(d, start, next) /\ Balance(d) = Balance(c) /\ Held(d) \subseteq DOMAIN bars
  <2>1. Held(c) \subseteq DOMAIN bars /\ day \in Int
    BY <1>3, <1>4, <1>6, <1>8
  <2> QED
    BY <1>3, <1>4, <1>8, <1>9, <2>1, EntriesKeepTheBook
<1>11. /\ book' = d /\ session' = next
       /\ UNCHANGED <<bars, stage, window, total>>
  BY <1>2, <1>5, <1>7, <1>9 DEF TradeSession
<1>12. SessionsOf(window)' = SessionsOf(window) /\ Opens(window)' = Opens(window)
  BY <1>11 DEF SessionsOf, Opens
<1>13. TotalsInv' /\ BarsTyped'
  BY <1>11 DEF WFInv, TotalsInv, BarsTyped
<1>14. \A t \in total'.trades : t.exit <= Opens(window)
  BY <1>1, <1>11 DEF WFInv, WindowInv
<1>15. WindowInv'
  <2>1. Balance(book') = total'.capital /\ Held(book') \subseteq DOMAIN bars'
    BY <1>4, <1>6, <1>8, <1>10, <1>11
  <2>2. GoodBook(book', Opens(window), session')
    BY <1>2, <1>10, <1>11
  <2> QED
    BY <1>1, <1>3, <1>11, <1>12, <1>14, <2>1, <2>2 DEF WindowInv
<1> QED
  BY <1>13, <1>15 DEF WFInv

\* A good book stays good while days pass.
LEMMA LaterBookIsGood ==
    ASSUME NEW b, NEW start \in Nat, NEW day \in Nat, NEW next \in Nat, day <= next,
           GoodBook(b, start, day)
    PROVE  GoodBook(b, start, next)
<1>1. ASSUME NEW s \in Held(b) PROVE GoodPosition(b.positions[s], start, next)
  BY DEF GoodBook, GoodPosition, Position
<1>2. ASSUME NEW t \in b.trades PROVE t.exit <= next
  BY DEF GoodBook, Trade
<1> QED
  BY <1>1, <1>2 DEF GoodBook

\* A session without decisions.
LEMMA SkipSessionStays ==
    ASSUME WFInv, SkipSession
    PROVE  WFInv'
<1>1. stage = "session" /\ ~IsLastSession
  BY DEF SkipSession
<1>2. PICK start, day, next : start = Opens(window) /\ day = session /\ next = NextSession
  OBVIOUS
<1>3. /\ window \in 1 .. Len(Windows) /\ start \in Nat
      /\ next \in SessionsOf(window) /\ next \in Nat /\ day < next /\ day \in Nat
  BY <1>1, <1>2, NextSessionIsLater
<1>4. /\ GoodBook(book, start, day) /\ Balance(book) = total.capital
      /\ Held(book) \subseteq DOMAIN bars
      /\ \A t \in total.trades : t.exit <= Opens(window)
  BY <1>1, <1>2 DEF WFInv, WindowInv
<1>5. GoodBook(book, start, next)
  <2>1. day <= next
    BY <1>3
  <2> QED
    BY <1>3, <1>4, <2>1, LaterBookIsGood
<1>6. session' = next /\ UNCHANGED <<bars, stage, window, book, total>>
  BY <1>2 DEF SkipSession
<1>7. SessionsOf(window)' = SessionsOf(window) /\ Opens(window)' = Opens(window)
  BY <1>6 DEF SessionsOf, Opens
<1>8. TotalsInv' /\ BarsTyped'
  BY <1>6 DEF WFInv, TotalsInv, BarsTyped
<1>9. GoodBook(book', Opens(window), session')
  BY <1>2, <1>5, <1>6
<1>10. WindowInv'
  BY <1>1, <1>3, <1>4, <1>6, <1>7, <1>9 DEF WindowInv
<1> QED
  BY <1>8, <1>10 DEF WFInv

\* The trades of a window begin after the earlier windows' trades ended.
LEMMA WindowTradesAreNew ==
    ASSUME TotalsInv, NEW b, NEW start \in Nat, NEW day \in Nat, GoodBook(b, start, day),
           \A t \in total.trades : t.exit <= start,
           NEW t \in total.trades, NEW u \in b.trades
    PROVE  ~Overlap(t, u) /\ ~Overlap(u, t) /\ t # u
<1>1. t \in Trade /\ u \in Trade /\ t.exit <= start /\ start < u.entry /\ Honest(t)
  BY DEF TotalsInv, GoodBook
<1>2. t.exit \in Nat /\ u.entry \in Nat /\ t.entry \in Nat /\ t.entry <= t.exit
  BY <1>1 DEF Trade, Honest
<1> QED
  BY <1>1, <1>2 DEF Overlap

\* A window's trades are added to the kept ones.
LEMMA MergingStays ==
    ASSUME TotalsInv, stage # "idle",
           NEW b, NEW start \in Nat, NEW day \in Nat, GoodBook(b, start, day),
           Balance(b) = total.capital, \A t \in total.trades : t.exit <= start,
           NEW days, NEW next \in Nat, day <= next, start <= next, total' = Merged(b, days)
    PROVE  TotalsInv' /\ \A t \in total'.trades : t.exit <= next
<1>1. PICK trades : trades = b.trades
  OBVIOUS
<1>2. PICK p : p = b.positions
  OBVIOUS
<1>3. /\ total'.capital = b.capital
      /\ total'.trades = total.trades \cup trades
      /\ total'.vanished = total.vanished + PaidFor(p)
  BY <1>1, <1>2 DEF Merged
<1>4. /\ IsFiniteSet(trades) /\ trades \subseteq Trade /\ b.capital \in Int /\ b.capital >= 0
      /\ \A t \in trades : Honest(t) /\ t.exit <= day
      /\ Apart(trades)
  BY <1>1 DEF GoodBook
<1>5. /\ IsFiniteSet(total.trades) /\ total.trades \subseteq Trade
      /\ \A t \in total.trades : Honest(t)
      /\ Apart(total.trades) /\ total.vanished \in Int /\ total.capital \in Int
      /\ total.capital + total.vanished = InitialCapital + Net(total.trades)
  BY DEF TotalsInv
<1>6. \A t \in total.trades, u \in trades : ~Overlap(t, u) /\ ~Overlap(u, t) /\ t # u
  BY <1>1, WindowTradesAreNew
<1>7. Net(total.trades \cup trades) = Net(total.trades) + Net(trades)
  <2>1. total.trades \cap trades = {}
    BY <1>6
  <2> QED
    BY <1>4, <1>5, <2>1, NetOfUnion
<1>8. Net(total.trades) \in Int /\ Net(trades) \in Int
  BY <1>4, <1>5, NetType
<1>9. PaidFor(p) \in Int
  <2>1. /\ p = [s \in DOMAIN p |-> p[s]] /\ DOMAIN p \subseteq Symbols
        /\ \A s \in DOMAIN p : p[s] \in Position
    BY <1>2 DEF GoodBook, GoodPosition, Held
  <2>2. IsFiniteSet(DOMAIN p)
    BY <2>1, SymbolsAreFinite
  <2> QED
    BY <2>1, <2>2, PaidForType
<1>10. total.capital = b.capital + PaidFor(p) - Net(trades)
  BY <1>1, <1>2 DEF Balance
<1>11. InitialCapital \in Int
  BY WalkForwardAssumption DEF WalkForwardAssumption
<1>12. total'.capital + total'.vanished = InitialCapital + Net(total'.trades)
  <2>1. PICK a, n, m, v : /\ a = PaidFor(p) /\ n = Net(total.trades) /\ m = Net(trades)
                          /\ v = total.vanished
    OBVIOUS
  <2>2. Net(total'.trades) = n + m
    BY <1>3, <1>7, <2>1
  <2>3. total'.capital + total'.vanished = b.capital + (v + a)
    BY <1>3, <2>1
  <2>4. (b.capital + a - m) + v = InitialCapital + n
    BY <1>5, <1>10, <2>1
  <2>5. a \in Int /\ n \in Int /\ m \in Int /\ v \in Int /\ b.capital \in Int
    BY <1>4, <1>5, <1>8, <1>9, <2>1
  <2>6. b.capital + (v + a) = InitialCapital + (n + m)
    BY <1>11, <2>4, <2>5
  <2> QED
    BY <2>2, <2>3, <2>6
<1>13. IsFiniteSet(total'.trades) /\ total'.trades \subseteq Trade
  <2>1. IsFiniteSet(total.trades \cup trades)
    BY <1>4, <1>5, FS_Union
  <2> QED
    BY <1>3, <1>4, <1>5, <2>1
<1>14. Apart(total'.trades)
  BY <1>3, <1>4, <1>5, <1>6 DEF Apart
<1>15. TotalsInv'
  BY <1>3, <1>4, <1>5, <1>9, <1>12, <1>13, <1>14 DEF TotalsInv
<1>16. ASSUME NEW t \in total'.trades PROVE t.exit <= next
  <2>1. t \in Trade /\ t.exit \in Nat
    BY <1>13 DEF Trade
  <2>2. t.exit <= start \/ t.exit <= day
    BY <1>3, <1>4
  <2> QED
    BY <2>1, <2>2
<1> QED
  BY <1>15, <1>16

\* The end of a window.
LEMMA FinishWindowStays ==
    ASSUME WFInv, FinishWindow
    PROVE  WFInv'
<1>1. stage = "session" /\ NextWindow /\ UNCHANGED bars
  BY DEF FinishWindow
<1>2. PICK start, day : start = Opens(window) /\ day = session
  OBVIOUS
<1>3. /\ window \in 1 .. Len(Windows) /\ Len(Windows) \in Nat /\ day \in Nat
      /\ GoodBook(book, start, day) /\ Balance(book) = total.capital
      /\ Held(book) \subseteq DOMAIN bars /\ BarsTyped /\ TotalsInv
      /\ \A t \in total.trades : t.exit <= start
  BY <1>1, <1>2, WindowsInOrder DEF WFInv, WindowInv
<1>4. PICK later : later = Opens(window + 1)
  OBVIOUS
<1>5. start \in Nat /\ later \in Nat /\ start <= later
  <2>1. window \in Nat \ {0}
    BY <1>3
  <2> QED
    BY <1>2, <1>4, <2>1, OpensIsNat
<1>6. day <= later
  <2>1. CASE SessionsOf(window) = {}
    <3>1. day = 0
      BY <1>1, <1>2, <2>1 DEF WFInv, WindowInv
    <3> QED
      BY <1>5, <3>1
  <2>2. CASE SessionsOf(window) # {}
    <3>1. day \in SessionsOf(window)
      BY <1>1, <1>2, <2>2 DEF WFInv, WindowInv
    <3> QED
      BY <1>3, <1>4, <3>1, SessionsOfWindow
  <2> QED
    BY <2>1, <2>2
<1>7. PICK days : days = SessionsOf(window)
  OBVIOUS
<1>8. PICK b : b = IF days # {} /\ HasPrices(day) THEN AfterStops(book, day) ELSE book
  OBVIOUS
<1>9. GoodBook(b, start, day) /\ Balance(b) = total.capital /\ Held(b) \subseteq DOMAIN bars
  <2>1. CASE b = book
    BY <1>3, <2>1
  <2>2. CASE b = AfterStops(book, day)
    <3>1. GoodBook(b, start, day) /\ Balance(b) = Balance(book) /\ Held(b) \subseteq Held(book)
      BY <1>3, <1>5, <2>2, StopsKeepTheBook
    <3> QED
      BY <1>3, <3>1
  <2> QED
    BY <1>8, <2>1, <2>2
<1>10. PICK c : c = IF days # {} THEN CloseOut(b, day) ELSE b
  OBVIOUS
<1>11. GoodBook(c, start, day) /\ Balance(c) = total.capital
  <2>1. CASE c = b
    BY <1>9, <2>1
  <2>2. CASE c = CloseOut(b, day)
    <3>1. GoodBook(c, start, day) /\ Balance(c) = Balance(b)
      BY <1>3, <1>5, <1>9, <2>2, CloseOutKeepsTheBook
    <3> QED
      BY <1>9, <3>1
  <2> QED
    BY <1>10, <2>1, <2>2
<1>12. PICK marked : marked = {d \in days : HasPrices(d)}
  OBVIOUS
<1>13. total' = Merged(c, marked)
  BY <1>2, <1>7, <1>8, <1>10, <1>12 DEF FinishWindow
<1>14. TotalsInv' /\ \A t \in total'.trades : t.exit <= later
  <2>1. stage # "idle"
    BY <1>1
  <2> QED
    BY <1>3, <1>5, <1>6, <1>11, <1>13, <2>1, MergingStays
<1> QED
  BY <1>1, <1>4, <1>14, NextWindowStays

\* Every step of the run keeps the invariant.
LEMMA SimulationStays ==
    ASSUME WFInv, WFStep
    PROVE  WFInv'
<1>1. CASE Fit
  BY <1>1, FitStays
<1>2. CASE FitFails
  BY <1>2, LostWindowStays DEF FitFails
<1>3. CASE \E targets \in Decisions : TradeSession(targets)
  BY <1>3, TradeSessionStays
<1>4. CASE SkipSession
  BY <1>4, SkipSessionStays
<1>5. CASE FailWindow
  BY <1>5, LostWindowStays DEF FailWindow
<1>6. CASE FinishWindow
  BY <1>6, FinishWindowStays
<1> QED
  BY <1>1, <1>2, <1>3, <1>4, <1>5, <1>6 DEF WFStep

\* A run starts with no trades.
LEMMA EmptyTotals ==
    ASSUME NEW capital \in Int
    PROVE  /\ Net({}) = 0 /\ IsFiniteSet({}) /\ Apart({})
           /\ FreshBook(0).trades = {}
BY NetOfNothing, FS_EmptySet DEF Apart, FreshBook

\* A run starts on usable frames.
LEMMA BeginRunStays ==
    ASSUME NEW usable, DOMAIN usable \subseteq Symbols,
           \A s \in DOMAIN usable : IsFrame(usable[s]), BeginRun(usable)
    PROVE  WFInv'
<1>1. /\ bars' = usable /\ window' = 1 /\ book' = FreshBook(0)
      /\ stage' = IF DOMAIN usable = {} \/ Windows = <<>> THEN "done" ELSE "fit"
      /\ total' = [capital |-> InitialCapital, trades |-> {}, marked |-> {}, vanished |-> 0]
  BY DEF BeginRun
<1>2. InitialCapital \in Nat
  BY WalkForwardAssumption DEF WalkForwardAssumption
<1>3. Net({}) = 0 /\ IsFiniteSet({}) /\ Apart({}) /\ book'.trades = {}
  BY <1>1, <1>2, EmptyTotals
<1>4. TotalsInv'
  <2>1. /\ total'.capital = InitialCapital /\ total'.vanished = 0 /\ total'.trades = {}
    BY <1>1
  <2>2. total'.capital + total'.vanished = InitialCapital + Net(total'.trades)
    BY <1>2, <1>3, <2>1
  <2> QED
    BY <1>2, <1>3, <2>1, <2>2 DEF TotalsInv
<1>5. BarsTyped'
  BY <1>1 DEF BarsTyped
<1>6. Windows # <<>> => 1 \in 1 .. Len(Windows)
  <2>1. Len(Windows) \in Nat /\ (Windows # <<>> => Len(Windows) # 0)
    BY WindowsInOrder
  <2> QED
    BY <2>1
<1>7. WindowInv'
  BY <1>1, <1>3, <1>6 DEF WindowInv
<1> QED
  BY <1>4, <1>5, <1>7 DEF WFInv

\* A run that is over leaves nothing.
LEMMA EndRunStays ==
    ASSUME EndRun \/ WFInit'
    PROVE  WFInv'
<1>1. /\ bars' = NoPositions /\ stage' = "idle" /\ book' = FreshBook(0)
      /\ total' = [capital |-> 0, trades |-> {}, marked |-> {}, vanished |-> 0]
  BY DEF EndRun, WFInit
<1>2. DOMAIN bars' = {}
  BY <1>1 DEF NoPositions
<1>3. Net({}) = 0 /\ IsFiniteSet({}) /\ Apart({}) /\ book'.trades = {}
  BY <1>1, EmptyTotals
<1>4. TotalsInv'
  BY <1>1, <1>3 DEF TotalsInv
<1> QED
  BY <1>1, <1>2, <1>3, <1>4 DEF WFInv, BarsTyped, WindowInv

-----------------------------------------------------------------------------
(* The fetches, the script and the theorems about the simulation.          *)

\* The invariant of the backtest and of the cache it reads.
SimulationInv == WFInv /\ CacheTyped

\* The initial states satisfy it.
LEMMA SimulationInvInit == Init => SimulationInv
<1> SUFFICES ASSUME Init PROVE SimulationInv
  OBVIOUS
<1>1. /\ bars = NoPositions /\ stage = "idle" /\ book = FreshBook(0)
      /\ total = [capital |-> 0, trades |-> {}, marked |-> {}, vanished |-> 0]
      /\ cache = [s \in Symbols |-> NoFrame]
  BY DEF Init, WFInit
<1>2. DOMAIN bars = {}
  BY <1>1 DEF NoPositions
<1>3. Net({}) = 0 /\ IsFiniteSet({}) /\ Apart({}) /\ book.trades = {}
  BY <1>1, EmptyTotals
<1>4. TotalsInv
  BY <1>1, <1>3 DEF TotalsInv
<1>5. BarsTyped /\ WindowInv
  BY <1>1, <1>2, <1>3 DEF BarsTyped, WindowInv
<1>6. IsFrame(NoFrame)
  BY DEF NoFrame, IsFrame
<1>7. CacheTyped
  BY <1>1, <1>6 DEF CacheTyped
<1> QED
  BY <1>4, <1>5, <1>7 DEF SimulationInv, WFInv

\* What a step does to the bars and to the simulation.
LEMMA SimulationSteps ==
    ASSUME [Next]_vars
    PROVE  \/ UNCHANGED <<wfVars, cache>>
           \/ \E s \in Symbols, range \in Ranges, outcome \in Outcomes :
                FetchBars(s, range, outcome)
           \/ \E outcomes \in [Symbols -> Outcomes] : RunScript(outcomes)
           \/ WFStep /\ UNCHANGED cache
           \/ EndRun /\ cache' = [s \in Symbols |-> NoFrame]
<1>1. CASE UNCHANGED vars
  BY <1>1 DEF vars, scriptVars
<1>2. CASE \E s \in Symbols, range \in Ranges, outcome \in Outcomes :
             FetchBars(s, range, outcome)
  BY <1>2
<1>3. CASE \E outcomes \in [Symbols -> Outcomes] : RunScript(outcomes)
  BY <1>3
<1>4. CASE Simulate
  BY <1>4 DEF Simulate, scriptVars
<1>5. CASE FinishSimulation
  BY <1>5 DEF FinishSimulation
<1>6. CASE SaveTrackRecord \/ DiscardResult
  BY <1>6 DEF SaveTrackRecord, DiscardResult
<1>7. CASE \E mode \in {"paper", "live"} : StartEngine(mode)
  BY <1>7 DEF StartEngine, scriptVars
<1>8. CASE BeginCycle \/ ExitsDone \/ EndCycle \/ StopEngine \/ NextDay
  BY <1>8 DEF BeginCycle, ExitsDone, EndCycle, StopEngine, NextDay, scriptVars
<1>9. CASE \E s \in Symbols, cause \in {"compliance_exit", "max_hold"} :
             ExitPosition(s, cause)
  BY <1>9 DEF ExitPosition, scriptVars
<1>10. CASE \E s \in Symbols, model \in ModelProbabilities : EnterPosition(s, model)
  BY <1>10 DEF EnterPosition, scriptVars
<1> QED
  BY <1>1, <1>2, <1>3, <1>4, <1>5, <1>6, <1>7, <1>8, <1>9, <1>10 DEF Next

\* The script fetches and begins a run.
LEMMA RunScriptStays ==
    ASSUME CacheTyped, NEW outcomes \in [Symbols -> Outcomes], RunScript(outcomes)
    PROVE  SimulationInv'
<1>1. PICK result : result = [s \in Symbols |-> GetBars(cache[s], s, Start, End, 0, TRUE,
                                                        outcomes[s], FALSE, today)]
  OBVIOUS
<1>2. ASSUME NEW s \in Symbols
      PROVE  IsFrame(result[s].cache) /\ IsFrame(result[s].window)
  <2>1. PICK answer : answer = GetBars(cache[s], s, Start, End, 0, TRUE,
                                       outcomes[s], FALSE, today)
    OBVIOUS
  <2>2. IsFrame(cache[s])
    BY DEF CacheTyped
  <2>3. IsFrame(answer.cache) /\ IsFrame(answer.window)
    BY <2>1, <2>2, BarsAreFrames
  <2> QED
    BY <1>1, <2>1, <2>3
<1>3. PICK usable : usable = {s \in Symbols : ~IsEmpty(result[s].window)}
  OBVIOUS
<1>4. PICK frames : frames = [s \in usable |-> result[s].window]
  OBVIOUS
<1>5. BeginRun(frames) /\ cache' = [s \in Symbols |-> result[s].cache]
  BY <1>1, <1>3, <1>4 DEF RunScript
<1>6. DOMAIN frames \subseteq Symbols /\ \A s \in DOMAIN frames : IsFrame(frames[s])
  BY <1>2, <1>3, <1>4
<1>7. WFInv'
  BY <1>5, <1>6, BeginRunStays
<1>8. CacheTyped'
  BY <1>2, <1>5 DEF CacheTyped
<1> QED
  BY <1>7, <1>8 DEF SimulationInv

\* A fetch changes the cache only.
LEMMA FetchBarsStays ==
    ASSUME SimulationInv, NEW s \in Symbols, NEW range, NEW outcome,
           FetchBars(s, range, outcome)
    PROVE  SimulationInv'
<1>1. PICK fresh : cache' = [cache EXCEPT ![s] = GetBars(cache[s], s, range[1], range[2], 0,
                                              TRUE, outcome, fresh, today).cache]
  BY DEF FetchBars
<1>2. PICK frame : frame = GetBars(cache[s], s, range[1], range[2], 0,
                                   TRUE, outcome, fresh, today).cache
  OBVIOUS
<1>3. DOMAIN cache = Symbols /\ \A u \in Symbols : IsFrame(cache[u])
  BY DEF SimulationInv, CacheTyped
<1>4. IsFrame(frame)
  BY <1>2, <1>3, BarsAreFrames
<1>5. /\ DOMAIN cache' = Symbols
      /\ \A u \in Symbols : cache'[u] = frame \/ cache'[u] = cache[u]
  BY <1>1, <1>2, <1>3
<1>6. CacheTyped'
  BY <1>3, <1>4, <1>5 DEF CacheTyped
<1>7. UNCHANGED wfVars
  BY DEF FetchBars
<1>8. WFInv'
  BY <1>7 DEF SimulationInv, WFInv, BarsTyped, TotalsInv, WindowInv, wfVars,
              SessionsOf, Opens
<1> QED
  BY <1>6, <1>8 DEF SimulationInv

\* Every step of the pipeline keeps it.
LEMMA SimulationInvStep == SimulationInv /\ [Next]_vars => SimulationInv'
<1> SUFFICES ASSUME SimulationInv, [Next]_vars PROVE SimulationInv'
  OBVIOUS
<1>1. CASE UNCHANGED <<wfVars, cache>>
  BY <1>1 DEF SimulationInv, CacheTyped, WFInv, BarsTyped, TotalsInv, WindowInv, wfVars,
              SessionsOf, Opens
<1>2. CASE \E s \in Symbols, range \in Ranges, outcome \in Outcomes :
             FetchBars(s, range, outcome)
  BY <1>2, FetchBarsStays
<1>3. CASE \E outcomes \in [Symbols -> Outcomes] : RunScript(outcomes)
  BY <1>3, RunScriptStays DEF SimulationInv
<1>4. CASE WFStep /\ UNCHANGED cache
  BY <1>4, SimulationStays DEF SimulationInv, CacheTyped
<1>5. CASE EndRun /\ cache' = [s \in Symbols |-> NoFrame]
  <2>1. WFInv'
    BY <1>5, EndRunStays
  <2>2. IsFrame(NoFrame)
    BY DEF NoFrame, IsFrame
  <2> QED
    BY <1>5, <2>1, <2>2 DEF SimulationInv, CacheTyped
<1> QED
  BY <1>1, <1>2, <1>3, <1>4, <1>5, SimulationSteps

\* The invariant holds in every reachable state.
LEMMA SimulationInvariant == Spec => []SimulationInv
BY SimulationInvInit, SimulationInvStep, PTL DEF Spec

\* No simulated trade is entered on or before the day of its decision, none is closed
\* on a signal or a stop before the minimum hold, and no two trades of a symbol
\* overlap, in one window or in two.
THEOREM SimulatedTradesAreHonest == Spec => []TradesAreHonest
<1>1. ASSUME SimulationInv PROVE TradesAreHonest
  <2>1. TotalsInv /\ WindowInv
    BY <1>1 DEF SimulationInv, WFInv
  <2>2. CASE stage # "session"
    <3>1. book.trades = {}
      BY <2>1, <2>2 DEF WindowInv
    <3> QED
      BY <2>1, <3>1 DEF TradesAreHonest, TotalsInv, Honest, Apart
  <2>3. CASE stage = "session"
    <3>1. PICK start, day : start = Opens(window) /\ day = session
      OBVIOUS
    <3>2. /\ start \in Nat /\ day \in Nat /\ GoodBook(book, start, day)
          /\ \A t \in total.trades : t.exit <= start
      BY <2>1, <2>3, <3>1, WindowsInOrder, OpensIsNat DEF WindowInv
    <3>3. \A t \in total.trades, u \in book.trades : ~Overlap(t, u) /\ ~Overlap(u, t)
      BY <2>1, <3>2, WindowTradesAreNew
    <3>4. /\ \A t \in total.trades \cup book.trades : Honest(t)
          /\ Apart(total.trades) /\ Apart(book.trades)
      BY <2>1, <3>2 DEF TotalsInv, GoodBook
    <3>5. Apart(total.trades \cup book.trades)
      BY <3>3, <3>4 DEF Apart
    <3> QED
      BY <3>4, <3>5 DEF TradesAreHonest, Honest, Apart
  <2> QED
    BY <2>2, <2>3
<1> QED
  BY <1>1, SimulationInvariant, PTL

\* The capital of a run, with what given-up windows took with them, is the initial
\* capital and what the kept trades earned; within a window the book accounts for the
\* positions it holds.
THEOREM SimulationConservesMoney == Spec => []BooksBalance
<1>1. ASSUME SimulationInv PROVE BooksBalance
  <2>1. TotalsInv /\ WindowInv
    BY <1>1 DEF SimulationInv, WFInv
  <2>2. ASSUME stage \in {"fit", "session", "done"}
        PROVE  /\ total.capital + total.vanished = InitialCapital + Net(total.trades)
               /\ total.capital >= 0
    BY <2>1, <2>2 DEF TotalsInv
  <2>3. ASSUME stage = "session"
        PROVE  /\ book.capital + PaidFor(book.positions) = total.capital + Net(book.trades)
               /\ book.capital >= 0
    <3>1. PICK start, day : GoodBook(book, start, day)
      BY <2>1, <2>3 DEF WindowInv
    <3>2. PICK a, n, c, p : /\ a = PaidFor(book.positions) /\ n = Net(book.trades)
                            /\ c = book.capital /\ p = book.positions
      OBVIOUS
    <3>3. /\ p = [s \in DOMAIN p |-> p[s]] /\ DOMAIN p \subseteq Symbols
          /\ \A s \in DOMAIN p : p[s] \in Position
          /\ IsFiniteSet(book.trades) /\ book.trades \subseteq Trade
          /\ c \in Int /\ c >= 0
      BY <3>1, <3>2 DEF GoodBook, GoodPosition, Held
    <3>4. a \in Int
      <4>1. IsFiniteSet(DOMAIN p)
        BY <3>3, SymbolsAreFinite
      <4> QED
        BY <3>2, <3>3, <4>1, PaidForType
    <3>5. n \in Int
      BY <3>2, <3>3, NetType
    <3>6. c + a - n = total.capital
      BY <2>1, <2>3, <3>2 DEF WindowInv, Balance
    <3>7. c + a = total.capital + n
      BY <3>3, <3>4, <3>5, <3>6
    <3> QED
      BY <3>2, <3>3, <3>7
  <2> QED
    BY <2>2, <2>3 DEF BooksBalance
<1> QED
  BY <1>1, SimulationInvariant, PTL
=============================================================================
