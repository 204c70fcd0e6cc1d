---------------------------- MODULE SetInduction ----------------------------
(***************************************************************************)
(* Induction over data.  A theorem that takes the claim as a predicate     *)
(* cannot be applied by the provers at hand; these take the set of the     *)
(* values that satisfy it, which is a value like any other.  With them a   *)
(* recursive function can be shown to exist and to compute what it should: *)
(* here the sum of a function, for the counters of the models.             *)
(***************************************************************************)
EXTENDS Integers, SequencesExt, FiniteSetTheorems, WellFoundedInduction,
        NaturalsInduction, TLAPS

-----------------------------------------------------------------------------
(* Induction.                                                              *)

\* A set of naturals that is not empty has a least element.
LEMMA LeastNatural ==
    ASSUME NEW T, T \subseteq Nat, T # {}
    PROVE  \E x \in T : \A y \in T : x <= y
<1>1. \E x \in T : \A y \in T : ~ (<<y, x>> \in OpToRel(<, Nat))
  BY WFMin, NatLessThanWellFounded, Zenon
<1>2. \E x \in T : \A y \in T : ~ (y < x)
  BY <1>1, Zenon DEF OpToRel
<1> QED
  BY <1>2

\* A set of naturals that has 0, and n + 1 with n, has them all.
LEMMA AllNaturals ==
    ASSUME NEW Q, 0 \in Q, \A n \in Nat : n \in Q => n + 1 \in Q
    PROVE  Nat \subseteq Q
<1> SUFFICES ASSUME NEW k \in Nat, k \notin Q PROVE FALSE
  OBVIOUS
<1> DEFINE bad == {n \in Nat : n \notin Q}
<1>1. bad \subseteq Nat /\ bad # {}
  OBVIOUS
<1>2. PICK x \in bad : \A y \in bad : x <= y
  BY <1>1, LeastNatural, Zenon
<1>3. x \in Nat /\ x # 0 /\ x - 1 \in Nat /\ x - 1 \notin bad /\ (x - 1) + 1 = x
  BY <1>2
<1> QED BY <1>2, <1>3

\* A set of subsets of S that has {}, and s with s \ {Chosen(s)}, has them all.
Chosen(s) == CHOOSE x \in s : TRUE

LEMMA AllSubsets ==
    ASSUME NEW S, IsFiniteSet(S), NEW Q, {} \in Q,
           \A s \in SUBSET S : s # {} /\ s \ {Chosen(s)} \in Q => s \in Q
    PROVE  SUBSET S \subseteq Q
<1> DEFINE sizes == {n \in Nat : \A s \in SUBSET S : Cardinality(s) = n => s \in Q}
<1>1. \A s \in SUBSET S : IsFiniteSet(s) /\ Cardinality(s) \in Nat
  BY FS_Subset, FS_CardinalityType
<1>2. 0 \in sizes
  <2>1. \A s \in SUBSET S : Cardinality(s) = 0 => s = {}
    BY <1>1, FS_EmptySet
  <2> QED BY <2>1
<1>3. ASSUME NEW n \in Nat, n \in sizes PROVE n + 1 \in sizes
  <2> SUFFICES ASSUME NEW s \in SUBSET S, Cardinality(s) = n + 1 PROVE s \in Q
    OBVIOUS
  <2>1. s # {} /\ Chosen(s) \in s
    <3>1. s # {}
      BY <1>1, FS_EmptySet
    <3> QED BY <3>1, Zenon DEF Chosen
  <2>2. s \ {Chosen(s)} \in SUBSET S /\ Cardinality(s \ {Chosen(s)}) = n
    BY <1>1, <2>1, FS_RemoveElement
  <2> QED BY <1>3, <2>1, <2>2
<1> HIDE DEF sizes
<1>4. Nat \subseteq sizes
  BY <1>2, <1>3, AllNaturals
<1> QED BY <1>1, <1>4 DEF sizes

-----------------------------------------------------------------------------
(* Recursion.                                                              *)

\* The recursion that takes base[x] where it stops, and elsewhere applies
\* step[x] to what it has for next[x]: g is the function it defines when g is
\* Recursion(S, stop, next, base, step, g).
Recursion(S, stop, next, base, step, g) ==
    [x \in S |-> IF x \in stop THEN base[x] ELSE step[x][g[next[x]]]]

\* Each step comes down in rank and stays in V.
Descends(S, V, stop, next, m, rank, base, step) ==
    /\ m \in Nat /\ rank \in [S -> 0..m] /\ base \in [S -> V]
    /\ \A x \in S \ stop : /\ next[x] \in S /\ rank[next[x]] < rank[x]
                          /\ \A v \in V : step[x][v] \in V

\* Then there is such a function.
LEMMA RecursionExists ==
    ASSUME NEW S, NEW V, NEW stop, NEW next, NEW m, NEW rank, NEW base, NEW step,
           Descends(S, V, stop, next, m, rank, base, step)
    PROVE  \E g \in [S -> V] : g = Recursion(S, stop, next, base, step, g)
<1> USE DEF Descends
<1> DEFINE R(g) == Recursion(S, stop, next, base, step, g)
           Upto(n, g) == \A x \in S : rank[x] <= n => g[x] = R(g)[x]
           good == {n \in Nat : \E g \in [S -> V] : Upto(n, g)}
<1>1. ASSUME NEW g \in [S -> V]
      PROVE  /\ R(g) \in [S -> V]
             /\ \A x \in S \cap stop : R(g)[x] = base[x]
             /\ \A x \in S \ stop : R(g)[x] = step[x][g[next[x]]]
  BY DEF Recursion
<1>2. 0 \in good
  <2> DEFINE g == R(base)
  <2>1. g \in [S -> V]
    BY <1>1
  <2>2. ASSUME NEW x \in S, rank[x] <= 0 PROVE x \in stop
    BY <2>2
  <2>3. ASSUME NEW x \in S, rank[x] <= 0 PROVE g[x] = R(g)[x]
    <3>1. g[x] = base[x]
      BY <1>1, <2>2, <2>3
    <3> HIDE DEF g
    <3> QED BY <1>1, <2>1, <2>2, <2>3, <3>1
  <2> HIDE DEF g, R
  <2> QED BY <2>1, <2>3
<1>3. ASSUME NEW n \in Nat, n \in good PROVE n + 1 \in good
  <2>1. PICK g \in [S -> V] : Upto(n, g)
    BY <1>3
  <2> DEFINE h == R(g)
  <2>2. h \in [S -> V]
    BY <1>1
  <2>3. ASSUME NEW x \in S, rank[x] <= n + 1 PROVE h[x] = R(h)[x]
    <3>1. CASE x \in stop
      <4>1. h[x] = base[x]
        BY <1>1, <3>1
      <4> HIDE DEF h
      <4> QED BY <1>1, <2>2, <3>1, <4>1
    <3>2. CASE x \notin stop
      <4>1. next[x] \in S /\ rank[next[x]] <= n
        BY <2>3, <3>2
      <4>2. g[next[x]] = h[next[x]]
        BY <2>1, <4>1
      <4>3. h[x] = step[x][g[next[x]]]
        BY <1>1, <3>2
      <4> HIDE DEF h
      <4>4. R(h)[x] = step[x][h[next[x]]]
        BY <1>1, <2>2, <3>2
      <4> QED BY <4>2, <4>3, <4>4
    <3> QED BY <3>1, <3>2
  <2> HIDE DEF h, R
  <2> QED BY <2>2, <2>3
<1> HIDE DEF good, R
<1>4. m \in good
  BY <1>2, <1>3, AllNaturals
<1>5. PICK g \in [S -> V] : Upto(m, g)
  BY <1>4 DEF good
<1>6. \A x \in S : g[x] = R(g)[x]
  BY <1>5
<1>7. R(g) = [x \in S |-> R(g)[x]]
  BY DEF R, Recursion
<1>8. g = R(g)
  BY <1>6, <1>7
<1> QED BY <1>8 DEF R

-----------------------------------------------------------------------------
(* The sum of a function, as the fold of the community modules defines it. *)

\* The sum of what f assigns to the elements of its domain.
Total(f) == FoldFunction(+, 0, f)

\* The recursion of a sum over S: g is the function it defines when g is
\* Layer(f, S, g).
Layer(f, S, g) ==
    [s \in SUBSET S |-> IF s = {} THEN 0 ELSE f[Chosen(s)] + g[s \ {Chosen(s)}]]

\* There is such a function, and there is one only.
LEMMA LayerExists ==
    ASSUME NEW S, IsFiniteSet(S), NEW f \in [S -> Nat]
    PROVE  \E g \in [SUBSET S -> Nat] : g = Layer(f, S, g)
<1> DEFINE Upto(n, g) == \A s \in SUBSET S : Cardinality(s) <= n => g[s] = Layer(f, S, g)[s]
           good == {n \in Nat : \E g \in [SUBSET S -> Nat] : Upto(n, g)}
<1>1. \A s \in SUBSET S : IsFiniteSet(s) /\ Cardinality(s) \in Nat
                          /\ Cardinality(s) <= Cardinality(S)
  BY FS_Subset, FS_CardinalityType
<1>2. \A s \in SUBSET S : s # {} => Chosen(s) \in s
  BY DEF Chosen
<1>3. 0 \in good
  <2> DEFINE g == [s \in SUBSET S |-> 0]
  <2>1. \A s \in SUBSET S : Cardinality(s) <= 0 => s = {}
    BY <1>1, FS_EmptySet
  <2>2. Upto(0, g) /\ g \in [SUBSET S -> Nat]
    BY <2>1 DEF Layer
  <2> QED BY <2>2, Zenon
<1>4. ASSUME NEW n \in Nat, n \in good PROVE n + 1 \in good
  <2>1. PICK g \in [SUBSET S -> Nat] : Upto(n, g)
    BY <1>4
  <2> DEFINE h == Layer(f, S, g)
  <2>2. h \in [SUBSET S -> Nat]
    BY <1>2 DEF Layer
  <2>3. ASSUME NEW s \in SUBSET S, Cardinality(s) <= n + 1
        PROVE  h[s] = Layer(f, S, h)[s]
    <3>1. CASE s = {}
      BY <3>1 DEF Layer
    <3>2. CASE s # {}
      <4> DEFINE t == s \ {Chosen(s)}
      <4>1. t \in SUBSET S /\ Cardinality(t) <= n
        <5>1. Chosen(s) \in s /\ IsFiniteSet(s) /\ Cardinality(s) \in Nat
          BY <1>1, <1>2, <3>2, Zenon
        <5>2. Cardinality(t) = Cardinality(s) - 1
          BY <5>1, FS_RemoveElement
        <5> QED BY <2>3, <5>1, <5>2
      <4>2. h[t] = g[t]
        BY <2>1, <4>1
      <4>3. h[s] = f[Chosen(s)] + g[t] /\ Layer(f, S, h)[s] = f[Chosen(s)] + h[t]
        BY <3>2 DEF Layer
      <4> QED BY <4>2, <4>3
    <3> QED BY <3>1, <3>2
  <2>4. Upto(n + 1, h)
    BY <2>3
  <2> HIDE DEF h, Upto
  <2>5. n + 1 \in Nat
    OBVIOUS
  <2> QED BY <2>2, <2>4, <2>5, Zenon
<1> HIDE DEF good
<1>5. Cardinality(S) \in good
  <2>1. Nat \subseteq good
    BY <1>3, <1>4, AllNaturals
  <2> QED BY <2>1, FS_CardinalityType
<1>6. PICK g \in [SUBSET S -> Nat] : Upto(Cardinality(S), g)
  BY <1>5 DEF good
<1>7. g = [s \in SUBSET S |-> Layer(f, S, g)[s]]
  BY <1>1, <1>6
<1> QED BY <1>7 DEF Layer

LEMMA LayerUnique ==
    ASSUME NEW S, IsFiniteSet(S), NEW f, NEW g, NEW h,
           g = Layer(f, S, g), h = Layer(f, S, h)
    PROVE  g = h
<1> DEFINE same == {s \in SUBSET S : g[s] = h[s]}
<1>0. \A s \in SUBSET S :
        /\ g[s] = IF s = {} THEN 0 ELSE f[Chosen(s)] + g[s \ {Chosen(s)}]
        /\ h[s] = IF s = {} THEN 0 ELSE f[Chosen(s)] + h[s \ {Chosen(s)}]
  <2>1. \A s \in SUBSET S :
        /\ Layer(f, S, g)[s] = IF s = {} THEN 0 ELSE f[Chosen(s)] + g[s \ {Chosen(s)}]
        /\ Layer(f, S, h)[s] = IF s = {} THEN 0 ELSE f[Chosen(s)] + h[s \ {Chosen(s)}]
     BY Zenon DEF Layer
  <2> QED BY <2>1, Zenon
<1>1. {} \in same
  BY <1>0, Zenon
<1>2. ASSUME NEW s \in SUBSET S, s # {}, s \ {Chosen(s)} \in same PROVE s \in same
  BY <1>0, <1>2, Zenon
<1> HIDE DEF same
<1>3. SUBSET S \subseteq same
  BY <1>1, <1>2, AllSubsets, Zenon
<1>4. \A s \in SUBSET S : g[s] = h[s]
  BY <1>3 DEF same
<1>5. /\ Layer(f, S, g) = [s \in SUBSET S |-> Layer(f, S, g)[s]]
      /\ Layer(f, S, h) = [s \in SUBSET S |-> Layer(f, S, h)[s]]
  BY DEF Layer
<1>6. g = [s \in SUBSET S |-> g[s]] /\ h = [s \in SUBSET S |-> h[s]]
  BY <1>5, Zenon
<1> QED BY <1>4, <1>6

\* The sum of f is what that function says of all of S.
LEMMA TotalIsLayer ==
    ASSUME NEW S, IsFiniteSet(S), NEW f \in [S -> Nat]
    PROVE  \E g \in [SUBSET S -> Nat] :
             g = Layer(f, S, g) /\ Total(f) = g[S]
<1>1. PICK g \in [SUBSET S -> Nat] : g = Layer(f, S, g)
  BY LayerExists
<1> DEFINE c == CHOOSE h : h = Layer(f, S, h)
<1>2. Total(f) = c[S]
  <2>1. DOMAIN f = S
    OBVIOUS
  <2>2. Total(f) = (CHOOSE h : h = Layer(f, DOMAIN f, h))[DOMAIN f]
    BY DEF Total, FoldFunction, FoldFunctionOnSet, MapThenFoldSet, Layer, Chosen
  <2> QED BY <2>1, <2>2
<1>3. c = Layer(f, S, c)
  BY <1>1, Zenon
<1> HIDE DEF c
<1>4. c = g
  BY <1>1, <1>3, LayerUnique, Zenon
<1> QED BY <1>1, <1>2, <1>4

\* A sum of naturals is one.
LEMMA TotalNat ==
    ASSUME NEW S, IsFiniteSet(S), NEW f \in [S -> Nat]
    PROVE  Total(f) \in Nat
<1>1. PICK g \in [SUBSET S -> Nat] : Total(f) = g[S]
  BY TotalIsLayer
<1> QED BY <1>1

\* Nothing sums to nothing, and one more in one place is one more in the sum.
LEMMA TotalOfZeros ==
    ASSUME NEW S, IsFiniteSet(S)
    PROVE  Total([x \in S |-> 0]) = 0
<1> DEFINE f == [x \in S |-> 0]
<1>1. PICK g \in [SUBSET S -> Nat] : g = Layer(f, S, g) /\ Total(f) = g[S]
  <2>1. f \in [S -> Nat]
    OBVIOUS
  <2> HIDE DEF f
  <2> QED BY <2>1, TotalIsLayer
<1> DEFINE Q == {s \in SUBSET S : g[s] = 0}
<1>2. {} \in Q
  BY <1>1 DEF Layer
<1>3. ASSUME NEW s \in SUBSET S, s # {}, s \ {Chosen(s)} \in Q PROVE s \in Q
  <2>1. Chosen(s) \in S
    BY <1>3 DEF Chosen
  <2>2. Layer(f, S, g)[s] = f[Chosen(s)] + g[s \ {Chosen(s)}]
    BY <1>3 DEF Layer
  <2>3. f[Chosen(s)] = 0 /\ g[s \ {Chosen(s)}] = 0
    BY <1>3, <2>1
  <2>4. g[s] = Layer(f, S, g)[s]
    BY <1>1, Zenon
  <2> HIDE DEF f
  <2>5. g[s] = 0
    BY <2>2, <2>3, <2>4
  <2> QED BY <2>5
<1> HIDE DEF Q
<1>4. SUBSET S \subseteq Q
  BY <1>2, <1>3, AllSubsets, Zenon
<1>5. g[S] = 0
  BY <1>4 DEF Q
<1> QED BY <1>1, <1>5

LEMMA TotalOfOneMore ==
    ASSUME NEW S, IsFiniteSet(S), NEW f \in [S -> Nat], NEW j \in S
    PROVE  Total([f EXCEPT ![j] = @ + 1]) = Total(f) + 1
<1> DEFINE e == [f EXCEPT ![j] = @ + 1]
<1>0. e \in [S -> Nat] /\ \A x \in S : e[x] = IF x = j THEN f[x] + 1 ELSE f[x]
  OBVIOUS
<1> HIDE DEF e
<1>1. PICK g \in [SUBSET S -> Nat] : g = Layer(f, S, g) /\ Total(f) = g[S]
  BY TotalIsLayer
<1>2. PICK h \in [SUBSET S -> Nat] : h = Layer(e, S, h) /\ Total(e) = h[S]
  BY <1>0, TotalIsLayer
<1> DEFINE Q == {s \in SUBSET S : h[s] = IF j \in s THEN g[s] + 1 ELSE g[s]}
<1>3. {} \in Q
  <2>1. Layer(f, S, g)[{}] = 0 /\ Layer(e, S, h)[{}] = 0
    BY DEF Layer
  <2>2. g[{}] = 0 /\ h[{}] = 0
    BY <1>1, <1>2, <2>1, Zenon
  <2> QED BY <2>2
<1>4. ASSUME NEW s \in SUBSET S, s # {}, s \ {Chosen(s)} \in Q PROVE s \in Q
  <2> DEFINE a == Chosen(s)
             t == s \ {a}
  <2>1. a \in S /\ a \in s /\ t \in SUBSET S
    BY <1>4 DEF Chosen
  <2>2. Layer(f, S, g)[s] = f[a] + g[t] /\ Layer(e, S, h)[s] = e[a] + h[t]
    BY <1>4 DEF Layer
  <2>3. g[s] = f[a] + g[t] /\ h[s] = e[a] + h[t]
    BY <1>1, <1>2, <2>2, Zenon
  <2>4. h[t] = IF j \in t THEN g[t] + 1 ELSE g[t]
    BY <1>4
  <2>5. f[a] \in Nat /\ g[t] \in Nat /\ e[a] = (IF a = j THEN f[a] + 1 ELSE f[a])
        /\ (j \in t <=> j \in s /\ j # a)
    BY <1>0, <2>1
  <2> HIDE DEF a, t
  <2>6. h[s] = IF j \in s THEN g[s] + 1 ELSE g[s]
    BY <2>1, <2>3, <2>4, <2>5
  <2> QED BY <2>6
<1> HIDE DEF Q
<1>5. SUBSET S \subseteq Q
  BY <1>3, <1>4, AllSubsets, Zenon
<1>6. h[S] = g[S] + 1 /\ g[S] \in Nat
  BY <1>5 DEF Q
<1> QED BY <1>1, <1>2, <1>6 DEF e
=============================================================================
