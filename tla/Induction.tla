------------------------------ MODULE Induction ------------------------------
(***************************************************************************)
(* Induction over the naturals, and functions defined by recursion over an *)
(* interval of them, stated with sets and functions in place of operators. *)
(* Both follow from the fact that the naturals are well-founded.           *)
(***************************************************************************)
EXTENDS Integers, Sequences, WellFoundedInduction, TLAPS

Less == {p \in Nat \X Nat : p[1] < p[2]}

\* There is no infinite descent in the naturals.
LEMMA LessIsWellFounded == IsWellFoundedOn(Less, Nat)
<1>1. OpToRel(<, Nat) = Less
  BY Zenon DEF OpToRel, Less
<1> QED
  BY <1>1, NatLessThanWellFounded, Zenon

\* A set of naturals that is not empty has a least element.
LEMMA LeastElement ==
  ASSUME NEW S, S \subseteq Nat, S # {}
  PROVE  \E x \in S : \A y \in S : x <= y
<1>1. PICK x \in S : \A y \in S : <<y, x>> \notin Less
  BY LessIsWellFounded, WFMin
<1>2. ASSUME NEW y \in S, ~(x <= y) PROVE FALSE
  <2>1. <<y, x>> \in Less
    BY <1>2 DEF Less
  <2> QED
    BY <1>1, <2>1
<1> QED
  BY <1>2

\* One that is bounded has a greatest element.
LEMMA Greatest ==
  ASSUME NEW n \in Nat, NEW S, S \subseteq 0..n, S # {}
  PROVE  \E x \in S : \A y \in S : x >= y
<1> DEFINE Mirror == {k \in 0..n : n - k \in S}
<1>1. Mirror # {} /\ Mirror \subseteq Nat
  <2>1. PICK x \in S : TRUE
    OBVIOUS
  <2>2. n - x \in 0..n /\ n - (n - x) = x
    OBVIOUS
  <2>3. n - x \in Mirror
    BY <2>2
  <2>4. Mirror \subseteq Nat
    OBVIOUS
  <2> HIDE DEF Mirror
  <2> QED
    BY <2>3, <2>4
<1>2. PICK k \in Mirror : \A j \in Mirror : k <= j
  <2> HIDE DEF Mirror
  <2> QED
    BY <1>1, LeastElement
<1>3. ASSUME NEW y \in S PROVE n - k >= y
  <2>1. n - y \in Mirror
    <3>1. n - y \in 0..n /\ n - (n - y) = y
      OBVIOUS
    <3> QED
      BY <3>1
  <2> QED
    BY <1>2, <2>1
<1> QED
  BY <1>2, <1>3

\* Induction: a set that has 0, and the successor of each of its members below n,
\* has all numbers up to n.
LEMMA InductionUpTo ==
  ASSUME NEW n \in Nat, NEW S, 0 \in S, \A k \in 0..(n - 1) : k \in S => k + 1 \in S
  PROVE  0..n \subseteq S
<1> DEFINE Bad == (0..n) \ S
<1>1. SUFFICES ASSUME Bad # {} PROVE FALSE
  OBVIOUS
<1>2. PICK x \in Bad : \A y \in Bad : x <= y
  <2>1. Bad \subseteq Nat
    OBVIOUS
  <2> HIDE DEF Bad
  <2> QED
    BY <1>1, <2>1, LeastElement
<1>3. x \in 1..n /\ x - 1 \in 0..(n - 1)
  OBVIOUS
<1>4. x - 1 \in S
  BY <1>2, <1>3
<1>5. x - 1 + 1 \in S
  BY <1>3, <1>4
<1> QED
  BY <1>3, <1>5

\* The same, from the one before.
LEMMA InductionTo ==
  ASSUME NEW n \in Nat, NEW S, 0 \in S, \A k \in 1..n : k - 1 \in S => k \in S
  PROVE  \A k \in 0..n : k \in S
<1>1. ASSUME NEW k \in 0..(n - 1), k \in S PROVE k + 1 \in S
  <2>1. k + 1 \in 1..n /\ k + 1 - 1 = k
    OBVIOUS
  <2> QED
    BY <1>1, <2>1
<1>2. 0..n \subseteq S
  BY <1>1, InductionUpTo
<1> QED
  BY <1>2

\* f has the value c at 0, and step[<<v, i>>] at i if v is its value at i - 1.
Recursion(f, c, step, n) == f[0] = c /\ \A i \in 1..n : f[i] = step[<<f[i - 1], i>>]

\* Such a function exists.
LEMMA RecursionExists ==
  ASSUME NEW V, NEW n \in Nat, NEW c \in V, NEW step \in [V \X (1..n) -> V]
  PROVE  \E f \in [0..n -> V] : Recursion(f, c, step, n)
<1> DEFINE S == {k \in 0..n : \E g \in [0..n -> V] : Recursion(g, c, step, k)}
<1>1. 0 \in S
  <2> DEFINE g == [i \in 0..n |-> c]
  <2>1. g \in [0..n -> V] /\ Recursion(g, c, step, 0)
    BY DEF Recursion
  <2> HIDE DEF g
  <2> QED
    BY <2>1
<1>2. ASSUME NEW k \in 0..(n - 1), k \in S PROVE k + 1 \in S
  <2>1. PICK g \in [0..n -> V] : Recursion(g, c, step, k)
    BY <1>2
  <2>2. step[<<g[k], k + 1>>] \in V
    OBVIOUS
  <2> DEFINE h == [g EXCEPT ![k + 1] = step[<<g[k], k + 1>>]]
  <2>3. h \in [0..n -> V]
    BY <2>2
  <2>4. h[0] = c
    BY <2>1 DEF Recursion
  <2>5. ASSUME NEW i \in 1..(k + 1) PROVE h[i] = step[<<h[i - 1], i>>]
    <3>1. h[i - 1] = g[i - 1]
      OBVIOUS
    <3>2. CASE i = k + 1
      <4>1. h[i] = step[<<g[k], k + 1>>]
        BY <3>2
      <4>2. i - 1 = k
        BY <3>2
      <4> QED
        BY <3>1, <3>2, <4>1, <4>2
    <3>3. CASE i \in 1..k
      <4>1. h[i] = g[i]
        BY <3>3
      <4> QED
        BY <2>1, <3>1, <3>3, <4>1 DEF Recursion
    <3> QED
      BY <3>2, <3>3
  <2> HIDE DEF h
  <2> QED
    BY <2>3, <2>4, <2>5 DEF Recursion
<1> HIDE DEF S
<1>3. 0..n \subseteq S
  BY <1>1, <1>2, InductionUpTo
<1>4. n \in S
  BY <1>3
<1> QED
  BY <1>4 DEF S

\* All values of a function are in a set if each is that comes after one that is.
LEMMA RecursionType ==
  ASSUME NEW V, NEW n \in Nat, NEW f, f[0] \in V, \A k \in 1..n : f[k - 1] \in V => f[k] \in V
  PROVE  \A k \in 0..n : f[k] \in V
<1> DEFINE Typed == {k \in 0..n : f[k] \in V}
<1>1. 0 \in Typed
  OBVIOUS
<1>2. ASSUME NEW k \in 0..(n - 1), k \in Typed PROVE k + 1 \in Typed
  <2>1. k + 1 \in 1..n /\ k + 1 - 1 = k
    OBVIOUS
  <2> QED
    BY <1>2, <2>1
<1> HIDE DEF Typed
<1>3. 0..n \subseteq Typed
  BY <1>1, <1>2, InductionUpTo
<1> QED
  BY <1>3 DEF Typed

\* The elements of T have parts, which nest at most n deep: the elements of
\* levels[i] have their parts in levels[i - 1].
Nest(T, parts, levels, n) ==
  /\ levels[0] = {} /\ levels[n] = T
  /\ \A i \in 1..n : \A t \in levels[i] : t \in T /\ parts[t] \subseteq levels[i - 1]

\* G is a set of functions on T, of which F makes others: their value at an
\* element comes from the values of the first at its parts.
Computes(F, G, T, parts) ==
  /\ F \in [G -> G] /\ G # {}
  /\ \A g, h \in G : (\A t \in T : g[t] = h[t]) => g = h
  /\ \A g, h \in G, t \in T : (\A p \in parts[t] : g[p] = h[p]) => F[g][t] = F[h][t]

\* A function defined by recursion over the parts exists.
LEMMA FixpointExists ==
  ASSUME NEW T, NEW G, NEW n \in Nat, NEW parts, NEW levels, NEW F,
         Nest(T, parts, levels, n), Computes(F, G, T, parts)
  PROVE  \E f \in G : f = F[f]
<1> DEFINE step == [p \in G \X (1..n) |-> F[p[1]]]
<1>0. /\ F \in [G -> G] /\ levels[0] = {} /\ levels[n] = T
      /\ \A g, h \in G : (\A t \in T : g[t] = h[t]) => g = h
      /\ \A g, h \in G, t \in T : (\A p \in parts[t] : g[p] = h[p]) => F[g][t] = F[h][t]
      /\ \A i \in 1..n : \A t \in levels[i] : t \in T /\ parts[t] \subseteq levels[i - 1]
  BY DEF Nest, Computes
<1>1. PICK c \in G : TRUE
  BY DEF Computes
<1>2. step \in [G \X (1..n) -> G] /\ \A g \in G, i \in 1..n : step[<<g, i>>] = F[g]
  BY <1>0
<1> HIDE DEF step
<1>3. PICK f \in [0..n -> G] : Recursion(f, c, step, n)
  BY <1>2, RecursionExists
<1>4. ASSUME NEW i \in 1..n PROVE f[i] = F[f[i - 1]] /\ f[i - 1] \in G /\ f[i] \in G
  <2>1. i - 1 \in 0..n /\ i \in 0..n
    OBVIOUS
  <2>2. f[i - 1] \in G /\ f[i] \in G
    BY <2>1
  <2>3. f[i] = step[<<f[i - 1], i>>]
    BY <1>3 DEF Recursion
  <2> QED
    BY <1>2, <2>2, <2>3
<1> DEFINE S == {i \in 0..n : \A t \in levels[i] : F[f[i]][t] = f[i][t]}
<1>5. 0 \in S
  BY <1>0
<1>6. ASSUME NEW i \in 0..(n - 1), i \in S PROVE i + 1 \in S
  <2>1. i + 1 \in 1..n /\ (i + 1) - 1 = i /\ i + 1 \in 0..n
    OBVIOUS
  <2>2. f[i + 1] = F[f[i]] /\ f[i] \in G /\ f[i + 1] \in G
    BY <2>1, <1>4
  <2>3. ASSUME NEW t \in levels[i + 1] PROVE F[f[i + 1]][t] = f[i + 1][t]
    <3>1. t \in T /\ parts[t] \subseteq levels[i]
      BY <1>0, <2>1
    <3>2. \A p \in parts[t] : f[i + 1][p] = f[i][p]
      BY <2>2, <3>1, <1>6
    <3>3. F[f[i + 1]][t] = F[f[i]][t]
      BY <1>0, <2>2, <3>1, <3>2
    <3> QED
      BY <2>2, <3>3
  <2> QED
    BY <2>1, <2>3
<1>7. n \in S
  <2> HIDE DEF S
  <2>1. 0..n \subseteq S
    BY <1>5, <1>6, InductionUpTo
  <2> QED
    BY <2>1
<1>8. f[n] \in G /\ F[f[n]] \in G
  BY <1>0
<1>9. f[n] = F[f[n]]
  BY <1>0, <1>7, <1>8
<1> QED
  BY <1>8, <1>9
==============================================================================
