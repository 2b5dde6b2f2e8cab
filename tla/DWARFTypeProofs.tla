--------------------------- MODULE DWARFTypeProofs ---------------------------
(***************************************************************************)
(* Proofs about the type reader.  First what the references between the    *)
(* DIEs lead to, and what the meaning of a DIE is by its tag; then the     *)
(* stack of calls, from which it follows that every call returns what the  *)
(* DIE means that it was called for.                                       *)
(***************************************************************************)
EXTENDS DWARFType, SequenceTheorems, FiniteSetTheorems, Induction, TLAPS

------------------------------------------------------------------------------
(* The DIEs and the references between them *)

InfoOK == debugInfo \in Seq(DIEs)

IndexOrNone == {0} \cup Indices

\* The first index in a set that is not empty.
LEMMA FirstIndex ==
  ASSUME NEW n \in Nat, NEW S, S \subseteq 1..n, S # {}
  PROVE  \E i \in S : \A j \in 1..(i - 1) : j \notin S
<1>1. S \subseteq Nat
  OBVIOUS
<1>2. PICK i \in S : \A j \in S : i <= j
  BY <1>1, LeastElement
<1>3. i \in 1..n /\ \A j \in 1..(i - 1) : ~(i <= j)
  OBVIOUS
<1> QED
  BY <1>2, <1>3

\* What a DIE is made of.
LEMMA DIEType ==
  ASSUME InfoOK, NEW i \in Indices
  PROVE  /\ debugInfo[i] \in DIEs
         /\ debugInfo[i].childrenOffsets \in Seq(Nat) /\ debugInfo[i].type \in NatOrAbsent
         /\ debugInfo[i].byteSize \in NatOrAbsent /\ debugInfo[i].count \in NatOrAbsent
         /\ debugInfo[i].location \in NatOrAbsent
         /\ i \in Nat \ {0} /\ Len(debugInfo) \in Nat
<1>1. debugInfo[i] \in DIEs
  BY DEF InfoOK, Indices
<1>2. i \in Nat \ {0} /\ Len(debugInfo) \in Nat
  BY DEF InfoOK, Indices
<1> QED
  BY <1>1, <1>2 DEF DIEs

LEMMA DIEAtType == ASSUME InfoOK, NEW offset PROVE DIEAt(offset) \in IndexOrNone
<1> DEFINE S == {i \in Indices : debugInfo[i].offset = offset}
<1>1. CASE S = {}
  BY <1>1 DEF DIEAt, IndexOrNone
<1>2. CASE S # {}
  <2>1. Len(debugInfo) \in Nat /\ S \subseteq 1..Len(debugInfo)
    BY DEF InfoOK, Indices
  <2>2. PICK i \in S : \A j \in 1..(i - 1) : j \notin S
    <3> HIDE DEF S
    <3> QED
      BY <1>2, <2>1, FirstIndex
  <2>3. \A j \in 1..(i - 1) : j \in Indices
    BY <2>1 DEF Indices
  <2>4. /\ i \in Indices /\ debugInfo[i].offset = offset
        /\ \A j \in 1..(i - 1) : debugInfo[j].offset # offset
    BY <2>2, <2>3
  <2> QED
    BY <2>4 DEF DIEAt, IndexOrNone
<1> QED
  BY <1>1, <1>2

LEMMA TypeDieType == ASSUME InfoOK, NEW i PROVE TypeDieOf(i) \in IndexOrNone
  BY DIEAtType DEF TypeDieOf, IndexOrNone

LEMMA VariableTypeType == ASSUME InfoOK PROVE VariableType \in IndexOrNone
  BY TypeDieType DEF VariableType, IndexOrNone

\* The children of a DIE.
LEMMA ChildrenType ==
  ASSUME InfoOK, NEW i \in Indices
  PROVE  /\ ChildrenOf(i) \in Seq(IndexOrNone)
         /\ Len(ChildrenOf(i)) = Len(debugInfo[i].childrenOffsets)
         /\ Len(ChildrenOf(i)) \in Nat
         /\ \A k \in 1..Len(ChildrenOf(i)) : /\ ChildrenOf(i)[k] = DIEAt(debugInfo[i].childrenOffsets[k])
                                             /\ ChildrenOf(i)[k] \in IndexOrNone
<1> DEFINE m == Len(debugInfo[i].childrenOffsets)
<1>1. m \in Nat
  BY DIEType
<1>2. ChildrenOf(i) = [k \in 1..m |-> DIEAt(debugInfo[i].childrenOffsets[k])]
  BY DEF ChildrenOf
<1>3. \A k \in 1..m : DIEAt(debugInfo[i].childrenOffsets[k]) \in IndexOrNone
  BY DIEAtType
<1> HIDE DEF m
<1>4. ChildrenOf(i) \in Seq(IndexOrNone) /\ Len(ChildrenOf(i)) = m
  BY <1>1, <1>2, <1>3
<1> QED
  BY <1>1, <1>2, <1>3, <1>4 DEF m

\* References lead to DIEs.
LEMMA RefsType == ASSUME InfoOK, NEW i PROVE Refs(i) \subseteq Indices
  BY TypeDieType DEF Refs, IndexOrNone

\* What Within says of the DIEs n references away.
LEMMA WithinUnfolds ==
  ASSUME InfoOK, NEW i \in Indices
  PROVE  /\ Len(debugInfo) \in Nat
         /\ Within(i)[0] = {i}
         /\ \A n \in 1..Len(debugInfo) : Within(i)[n] = UNION {Refs(j) : j \in Within(i)[n - 1]}
         /\ \A n \in 0..Len(debugInfo) : Within(i)[n] \subseteq Indices
<1> DEFINE N == Len(debugInfo)
           V == SUBSET Indices
           Further(x) == UNION {Refs(j) : j \in x}
           step == [p \in V \X (1..N) |-> Further(p[1])]
<1>1. N \in Nat
  BY DIEType
<1> HIDE DEF N
<1>2. \A x : Further(x) \in V
  BY RefsType
<1>3. {i} \in V
  OBVIOUS
<1> HIDE DEF V, Further
<1>4. step \in [V \X (1..N) -> V] /\ \A x \in V, n \in 1..N : step[<<x, n>>] = Further(x)
  BY <1>2
<1> HIDE DEF step
<1>5. PICK g \in [0..N -> V] : Recursion(g, {i}, step, N)
  BY <1>1, <1>3, <1>4, RecursionExists
<1>6. g = [n \in 0..N |-> IF n = 0 THEN {i} ELSE Further(g[n - 1])]
  <2>1. ASSUME NEW n \in 1..N PROVE g[n] = Further(g[n - 1])
    <3>1. n - 1 \in 0..N
      BY <1>1
    <3>2. g[n] = step[<<g[n - 1], n>>] /\ g[n - 1] \in V
      BY <3>1, <1>5 DEF Recursion
    <3> QED
      BY <3>2, <1>4
  <2>2. g[0] = {i}
    BY <1>5 DEF Recursion
  <2>3. \A n \in 0..N : n = 0 \/ n \in 1..N
    BY <1>1
  <2> QED
    BY <2>1, <2>2, <2>3
<1>7. Within(i) = CHOOSE h : h = [n \in 0..N |-> IF n = 0 THEN {i} ELSE Further(h[n - 1])]
  BY Zenon DEF Within, N, Further
<1>8. Within(i) = [n \in 0..N |-> IF n = 0 THEN {i} ELSE Further(Within(i)[n - 1])]
  BY <1>6, <1>7, Zenon
<1> DEFINE w == Within(i)
<1>9. w = [n \in 0..N |-> IF n = 0 THEN {i} ELSE Further(w[n - 1])]
  BY <1>8
<1> HIDE DEF w
<1>10. \A n \in 0..N : w[n] = IF n = 0 THEN {i} ELSE Further(w[n - 1])
  BY <1>9, Zenon
<1>11. 0 \in 0..N /\ (\A n \in 1..N : n \in 0..N /\ n # 0) /\ (\A n \in 0..N : n = 0 \/ n \in 1..N)
  BY <1>1
<1>12. w[0] = {i} /\ \A n \in 1..N : w[n] = Further(w[n - 1])
  BY <1>10, <1>11, Zenon
<1>13. \A n \in 0..N : w[n] \in V
  BY <1>2, <1>3, <1>11, <1>12
<1> QED
  BY <1>1, <1>12, <1>13 DEF N, w, V, Further

\* What is reached has all it refers to reached: no path that meets no DIE twice
\* has more references than there are DIEs.
LEMMA ReachedIsClosed ==
  ASSUME InfoOK, NEW i \in Indices
  PROVE  /\ i \in Reachable(i) /\ Reachable(i) \subseteq Indices
         /\ \A j \in Reachable(i) : Refs(j) \subseteq Reachable(i)
<1> DEFINE N == Len(debugInfo)
           w == Within(i)
<1>1. /\ N \in Nat /\ Indices = 1..N
      /\ w[0] = {i}
      /\ \A n \in 1..N : w[n] = UNION {Refs(j) : j \in w[n - 1]}
      /\ \A n \in 0..N : w[n] \subseteq Indices
  BY WithinUnfolds DEF Indices
<1>2. Reachable(i) = UNION {w[n] : n \in 0..N}
  BY Zenon DEF Reachable
<1> HIDE DEF N, w
<1> DEFINE New(n) == {x \in w[n] : \A m \in 0..(n - 1) : x \notin w[m]}
<1>3. ASSUME NEW n \in 0..(N - 1), New(n + 1) # {} PROVE New(n) # {}
  <2>1. PICK x \in New(n + 1) : TRUE
    BY <1>3
  <2>2. n + 1 \in 1..N /\ (n + 1) - 1 = n /\ n \in 0..((n + 1) - 1)
    BY <1>1
  <2>3. PICK y \in w[n] : x \in Refs(y)
    BY <2>1, <2>2, <1>1
  <2>4. ASSUME NEW m \in 0..(n - 1), y \in w[m] PROVE FALSE
    <3>1. m + 1 \in 1..N /\ (m + 1) - 1 = m /\ m + 1 \in 0..((n + 1) - 1)
      BY <1>1
    <3>2. x \in w[m + 1]
      BY <3>1, <2>3, <2>4, <1>1
    <3> QED
      BY <3>1, <3>2, <2>1
  <2> QED
    BY <2>3, <2>4
<1>4. New(N) = {}
  <2> SUFFICES ASSUME New(N) # {} PROVE FALSE
    OBVIOUS
  <2> DEFINE S == {k \in 0..N : New(N - k) # {}}
  <2>1. 0 \in S
    BY <1>1
  <2>2. ASSUME NEW k \in 0..(N - 1), k \in S PROVE k + 1 \in S
    <3> DEFINE n == N - (k + 1)
    <3>1. n \in 0..(N - 1) /\ N - k = n + 1 /\ k + 1 \in 0..N
      BY <1>1
    <3>2. New(n + 1) # {}
      BY <3>1, <2>2
    <3> HIDE DEF New
    <3>3. New(n) # {}
      BY <3>1, <3>2, <1>3
    <3> QED
      BY <3>1, <3>3
  <2> HIDE DEF S
  <2>3. 0..N \subseteq S
    BY <2>1, <2>2, <1>1, InductionUpTo
  <2>4. ASSUME NEW n \in 0..N PROVE New(n) # {}
    <3>1. N - n \in 0..N /\ N - (N - n) = n
      BY <1>1
    <3>2. N - n \in S
      BY <3>1, <2>3
    <3> QED
      BY <3>1, <3>2 DEF S
  <2> DEFINE f == [n \in 0..N |-> CHOOSE x \in New(n) : TRUE]
  <2>5. \A n \in 0..N : f[n] \in New(n)
    <3> HIDE DEF New
    <3> QED
      BY <2>4
  <2>6. f \in [0..N -> Indices]
    <3>1. \A n \in 0..N : New(n) \subseteq Indices
      BY <1>1
    <3> HIDE DEF New
    <3>2. \A n \in 0..N : f[n] \in Indices
      BY <2>5, <3>1
    <3> QED
      BY <3>2
  <2> HIDE DEF f
  <2>7. PICK a, b \in 0..N : a # b /\ f[a] = f[b]
    <3>1. /\ IsFiniteSet(0..N) /\ IsFiniteSet(1..N)
          /\ Cardinality(0..N) = N + 1 /\ Cardinality(1..N) = N
      BY <1>1, FS_Interval
    <3>2. Cardinality(1..N) < Cardinality(0..N)
      BY <1>1, <3>1
    <3> DEFINE A == 0..N
               B == 1..N
    <3>3. f \in [A -> B] /\ IsFiniteSet(A) /\ IsFiniteSet(B) /\ Cardinality(B) < Cardinality(A)
      BY <1>1, <2>6, <3>1, <3>2
    <3> HIDE DEF A, B
    <3>4. \E a, b \in A : a # b /\ f[a] = f[b]
      BY <3>3, FS_PigeonHole
    <3> QED
      BY <3>4 DEF A
  <2>8. f[a] \in w[a] /\ f[b] \in w[b] /\ (\A m \in 0..(a - 1) : f[a] \notin w[m])
        /\ (\A m \in 0..(b - 1) : f[b] \notin w[m])
    BY <2>5
  <2>9. a \in 0..(b - 1) \/ b \in 0..(a - 1)
    BY <2>7, <1>1
  <2> QED
    BY <2>7, <2>8, <2>9
<1>5. ASSUME NEW j \in Reachable(i), NEW t \in Refs(j) PROVE t \in Reachable(i)
  <2>1. \E n \in 0..(N - 1) : j \in w[n]
    <3>1. PICK n \in 0..N : j \in w[n]
      BY <1>2
    <3>2. CASE n = N
      <4>1. PICK m \in 0..(N - 1) : j \in w[m]
        BY <1>4, <3>1, <3>2
      <4> QED
        BY <4>1
    <3>3. CASE n # N
      <4>1. n \in 0..(N - 1)
        BY <3>3, <1>1
      <4> QED
        BY <4>1, <3>1
    <3> QED
      BY <3>2, <3>3
  <2>2. PICK n \in 0..(N - 1) : j \in w[n]
    BY <2>1
  <2>3. n + 1 \in 1..N /\ (n + 1) - 1 = n /\ n + 1 \in 0..N
    BY <1>1
  <2>4. t \in w[n + 1]
    BY <2>2, <2>3, <1>1
  <2> QED
    BY <2>3, <2>4, <1>2
<1>6. 0 \in 0..N /\ i \in w[0]
  BY <1>1
<1> QED
  BY <1>1, <1>2, <1>5, <1>6

\* The other way round: n references from i are n - 1 from what i refers to.
LEMMA WithinShifts ==
  ASSUME InfoOK, NEW i \in Indices
  PROVE  \A n \in 1..Len(debugInfo) : Within(i)[n] = UNION {Within(t)[n - 1] : t \in Refs(i)}
<1> DEFINE N == Len(debugInfo)
           w == Within(i)
           R == Refs(i)
           Shift(n) == UNION {Within(t)[n] : t \in R}
<1>1. /\ N \in Nat
      /\ w[0] = {i}
      /\ \A n \in 1..N : w[n] = UNION {Refs(j) : j \in w[n - 1]}
  BY WithinUnfolds
<1>2. ASSUME NEW t \in R
      PROVE  /\ Within(t)[0] = {t}
             /\ \A n \in 1..N : Within(t)[n] = UNION {Refs(j) : j \in Within(t)[n - 1]}
  BY RefsType, WithinUnfolds
<1>3. R = Refs(i)
  OBVIOUS
<1> HIDE DEF N, w, R
<1> DEFINE S == {n \in 0..N : n = 0 \/ w[n] = Shift(n - 1)}
<1>4. ASSUME NEW n \in 1..N, n - 1 \in S PROVE n \in S
  <2>1. CASE n = 1
    <3>1. w[1] = R
      BY <1>1, <1>3, <2>1
    <3>2. Shift(0) = R
      BY <1>2
    <3> QED
      BY <1>1, <2>1, <3>1, <3>2
  <2>2. CASE n # 1
    <3> DEFINE m == n - 1
    <3>1. m \in 1..N /\ m - 1 \in 0..N /\ m # 0 /\ n - 1 = m /\ n \in 0..N
      BY <1>1, <2>2
    <3>2. w[n] = UNION {Refs(j) : j \in w[m]}
      BY <1>1
    <3>3. m \in S
      BY <1>4
    <3> HIDE DEF m
    <3>4. w[m] = Shift(m - 1)
      BY <3>1, <3>3
    <3>5. \A t \in R : Within(t)[m] = UNION {Refs(j) : j \in Within(t)[m - 1]}
      BY <1>2, <3>1
    <3>6. Shift(m) = UNION {Refs(j) : j \in Shift(m - 1)}
      BY <3>5
    <3> HIDE DEF Shift
    <3> QED
      BY <3>1, <3>2, <3>4, <3>6
  <2> QED
    BY <2>1, <2>2
<1>5. 0 \in S
  BY <1>1
<1> HIDE DEF S
<1>6. \A n \in 0..N : n \in S
  BY <1>1, <1>4, <1>5, InductionTo
<1>7. ASSUME NEW n \in 1..N PROVE w[n] = Shift(n - 1)
  <2>1. n \in 0..N /\ n # 0
    BY <1>1
  <2> QED
    BY <1>6, <2>1 DEF S
<1> QED
  BY <1>7 DEF N, w, R

\* From a recursive type there is a reference to one: as many DIEs as there are
\* cannot have longest paths of different lengths if one has none.
LEMMA RecursionGoesOn ==
  ASSUME InfoOK, NEW i \in Indices, Recursive(i)
  PROVE  \E t \in Refs(i) : Recursive(t)
<1> DEFINE N == Len(debugInfo)
           S(n) == {j \in Indices : Within(j)[n] # {}}
<1>1. N \in Nat /\ Indices = 1..N /\ N # 0
  BY DIEType DEF Indices
<1>2. ASSUME NEW j \in Indices
      PROVE  /\ \A n \in 1..N : Within(j)[n] = UNION {Refs(x) : x \in Within(j)[n - 1]}
             /\ \A n \in 1..N : Within(j)[n] = UNION {Within(t)[n - 1] : t \in Refs(j)}
             /\ Refs(j) \subseteq Indices
  BY WithinUnfolds, WithinShifts, RefsType
<1>3. i \in S(N)
  BY DEF Recursive
<1>4. ASSUME NEW t \in S(N) PROVE Recursive(t)
  BY <1>4 DEF Recursive
<1> HIDE DEF N
<1>5. ASSUME NEW n \in 1..N PROVE S(n) \subseteq S(n - 1)
  BY <1>2
<1>6. ASSUME NEW n \in 1..N, NEW j \in S(n) PROVE \E t \in Refs(j) : t \in S(n - 1)
  BY <1>2
<1>7. ASSUME NEW n \in 1..N, NEW j \in Indices, NEW t \in Refs(j), t \in S(n - 1) PROVE j \in S(n)
  BY <1>2, <1>7
<1>8. \A n : S(n) \subseteq Indices
  OBVIOUS
<1> HIDE DEF S
<1> DEFINE D(n) == S(n) \ S(n + 1)
<1>9. ASSUME NEW n \in 1..(N - 1), D(n) # {} PROVE D(n - 1) # {}
  <2>1. n \in 1..N /\ n + 1 \in 1..N /\ (n + 1) - 1 = n /\ (n - 1) + 1 = n
    BY <1>1
  <2>2. PICK j \in S(n) : j \notin S(n + 1)
    BY <1>9
  <2>3. PICK t \in Refs(j) : t \in S(n - 1)
    BY <1>6, <2>1
  <2>4. t \notin S(n)
    BY <1>7, <1>8, <2>1, <2>2, <2>3
  <2> QED
    BY <2>1, <2>3, <2>4
<1>10. D(N - 1) = {}
  <2> SUFFICES ASSUME D(N - 1) # {} PROVE FALSE
    OBVIOUS
  <2> DEFINE T == {k \in 0..(N - 1) : D((N - 1) - k) # {}}
  <2>1. 0 \in T
    BY <1>1
  <2>2. ASSUME NEW k \in 1..(N - 1), k - 1 \in T PROVE k \in T
    <3> DEFINE n == (N - 1) - (k - 1)
    <3>1. n \in 1..(N - 1) /\ (N - 1) - k = n - 1 /\ k \in 0..(N - 1)
      BY <1>1
    <3>2. D(n) # {}
      BY <2>2
    <3> HIDE DEF D, n
    <3> QED
      BY <1>9, <3>1, <3>2
  <2>3. N - 1 \in Nat
    BY <1>1
  <2> HIDE DEF T
  <2>4. \A k \in 0..(N - 1) : k \in T
    BY <2>1, <2>2, <2>3, InductionTo
  <2>5. ASSUME NEW n \in 0..(N - 1) PROVE D(n) # {}
    <3>1. (N - 1) - n \in 0..(N - 1) /\ (N - 1) - ((N - 1) - n) = n
      BY <1>1
    <3> QED
      BY <2>4, <3>1 DEF T
  <2> DEFINE f == [n \in 0..N |-> IF n = N THEN i ELSE CHOOSE x \in D(n) : TRUE]
  <2>6. f[N] = i /\ \A n \in 0..(N - 1) : f[n] \in D(n)
    <3> HIDE DEF D
    <3>1. N \in 0..N /\ \A n \in 0..(N - 1) : n \in 0..N /\ n # N
      BY <1>1
    <3> QED
      BY <2>5, <3>1
  <2>7. f \in [0..N -> Indices]
    <3>1. \A n \in 0..N : n = N \/ n \in 0..(N - 1)
      BY <1>1
    <3>2. \A n \in 0..N : f[n] \in Indices
      BY <1>8, <2>6, <3>1
    <3> HIDE DEF D
    <3> QED
      BY <3>2
  <2> HIDE DEF f
  <2>8. PICK a, b \in 0..N : a # b /\ f[a] = f[b]
    <3> DEFINE A == 0..N
    <3>1. /\ IsFiniteSet(A) /\ IsFiniteSet(Indices)
          /\ Cardinality(A) = N + 1 /\ Cardinality(Indices) = N
      BY <1>1, FS_Interval
    <3>2. Cardinality(Indices) < Cardinality(A)
      BY <1>1, <3>1
    <3>3. f \in [A -> Indices]
      BY <2>7
    <3> HIDE DEF A
    <3>4. \E a, b \in A : a # b /\ f[a] = f[b]
      BY <3>1, <3>2, <3>3, FS_PigeonHole
    <3> QED
      BY <3>4 DEF A
  <2>9. ASSUME NEW c \in 0..N, NEW d \in 0..N, c < d PROVE f[c] # f[d]
    <3>1. c \in 0..(N - 1) /\ c + 1 \in 0..d /\ (d = N \/ d \in 0..(N - 1))
      BY <1>1, <2>9
    <3>2. f[c] \notin S(c + 1)
      BY <2>6, <3>1
    <3>3. f[d] \in S(d)
      BY <1>3, <2>6, <3>1
    <3> DEFINE V == {k \in 0..d : f[d] \in S(d - k)}
    <3>4. 0 \in V /\ d \in Nat
      BY <3>3
    <3>5. ASSUME NEW k \in 1..d, k - 1 \in V PROVE k \in V
      <4>1. d - (k - 1) \in 1..N /\ (d - (k - 1)) - 1 = d - k /\ k \in 0..d
        BY <1>1
      <4>2. f[d] \in S(d - (k - 1))
        BY <3>5
      <4>3. f[d] \in S((d - (k - 1)) - 1)
        BY <1>5, <4>1, <4>2
      <4> QED
        BY <4>1, <4>3
    <3> HIDE DEF V
    <3>6. \A k \in 0..d : k \in V
      BY <3>4, <3>5, InductionTo
    <3>7. d - (c + 1) \in 0..d /\ d - (d - (c + 1)) = c + 1
      BY <3>1
    <3>8. f[d] \in S(c + 1)
      BY <3>6, <3>7 DEF V
    <3> QED
      BY <3>2, <3>8
  <2>10. a < b \/ b < a
    BY <2>8, <1>1
  <2> QED
    BY <2>8, <2>9, <2>10
<1>11. N \in 1..N /\ (N - 1) + 1 = N
  BY <1>1
<1>12. PICK t \in Refs(i) : t \in S(N - 1)
  BY <1>3, <1>6, <1>11
<1>13. t \in S(N)
  BY <1>10, <1>11, <1>12
<1> QED
  BY <1>4, <1>12, <1>13

\* What is reached from a DIE is it, or reached from what it refers to.
LEMMA ReachedFromRef ==
  ASSUME InfoOK, NEW i \in Indices, NEW j \in Reachable(i)
  PROVE  j = i \/ \E t \in Refs(i) : j \in Reachable(t)
<1> DEFINE N == Len(debugInfo)
<1>1. N \in Nat /\ Within(i)[0] = {i}
  BY WithinUnfolds
<1>2. \A n \in 1..N : Within(i)[n] = UNION {Within(t)[n - 1] : t \in Refs(i)}
  BY WithinShifts
<1>3. PICK n \in 0..N : j \in Within(i)[n]
  BY Zenon DEF Reachable
<1> HIDE DEF N
<1>4. n = 0 \/ (n \in 1..N /\ n - 1 \in 0..N)
  BY <1>1
<1>5. ASSUME n \in 1..N, n - 1 \in 0..N PROVE \E t \in Refs(i) : j \in Reachable(t)
  <2>1. PICK t \in Refs(i) : j \in Within(t)[n - 1]
    BY <1>2, <1>3, <1>5
  <2> QED
    BY <1>5, <2>1 DEF Reachable, N
<1> QED
  BY <1>1, <1>3, <1>4, <1>5

\* A type is doomed by its own DIE or by one it refers to.
LEMMA DoomComesFromBelow ==
  ASSUME InfoOK, NEW i \in Indices, Doomed(i)
  PROVE  Fatal(i) \/ \E t \in Refs(i) : Doomed(t)
<1>1. CASE Recursive(i)
  BY <1>1, RecursionGoesOn DEF Doomed
<1>2. CASE \E j \in Reachable(i) : Fatal(j)
  BY <1>2, ReachedFromRef DEF Doomed
<1> QED
  BY <1>1, <1>2 DEF Doomed

------------------------------------------------------------------------------
(* The meaning of a DIE, by its tag *)

\* Meaning with another function for the DIEs referred to.
ArraysOf(g, i) == {ArrayType(t, NumElements(i)) : t \in g[TypeDieOf(i)]}

StructsOf(g, i) ==
  LET die == debugInfo[i]
      c   == ChildrenOf(i)
      types == UNION {g[TypeDieOf(c[k])] : k \in 1..Len(c)}
      lists == {[k \in 1..Len(c) |-> [type |-> f[k], at |-> debugInfo[c[k]].location]] :
                  f \in {h \in [1..Len(c) -> types] :
                           \A k \in 1..Len(c) : h[k] \in g[TypeDieOf(c[k])]}}
  IN  {StructType(die.byteSize, ms) : ms \in UNION {Sorted(l) : l \in lists}}

MeaningOf(g, i) ==
  LET die == debugInfo[i]
      c   == ChildrenOf(i)
  IN  IF die.tag = "typedef" /\ TypeDieOf(i) # 0 THEN g[TypeDieOf(i)]
      ELSE IF die.tag = "base_type" /\ die.byteSize # Absent THEN {BaseType(die.byteSize)}
      ELSE IF die.tag = "pointer_type" THEN {PointerType}
      ELSE IF die.tag = "array_type" /\ TypeDieOf(i) # 0 /\ SubrangesOK(i) THEN ArraysOf(g, i)
      ELSE IF die.tag \in Compounds /\ die.byteSize # Absent /\ MembersOK(i) THEN StructsOf(g, i)
      ELSE {}

\* The lists of members with types of their meanings.
MemberLists(g, i) ==
  {l \in [1..Len(ChildrenOf(i)) -> [type: UNION {g[TypeDieOf(ChildrenOf(i)[k])] : k \in 1..Len(ChildrenOf(i))},
                                    at: {debugInfo[ChildrenOf(i)[k]].location : k \in 1..Len(ChildrenOf(i))}]] :
     \A k \in 1..Len(ChildrenOf(i)) : /\ l[k].type \in g[TypeDieOf(ChildrenOf(i)[k])]
                                      /\ l[k].at = debugInfo[ChildrenOf(i)[k]].location}

LEMMA StructsUnfold ==
  ASSUME NEW g, NEW i
  PROVE  StructsOf(g, i) =
           {StructType(debugInfo[i].byteSize, ms) : ms \in UNION {Sorted(l) : l \in MemberLists(g, i)}}
<1> DEFINE c == ChildrenOf(i)
           K == 1..Len(c)
           T(k) == g[TypeDieOf(c[k])]
           P(k) == debugInfo[c[k]].location
           types == UNION {T(k) : k \in K}
           Fs == {h \in [K -> types] : \A k \in K : h[k] \in T(k)}
           lists == {[k \in K |-> [type |-> f[k], at |-> P(k)]] : f \in Fs}
           Ls == {l \in [K -> [type: types, at: {P(k) : k \in K}]] :
                    \A k \in K : l[k].type \in T(k) /\ l[k].at = P(k)}
<1>1. lists = Ls
  <2> HIDE DEF c, K, T, P, types
  <2>1. ASSUME NEW f \in Fs PROVE [k \in K |-> [type |-> f[k], at |-> P(k)]] \in Ls
    OBVIOUS
  <2>2. ASSUME NEW l \in Ls PROVE l \in lists
    <3> DEFINE f == [k \in K |-> l[k].type]
    <3>1. f \in Fs
      OBVIOUS
    <3>2. l = [k \in K |-> [type |-> f[k], at |-> P(k)]]
      <4>1. ASSUME NEW k \in K PROVE l[k] = [type |-> f[k], at |-> P(k)]
        OBVIOUS
      <4> HIDE DEF f
      <4>2. l = [k \in K |-> l[k]]
        OBVIOUS
      <4> QED
        BY <4>1, <4>2
    <3> HIDE DEF f, Fs
    <3> QED
      BY <3>1, <3>2
  <2> HIDE DEF Fs, Ls
  <2>3. ASSUME NEW l \in lists PROVE l \in Ls
    BY <2>1
  <2> QED
    BY <2>2, <2>3
<1>2. MemberLists(g, i) = Ls
  BY DEF MemberLists
<1>3. StructsOf(g, i) = {StructType(debugInfo[i].byteSize, ms) : ms \in UNION {Sorted(l) : l \in lists}}
  BY Zenon DEF StructsOf
<1> QED
  BY <1>1, <1>2, <1>3, Zenon

LEMMA MeaningByTag ==
  ASSUME NEW g, NEW i
  PROVE  /\ debugInfo[i].tag = "typedef" /\ TypeDieOf(i) # 0 => MeaningOf(g, i) = g[TypeDieOf(i)]
         /\ debugInfo[i].tag = "base_type" /\ debugInfo[i].byteSize # Absent =>
              MeaningOf(g, i) = {BaseType(debugInfo[i].byteSize)}
         /\ debugInfo[i].tag = "pointer_type" => MeaningOf(g, i) = {PointerType}
         /\ debugInfo[i].tag = "array_type" /\ TypeDieOf(i) # 0 /\ SubrangesOK(i) =>
              MeaningOf(g, i) = ArraysOf(g, i)
         /\ debugInfo[i].tag \in Compounds /\ debugInfo[i].byteSize # Absent /\ MembersOK(i) =>
              MeaningOf(g, i) = StructsOf(g, i)
         /\ \/ debugInfo[i].tag \in {"typedef", "array_type"} /\ TypeDieOf(i) = 0
            \/ debugInfo[i].tag = "base_type" /\ debugInfo[i].byteSize = Absent
            \/ debugInfo[i].tag = "array_type" /\ ~SubrangesOK(i)
            \/ debugInfo[i].tag \in Compounds /\ (debugInfo[i].byteSize = Absent \/ ~MembersOK(i))
            \/ debugInfo[i].tag \notin {"typedef", "base_type", "array_type", "pointer_type"} \cup Compounds
            => MeaningOf(g, i) = {}
  BY DEF MeaningOf, Compounds

\* The DIEs whose meaning the meaning of a DIE is made from.
PartsOf(i) ==
  IF debugInfo[i].tag \in {"typedef", "array_type"} THEN {TypeDieOf(i)} \ {0}
  ELSE IF debugInfo[i].tag \in Compounds /\ MembersOK(i)
       THEN {TypeDieOf(ChildrenOf(i)[k]) : k \in 1..Len(ChildrenOf(i))}
       ELSE {}

LEMMA PartsType == ASSUME InfoOK, NEW i \in Indices PROVE PartsOf(i) \subseteq Indices
<1>1. \A j : TypeDieOf(j) # 0 => TypeDieOf(j) \in Indices
  BY TypeDieType DEF IndexOrNone
<1>2. MembersOK(i) => \A k \in 1..Len(ChildrenOf(i)) : TypeDieOf(ChildrenOf(i)[k]) # 0
  BY Zenon DEF MembersOK, MemberDIE
<1> QED
  BY <1>1, <1>2 DEF PartsOf

\* It depends on nothing else.
LEMMA MeaningOfParts ==
  ASSUME NEW g, NEW h, NEW i, \A j \in PartsOf(i) : g[j] = h[j]
  PROVE  MeaningOf(g, i) = MeaningOf(h, i)
<1>1. ASSUME debugInfo[i].tag \in {"typedef", "array_type"}, TypeDieOf(i) # 0
      PROVE  g[TypeDieOf(i)] = h[TypeDieOf(i)]
  BY <1>1 DEF PartsOf
<1>2. ASSUME debugInfo[i].tag \in Compounds, MembersOK(i) PROVE StructsOf(g, i) = StructsOf(h, i)
  <2>1. \A k \in 1..Len(ChildrenOf(i)) : TypeDieOf(ChildrenOf(i)[k]) \in PartsOf(i)
    BY <1>2 DEF PartsOf, Compounds
  <2>2. \A k \in 1..Len(ChildrenOf(i)) : g[TypeDieOf(ChildrenOf(i)[k])] = h[TypeDieOf(ChildrenOf(i)[k])]
    BY <2>1
  <2> DEFINE c == ChildrenOf(i)
             K == 1..Len(c)
             G(k) == g[TypeDieOf(c[k])]
             H(k) == h[TypeDieOf(c[k])]
             P(k) == debugInfo[c[k]].location
  <2>3. MemberLists(g, i) = MemberLists(h, i)
    <3>1. \A k \in K : G(k) = H(k)
      BY <2>2
    <3>2. /\ MemberLists(g, i) = {l \in [K -> [type: UNION {G(k) : k \in K}, at: {P(k) : k \in K}]] :
                                    \A k \in K : l[k].type \in G(k) /\ l[k].at = P(k)}
          /\ MemberLists(h, i) = {l \in [K -> [type: UNION {H(k) : k \in K}, at: {P(k) : k \in K}]] :
                                    \A k \in K : l[k].type \in H(k) /\ l[k].at = P(k)}
      BY DEF MemberLists
    <3> HIDE DEF G, H, P, K
    <3>3. UNION {G(k) : k \in K} = UNION {H(k) : k \in K}
      BY <3>1
    <3> DEFINE Ls == [K -> [type: UNION {G(k) : k \in K}, at: {P(k) : k \in K}]]
    <3>4. /\ MemberLists(g, i) = {l \in Ls : \A k \in K : l[k].type \in G(k) /\ l[k].at = P(k)}
          /\ MemberLists(h, i) = {l \in Ls : \A k \in K : l[k].type \in H(k) /\ l[k].at = P(k)}
      BY <3>2, <3>3
    <3> HIDE DEF Ls
    <3> QED
      BY <3>1, <3>4
  <2> QED
    BY <2>3, StructsUnfold
<1>3. ASSUME debugInfo[i].tag = "array_type", TypeDieOf(i) # 0 PROVE ArraysOf(g, i) = ArraysOf(h, i)
  BY <1>1, <1>3 DEF ArraysOf
<1> DEFINE tag == debugInfo[i].tag
           size == debugInfo[i].byteSize
<1>4. CASE tag = "typedef" /\ TypeDieOf(i) # 0
  BY <1>1, <1>4, MeaningByTag
<1>5. CASE tag = "base_type" /\ size # Absent
  BY <1>5, MeaningByTag
<1>6. CASE tag = "pointer_type"
  BY <1>6, MeaningByTag
<1>7. CASE tag = "array_type" /\ TypeDieOf(i) # 0 /\ SubrangesOK(i)
  BY <1>3, <1>7, MeaningByTag
<1>8. CASE tag \in Compounds /\ size # Absent /\ MembersOK(i)
  BY <1>2, <1>8, MeaningByTag
<1>9. CASE \/ tag \in {"typedef", "array_type"} /\ TypeDieOf(i) = 0
           \/ tag = "base_type" /\ size = Absent
           \/ tag = "array_type" /\ ~SubrangesOK(i)
           \/ tag \in Compounds /\ (size = Absent \/ ~MembersOK(i))
           \/ tag \notin {"typedef", "base_type", "array_type", "pointer_type"} \cup Compounds
  BY <1>9, MeaningByTag
<1> HIDE DEF size
<1> QED
  BY <1>4, <1>5, <1>6, <1>7, <1>8, <1>9

\* Where a part has no meaning, the whole has none.
LEMMA NoPartNoMeaning ==
  ASSUME NEW g, NEW i, NEW j \in PartsOf(i), g[j] = {}
  PROVE  MeaningOf(g, i) = {}
<1>1. CASE debugInfo[i].tag \in {"typedef", "array_type"}
  <2>1. j = TypeDieOf(i) /\ j # 0
    BY <1>1 DEF PartsOf
  <2>2. ArraysOf(g, i) = {}
    BY <2>1 DEF ArraysOf
  <2> QED
    BY <1>1, <2>1, <2>2, MeaningByTag
<1>2. CASE debugInfo[i].tag \in Compounds
  <2>1. PICK k \in 1..Len(ChildrenOf(i)) : j = TypeDieOf(ChildrenOf(i)[k])
    BY <1>2 DEF PartsOf, Compounds
  <2>2. MemberLists(g, i) = {}
    BY <2>1 DEF MemberLists
  <2>3. StructsOf(g, i) = {}
    BY <2>2, StructsUnfold
  <2> QED
    BY <1>2, <2>3, MeaningByTag
<1> QED
  BY <1>1, <1>2 DEF PartsOf

\* The definition of Meaning is one: the DIEs whose meaning their parts determine
\* have that, and all others, which are made of themselves, none.
LEMMA MeaningExists ==
  ASSUME InfoOK
  PROVE  \E g : g = [i \in Indices |-> MeaningOf(g, i)]
<1> DEFINE N == Len(debugInfo)
           Closed(S, g) == \A i \in S : PartsOf(i) \subseteq S /\ g[i] = MeaningOf(g, i)
           C == {S \in SUBSET Indices : \E g : Closed(S, g)}
           Sizes == {Cardinality(S) : S \in C}
<1>1. /\ N \in Nat /\ Indices = 1..N /\ IsFiniteSet(Indices) /\ Cardinality(Indices) = N
  <2>1. N \in Nat
    BY DEF InfoOK
  <2>2. Indices = 1..N
    BY DEF Indices
  <2> HIDE DEF N
  <2>3. IsFiniteSet(1..N) /\ Cardinality(1..N) = N
    BY <2>1, FS_Interval
  <2> QED
    BY <2>1, <2>2, <2>3
<1>2. \A S \in SUBSET Indices : IsFiniteSet(S) /\ Cardinality(S) \in 0..N
  <2>1. ASSUME NEW S \in SUBSET Indices PROVE IsFiniteSet(S) /\ Cardinality(S) \in Nat /\ Cardinality(S) <= N
    BY <1>1, FS_Subset, FS_CardinalityType
  <2> QED
    BY <2>1, <1>1
<1> HIDE DEF N
<1>3. {} \in C
  OBVIOUS
<1>4. Sizes \subseteq 0..N /\ Sizes # {}
  BY <1>2, <1>3
<1>5. PICK S \in C : \A R \in C : Cardinality(S) >= Cardinality(R)
  <2>1. PICK n \in Sizes : \A m \in Sizes : n >= m
    <3> HIDE DEF Sizes
    <3> QED
      BY <1>1, <1>4, Greatest
  <2>2. PICK S \in C : n = Cardinality(S)
    BY <2>1
  <2>3. \A R \in C : Cardinality(R) \in Sizes
    OBVIOUS
  <2> HIDE DEF Sizes, C
  <2> QED
    BY <2>1, <2>2, <2>3
<1>6. PICK g : Closed(S, g)
  BY <1>5
<1> DEFINE h == [i \in Indices |-> IF i \in S THEN g[i] ELSE {}]
<1>7. ASSUME NEW i \in S PROVE h[i] = MeaningOf(h, i)
  <2>1. PartsOf(i) \subseteq S /\ g[i] = MeaningOf(g, i) /\ S \subseteq Indices
    BY <1>6, <1>5
  <2>2. (\A j \in PartsOf(i) : g[j] = h[j]) /\ h[i] = g[i]
    BY <2>1
  <2> HIDE DEF h
  <2>3. MeaningOf(g, i) = MeaningOf(h, i)
    BY <2>2, MeaningOfParts
  <2> QED
    BY <2>1, <2>2, <2>3
<1>8. ASSUME NEW i \in Indices \ S PROVE h[i] = MeaningOf(h, i)
  <2> DEFINE R == S \cup {i}
             k == [j \in Indices |-> IF j = i THEN MeaningOf(g, i) ELSE g[j]]
  <2>1. ASSUME PartsOf(i) \subseteq S PROVE FALSE
    <3>1. \A j \in S : k[j] = g[j]
      BY <1>5
    <3>2. k[i] = MeaningOf(g, i)
      OBVIOUS
    <3> HIDE DEF k
    <3>3. ASSUME NEW j \in R PROVE PartsOf(j) \subseteq R /\ k[j] = MeaningOf(k, j)
      <4>1. PartsOf(j) \subseteq S /\ k[j] = MeaningOf(g, j)
        BY <1>6, <2>1, <3>1, <3>2
      <4>2. \A p \in PartsOf(j) : g[p] = k[p]
        BY <3>1, <4>1
      <4>3. MeaningOf(g, j) = MeaningOf(k, j)
        BY <4>2, MeaningOfParts
      <4> QED
        BY <4>1, <4>3
    <3>4. R \in C
      <4>1. R \in SUBSET Indices
        BY <1>5
      <4>2. Closed(R, k)
        BY <3>3
      <4> HIDE DEF R, Closed
      <4> QED
        BY <4>1, <4>2
    <3>5. Cardinality(R) = Cardinality(S) + 1 /\ Cardinality(S) \in Nat
      <4>1. S \in SUBSET Indices /\ i \notin S
        BY <1>5
      <4> HIDE DEF C
      <4>2. IsFiniteSet(S) /\ Cardinality(S) \in Nat
        BY <1>2, <4>1
      <4> QED
        BY <4>1, <4>2, FS_AddElement
    <3> HIDE DEF R, C
    <3> QED
      BY <1>5, <3>4, <3>5
  <2>2. PICK j \in PartsOf(i) : j \notin S
    BY <2>1
  <2>3. j \in Indices
    BY <2>2, PartsType
  <2>4. h[j] = {} /\ h[i] = {}
    BY <2>2, <2>3
  <2> HIDE DEF h
  <2> QED
    BY <2>2, <2>4, NoPartNoMeaning
<1>9. h = [i \in Indices |-> h[i]]
  OBVIOUS
<1> HIDE DEF h
<1>10. \A i \in Indices : h[i] = MeaningOf(h, i)
  BY <1>7, <1>8
<1>11. h = [i \in Indices |-> MeaningOf(h, i)]
  BY <1>9, <1>10
<1> QED
  BY <1>11

LEMMA MeaningUnfolds ==
  ASSUME InfoOK, NEW i \in Indices PROVE Meaning[i] = MeaningOf(Meaning, i)
<1>1. Meaning = CHOOSE g : g = [j \in Indices |-> MeaningOf(g, j)]
  BY Zenon DEF Meaning, MeaningOf, ArraysOf, StructsOf
<1>2. Meaning = [j \in Indices |-> MeaningOf(Meaning, j)]
  BY <1>1, MeaningExists, Zenon
<1> DEFINE m == Meaning
<1>3. m = [j \in Indices |-> MeaningOf(m, j)]
  BY <1>2
<1> HIDE DEF m
<1>4. m[i] = MeaningOf(m, i)
  BY <1>3, Zenon
<1> QED
  BY <1>4 DEF m

\* An array of one dimension has the elements its subrange counts.
LEMMA OneDimension ==
  ASSUME InfoOK, NEW i \in Indices, Len(ChildrenOf(i)) = 1, ChildrenOf(i)[1] # 0,
         debugInfo[ChildrenOf(i)[1]].count # Absent
  PROVE  NumElements(i) = debugInfo[ChildrenOf(i)[1]].count
<1> DEFINE c == ChildrenOf(i)
           count == debugInfo[c[1]].count
           g == [k \in 0..Len(c) |-> IF k = 0 THEN 1 ELSE count]
           upTo == CHOOSE f : f = [k \in 0..Len(c) |-> IF k = 0 THEN 1 ELSE f[k - 1] * debugInfo[c[k]].count]
<1>1. count \in Nat
  <2>1. c[1] \in Indices
    BY ChildrenType DEF IndexOrNone
  <2> QED
    BY <2>1, DIEType DEF NatOrAbsent
<1>2. NumElements(i) = upTo[Len(c)]
  BY Zenon DEF NumElements
<1>3. Len(c) = 1 /\ 0..Len(c) = {0, 1}
  OBVIOUS
<1>4. g[0] = 1 /\ g[1] = count
  BY <1>3
<1>5. g = [k \in 0..Len(c) |-> IF k = 0 THEN 1 ELSE g[k - 1] * debugInfo[c[k]].count]
  <2>1. g[1 - 1] * count = count
    BY <1>1, <1>4
  <2>2. \A k \in 0..Len(c) : g[k] = IF k = 0 THEN 1 ELSE g[k - 1] * debugInfo[c[k]].count
    BY <1>3, <1>4, <2>1
  <2> QED
    BY <2>2
<1>6. upTo = [k \in 0..Len(c) |-> IF k = 0 THEN 1 ELSE upTo[k - 1] * debugInfo[c[k]].count]
  BY <1>5, Zenon
<1> HIDE DEF upTo, g
<1>7. upTo[0] = 1 /\ upTo[1] = upTo[1 - 1] * count
  BY <1>3, <1>6
<1> HIDE DEF count, c
<1>8. upTo[1] = count
  BY <1>1, <1>7
<1> QED
  BY <1>2, <1>3, <1>8 DEF count, c

------------------------------------------------------------------------------
(* Sequences of anything *)

IsSeq(s) == \E X : s \in Seq(X)

LEMMA SeqLength == ASSUME NEW s, IsSeq(s) PROVE Len(s) \in Nat /\ ((s = << >>) <=> Len(s) = 0)
<1>1. PICK X : s \in Seq(X)
  BY DEF IsSeq
<1> QED
  BY <1>1

\* t is s with e at its end, without its first or its last element, or with e for its last.
Longer(t, s, e) == /\ Len(s) \in Nat /\ IsSeq(t) /\ Len(t) = Len(s) + 1
                   /\ (\A k \in 1..Len(s) : t[k] = s[k]) /\ t[Len(s) + 1] = e

Headless(t, s) == /\ Len(s) \in Nat \ {0} /\ IsSeq(t) /\ Len(t) = Len(s) - 1
                  /\ \A k \in 1..(Len(s) - 1) : t[k] = s[k + 1]

Shorter(t, s) == /\ Len(s) \in Nat \ {0} /\ IsSeq(t) /\ Len(t) = Len(s) - 1
                 /\ \A k \in 1..(Len(s) - 1) : t[k] = s[k]

Replaced(t, s, e) == /\ Len(s) \in Nat \ {0} /\ IsSeq(t) /\ Len(t) = Len(s)
                     /\ (\A k \in 1..(Len(s) - 1) : t[k] = s[k]) /\ t[Len(s)] = e

LEMMA AppendFacts == ASSUME NEW s, IsSeq(s), NEW e PROVE Longer(Append(s, e), s, e)
<1> DEFINE t == Append(s, e)
<1>1. PICK X : s \in Seq(X)
  BY DEF IsSeq
<1> DEFINE Y == X \cup {e}
<1>2. s \in Seq(Y) /\ e \in Y
  BY <1>1
<1> HIDE DEF Y
<1>3. t \in Seq(Y) /\ Len(t) = Len(s) + 1 /\ (\A k \in 1..Len(s) : t[k] = s[k]) /\ t[Len(s) + 1] = e
  BY <1>2
<1> HIDE DEF t
<1>4. Longer(t, s, e)
  BY <1>1, <1>3 DEF IsSeq, Longer
<1> QED
  BY <1>4 DEF t

LEMMA TailFacts == ASSUME NEW s, IsSeq(s), s # << >> PROVE Headless(Tail(s), s)
<1> DEFINE t == Tail(s)
<1>1. PICK X : s \in Seq(X)
  BY DEF IsSeq
<1>2. t \in Seq(X) /\ Len(t) = Len(s) - 1 /\ \A k \in 1..Len(t) : t[k] = s[k + 1]
  BY <1>1, HeadTailProperties, Zenon
<1>3. Len(s) \in Nat \ {0}
  BY <1>1
<1> HIDE DEF t
<1>4. Headless(t, s)
  BY <1>2, <1>3 DEF IsSeq, Headless
<1> QED
  BY <1>4 DEF t

LEMMA ButLastFacts == ASSUME NEW s, IsSeq(s), s # << >> PROVE Shorter(SubSeq(s, 1, Len(s) - 1), s)
<1> DEFINE t == SubSeq(s, 1, Len(s) - 1)
<1>1. PICK X : s \in Seq(X)
  BY DEF IsSeq
<1>2. Len(s) \in Nat \ {0}
  BY <1>1
<1> DEFINE n == Len(s) - 1
<1>3. n \in Nat /\ \A k \in 1..n : s[k] \in X
  BY <1>1, <1>2
<1>4. t = SubSeq(s, 1, n)
  OBVIOUS
<1> HIDE DEF n
<1>5. /\ SubSeq(s, 1, n) \in Seq(X) /\ Len(SubSeq(s, 1, n)) = n
      /\ \A k \in 1..n : SubSeq(s, 1, n)[k] = s[k]
  BY <1>3, SubSeqProperties
<1>6. t \in Seq(X) /\ Len(t) = n /\ \A k \in 1..n : t[k] = s[k]
  BY <1>4, <1>5, Zenon
<1> HIDE DEF t
<1>7. Shorter(t, s)
  BY <1>2, <1>6 DEF IsSeq, Shorter, n
<1> QED
  BY <1>7 DEF t

LEMMA LastReplaced == ASSUME NEW s, IsSeq(s), s # << >>, NEW e PROVE Replaced([s EXCEPT ![Len(s)] = e], s, e)
<1> DEFINE t == [s EXCEPT ![Len(s)] = e]
<1>1. PICK X : s \in Seq(X)
  BY DEF IsSeq
<1> DEFINE Y == X \cup {e}
<1>2. s \in Seq(Y) /\ e \in Y /\ Len(s) \in Nat \ {0}
  BY <1>1
<1> HIDE DEF Y
<1>3. t \in Seq(Y) /\ Len(t) = Len(s) /\ (\A k \in 1..(Len(s) - 1) : t[k] = s[k]) /\ t[Len(s)] = e
  BY <1>2
<1> HIDE DEF t
<1>4. Replaced(t, s, e)
  BY <1>2, <1>3 DEF IsSeq, Replaced
<1> QED
  BY <1>4 DEF t

------------------------------------------------------------------------------
(* The stack of calls, against the DIEs, which never change *)

\* What the types of a unit refer to and mean; nothing else is read below.
TypeGraph ==
  [dies    |-> debugInfo,
   typeDie |-> [i \in Indices |-> TypeDieOf(i)],
   kids    |-> [i \in Indices |-> ChildrenOf(i)],
   meaning |-> Meaning,
   var     |-> VariableType,
   reach   |-> IF VariableType = 0 THEN {} ELSE Reachable(VariableType),
   within  |-> IF VariableType = 0 THEN [n \in 0..Len(debugInfo) |-> {}] ELSE Within(VariableType),
   doomed  |-> {i \in Indices : Doomed(i)},
   orderly |-> VariableType # 0 => Orderly(VariableType)]

IsMemberOf(G, c) == /\ c # 0 /\ G.dies[c].tag = "member"
                    /\ G.dies[c].location # Absent /\ G.typeDie[c] # 0

CountsElements(G, c) == c # 0 /\ G.dies[c].tag = "subrange_type" /\ G.dies[c].count # Absent

\* The DIE whose type a waiting call waits for.
Awaited(G, f) == IF f.fn = "struct" THEN G.typeDie[G.kids[f.die][Len(f.members) + 1]] ELSE G.typeDie[f.die]

\* The one the type returned next is for.
Goal(G, s) == IF s = << >> THEN G.var ELSE Awaited(G, s[Len(s)])

\* A frame is of a call for a DIE of the variable's type, with the children that
\* are left and a member for each of the others.
FrameOK(G, f) ==
  /\ f = [fn |-> f.fn, die |-> f.die, children |-> f.children, members |-> f.members]
  /\ f.die \in G.reach /\ IsSeq(f.children) /\ IsSeq(f.members)
  /\ Len(f.members) + Len(f.children) = Len(G.kids[f.die])
  /\ \A k \in 1..Len(f.children) : f.children[k] = G.dies[f.die].childrenOffsets[Len(f.members) + k]
  /\ \A k \in 1..Len(f.members) :
       /\ IsMemberOf(G, G.kids[f.die][k])
       /\ f.members[k] = [type |-> f.members[k].type, at |-> G.dies[G.kids[f.die][k]].location]
  /\ \/ f.fn = "struct" /\ G.dies[f.die].tag \in Compounds /\ G.dies[f.die].byteSize # Absent
     \/ f.fn = "array" /\ G.dies[f.die].tag = "array_type" /\ G.typeDie[f.die] # 0 /\ f.members = << >>
     \/ f.fn = "pointer" /\ G.dies[f.die].tag = "pointer_type" /\ G.typeDie[f.die] # 0

\* A struct waits for the type of a member.
Awaiting(G, f) == f.fn = "struct" => f.children # << >> /\ IsMemberOf(G, G.kids[f.die][Len(f.members) + 1])

StackOK(G, p, a, s) ==
  /\ IsSeq(s)
  /\ \A k \in 1..Len(s) : FrameOK(G, s[k])
  /\ \A k \in 1..(Len(s) - 1) : Awaiting(G, s[k])
  /\ p \in {"getTypeFromTypeDie", "return"} /\ s # << >> => Awaiting(G, s[Len(s)])
  /\ p \notin {"getVariableType", "done"} => G.var # 0
  /\ p = "getTypeFromTypeDie" => a \in G.reach
  /\ p = "members" /\ s # << >> => s[Len(s)].fn = "struct"
  /\ p = "getVariableType" => s = << >>

\* The variable's type has what KnownTypeRight asks for.
Known(G) ==
  \A j \in G.reach :
    /\ G.dies[j].tag = "array_type" => Len(G.kids[j]) <= 1
    /\ G.dies[j].tag \in Compounds =>
         \A k \in 1..Len(G.kids[j]) :
           IsMemberOf(G, G.kids[j][k]) => G.meaning[G.typeDie[G.kids[j][k]]] # {}

\* v is what the call for a DIE returns: null if and only if there is no such type.
Answers(G, v, i) == IF v = Null THEN G.meaning[i] = {} ELSE v \in G.meaning[i]

\* Every call is for a DIE that means what its caller waits for.
KnownOK(G, p, a, v, s) ==
  /\ \A k \in 1..Len(s) :
       /\ G.meaning[s[k].die] = G.meaning[IF k = 1 THEN G.var ELSE Awaited(G, s[k - 1])]
       /\ \A m \in 1..Len(s[k].members) :
            Answers(G, s[k].members[m].type, G.typeDie[G.kids[s[k].die][m]])
  /\ p = "getTypeFromTypeDie" => G.meaning[a] = G.meaning[Goal(G, s)]
  /\ p = "return" => Answers(G, v, Goal(G, s))
  /\ p = "done" /\ G.var # 0 => Answers(G, v, G.var)

\* The variable's type does not refer to itself, and the stack has room for as many
\* calls as there are DIEs.
Acyclic(G) == G.within[Len(G.dies)] = {} /\ Len(G.dies) <= StackLimit

\* i is n references or more away from the variable's type.
Deep(G, i, n) == \E m \in 0..Len(G.dies) : n <= m /\ i \in G.within[m]

\* Each call is for a DIE further away than its caller's, which bounds the stack.
DepthsOK(G, p, a, s) ==
  /\ p # "overflow"
  /\ p = "getTypeFromTypeDie" => Deep(G, a, Len(s))
  /\ \A k \in 1..Len(s) : Deep(G, s[k].die, k - 1)

\* It also has what CompleteTypeResolved asks for.
Complete(G) ==
  /\ Acyclic(G)
  /\ \A j \in G.reach : G.meaning[j] # {} /\ (G.dies[j].tag = "pointer_type" => G.typeDie[j] # 0)

\* Nothing has failed.
CompleteOK(G, p, v) ==
  /\ p \notin {"abort", "segv", "overflow"}
  /\ p = "return" \/ (p = "done" /\ G.var # 0) => v # Null

\* If i is not doomed, neither is j.
Spares(G, i, j) == i \notin G.doomed => j \notin G.doomed

\* A call that is for no doomed DIE was made by one for none, and those that have
\* returned were for none; what ends the process is below the variable's type.
FateOK(G, p, a, s) ==
  /\ \A k \in 1..Len(s) :
       /\ Spares(G, s[k].die, IF k = 1 THEN G.var ELSE Awaited(G, s[k - 1]))
       /\ \A m \in 1..Len(s[k].members) : G.typeDie[G.kids[s[k].die][m]] \notin G.doomed
  /\ p = "getTypeFromTypeDie" => Spares(G, a, Goal(G, s))
  /\ p = "return" => Goal(G, s) \notin G.doomed
  /\ p = "done" /\ G.var # 0 => G.var \notin G.doomed
  /\ p \in {"abort", "segv"} => G.var \in G.doomed

CallsOK(G, p, a, v, s) ==
  /\ StackOK(G, p, a, s)
  /\ Known(G) => KnownOK(G, p, a, v, s)
  /\ Acyclic(G) => DepthsOK(G, p, a, s)
  /\ Complete(G) => CompleteOK(G, p, v)
  /\ G.orderly => FateOK(G, p, a, s)

CallsInv == CallsOK(TypeGraph, pc, at, value, calls)

\* The references from a DIE that is reached lead to DIEs that are.
GraphOK(G) ==
  /\ G.var # 0 => G.var \in G.reach
  /\ \A i \in G.reach :
       /\ IsSeq(G.dies[i].childrenOffsets)
       /\ Len(G.kids[i]) = Len(G.dies[i].childrenOffsets)
       /\ G.typeDie[i] # 0 => G.typeDie[i] \in G.reach
       /\ \A k \in 1..Len(G.kids[i]) :
            IsMemberOf(G, G.kids[i][k]) => G.typeDie[G.kids[i][k]] \in G.reach

LEMMA GraphFields ==
  /\ TypeGraph.dies = debugInfo /\ TypeGraph.meaning = Meaning /\ TypeGraph.var = VariableType
  /\ \A i \in Indices : TypeGraph.typeDie[i] = TypeDieOf(i) /\ TypeGraph.kids[i] = ChildrenOf(i)
  /\ TypeGraph.reach = IF VariableType = 0 THEN {} ELSE Reachable(VariableType)
  /\ TypeGraph.within = IF VariableType = 0 THEN [n \in 0..Len(debugInfo) |-> {}] ELSE Within(VariableType)
  /\ TypeGraph.doomed = {i \in Indices : Doomed(i)}
  /\ TypeGraph.orderly <=> (VariableType # 0 => Orderly(VariableType))
  BY DEF TypeGraph

\* What is read of the DIEs is what the graph has.
LEMMA GraphMember ==
  ASSUME InfoOK, NEW c \in IndexOrNone
  PROVE  IsMemberOf(TypeGraph, c) <=> /\ c # 0 /\ debugInfo[c].tag = "member"
                                      /\ debugInfo[c].location # Absent /\ TypeDieOf(c) # 0
<1>1. c = 0 \/ c \in Indices
  BY DEF IndexOrNone
<1> QED
  BY <1>1, GraphFields DEF IsMemberOf

LEMMA GraphReach ==
  ASSUME InfoOK
  PROVE  /\ VariableType = 0 => TypeGraph.reach = {}
         /\ VariableType # 0 => VariableType \in TypeGraph.reach
         /\ TypeGraph.reach \subseteq Indices
         /\ \A i \in TypeGraph.reach : Refs(i) \subseteq TypeGraph.reach
<1>1. CASE VariableType = 0
  BY <1>1, GraphFields
<1>2. CASE VariableType # 0
  <2>1. VariableType \in Indices
    BY <1>2, VariableTypeType DEF IndexOrNone
  <2>2. TypeGraph.reach = Reachable(VariableType)
    BY <1>2, GraphFields
  <2> QED
    BY <1>2, <2>1, <2>2, ReachedIsClosed
<1> QED
  BY <1>1, <1>2

\* Where the types of members and of arrays and pointers are.
LEMMA RefsHave ==
  ASSUME InfoOK, NEW i \in Indices
  PROVE  /\ TypeDieOf(i) # 0 => TypeDieOf(i) \in Refs(i)
         /\ \A k \in 1..Len(ChildrenOf(i)) :
              /\ ChildrenOf(i)[k] # 0 /\ TypeDieOf(ChildrenOf(i)[k]) # 0 => TypeDieOf(ChildrenOf(i)[k]) \in Refs(i)
              /\ TypeDieOf(ChildrenOf(i)[k]) # 0 => TypeDieOf(ChildrenOf(i)[k]) \in Refs(ChildrenOf(i)[k])
  BY DEF Refs

LEMMA GraphIsOK == ASSUME InfoOK PROVE GraphOK(TypeGraph)
<1> DEFINE G == TypeGraph
<1>1. G.var # 0 => G.var \in G.reach
  BY GraphReach, GraphFields
<1>2. ASSUME NEW i \in G.reach
      PROVE  /\ IsSeq(G.dies[i].childrenOffsets)
             /\ Len(G.kids[i]) = Len(G.dies[i].childrenOffsets)
             /\ G.typeDie[i] # 0 => G.typeDie[i] \in G.reach
             /\ \A k \in 1..Len(G.kids[i]) :
                  IsMemberOf(G, G.kids[i][k]) => G.typeDie[G.kids[i][k]] \in G.reach
  <2>1. i \in Indices /\ Refs(i) \subseteq G.reach
    BY GraphReach
  <2>2. G.dies[i] = debugInfo[i] /\ G.kids[i] = ChildrenOf(i) /\ G.typeDie[i] = TypeDieOf(i)
    BY <2>1, GraphFields
  <2>3. /\ IsSeq(debugInfo[i].childrenOffsets)
        /\ Len(ChildrenOf(i)) = Len(debugInfo[i].childrenOffsets)
        /\ \A k \in 1..Len(ChildrenOf(i)) : ChildrenOf(i)[k] \in IndexOrNone
    BY <2>1, DIEType, ChildrenType DEF IsSeq
  <2>4. ASSUME NEW k \in 1..Len(ChildrenOf(i)), IsMemberOf(G, ChildrenOf(i)[k])
        PROVE  G.typeDie[ChildrenOf(i)[k]] \in G.reach
    <3>1. ChildrenOf(i)[k] \in Indices /\ TypeDieOf(ChildrenOf(i)[k]) # 0 /\ ChildrenOf(i)[k] # 0
      BY <2>3, <2>4, GraphMember DEF IndexOrNone
    <3>2. G.typeDie[ChildrenOf(i)[k]] = TypeDieOf(ChildrenOf(i)[k])
      BY <3>1, GraphFields
    <3>3. TypeDieOf(ChildrenOf(i)[k]) \in Refs(i)
      BY <2>1, <3>1, RefsHave
    <3> QED
      BY <2>1, <3>2, <3>3
  <2>5. TypeDieOf(i) # 0 => TypeDieOf(i) \in G.reach
    BY <2>1, RefsHave
  <2> HIDE DEF G
  <2> QED
    BY <2>2, <2>3, <2>4, <2>5
<1> QED
  BY <1>1, <1>2 DEF GraphOK

\* The meaning of a DIE, as far as what the reader makes of it is concerned.
MeaningOK(G, i) ==
  /\ G.dies[i].tag = "typedef" => G.meaning[i] = IF G.typeDie[i] = 0 THEN {} ELSE G.meaning[G.typeDie[i]]
  /\ G.dies[i].tag = "base_type" =>
       G.meaning[i] = IF G.dies[i].byteSize = Absent THEN {} ELSE {BaseType(G.dies[i].byteSize)}
  /\ G.dies[i].tag = "pointer_type" => G.meaning[i] = {PointerType}
  /\ G.dies[i].tag = "array_type" =>
       /\ G.meaning[i] # {} => /\ G.typeDie[i] # 0 /\ G.meaning[G.typeDie[i]] # {}
                               /\ G.kids[i] # << >> /\ CountsElements(G, G.kids[i][1])
       /\ G.typeDie[i] # 0 /\ Len(G.kids[i]) = 1 /\ CountsElements(G, G.kids[i][1]) =>
            \A t \in G.meaning[G.typeDie[i]] : ArrayType(t, G.dies[G.kids[i][1]].count) \in G.meaning[i]
  /\ G.dies[i].tag \in Compounds =>
       /\ G.meaning[i] # {} => /\ G.dies[i].byteSize # Absent
                               /\ \A k \in 1..Len(G.kids[i]) : IsMemberOf(G, G.kids[i][k])
       /\ G.dies[i].byteSize # Absent /\ (\A k \in 1..Len(G.kids[i]) : IsMemberOf(G, G.kids[i][k])) =>
            \A l : /\ IsSeq(l) /\ Len(l) = Len(G.kids[i])
                   /\ \A k \in 1..Len(l) : /\ l[k] = [type |-> l[k].type, at |-> G.dies[G.kids[i][k]].location]
                                           /\ l[k].type \in G.meaning[G.typeDie[G.kids[i][k]]]
                   => \A ms \in Sorted(l) : StructType(G.dies[i].byteSize, ms) \in G.meaning[i]
  /\ G.dies[i].tag \notin {"typedef", "base_type", "array_type", "pointer_type"} \cup Compounds => G.meaning[i] = {}

LEMMA ArrayMeaning ==
  ASSUME InfoOK, NEW i \in Indices, debugInfo[i].tag = "array_type",
         NEW c, c = ChildrenOf(i)
  PROVE  /\ Meaning[i] # {} => /\ TypeDieOf(i) # 0 /\ Meaning[TypeDieOf(i)] # {}
                               /\ c # << >> /\ c[1] # 0 /\ debugInfo[c[1]].tag = "subrange_type"
                               /\ debugInfo[c[1]].count # Absent
         /\ TypeDieOf(i) # 0 /\ Len(c) = 1 /\ c[1] # 0 /\ debugInfo[c[1]].tag = "subrange_type"
            /\ debugInfo[c[1]].count # Absent =>
              \A t \in Meaning[TypeDieOf(i)] : ArrayType(t, debugInfo[c[1]].count) \in Meaning[i]
<1>1. Meaning[i] = MeaningOf(Meaning, i)
  BY MeaningUnfolds
<1>2. Len(c) \in Nat /\ ((c = << >>) <=> Len(c) = 0)
  BY ChildrenType
<1>3. ASSUME Meaning[i] # {}
      PROVE  /\ TypeDieOf(i) # 0 /\ Meaning[TypeDieOf(i)] # {}
             /\ c # << >> /\ c[1] # 0 /\ debugInfo[c[1]].tag = "subrange_type"
             /\ debugInfo[c[1]].count # Absent
  <2>1. TypeDieOf(i) # 0 /\ SubrangesOK(i)
    BY <1>1, <1>3, MeaningByTag
  <2>2. Meaning[i] = ArraysOf(Meaning, i)
    BY <1>1, <2>1, MeaningByTag
  <2>3. Meaning[TypeDieOf(i)] # {}
    BY <1>3, <2>2 DEF ArraysOf
  <2>4. c # << >> /\ \A k \in 1..Len(c) : /\ c[k] # 0 /\ debugInfo[c[k]].tag = "subrange_type"
                                          /\ debugInfo[c[k]].count # Absent
    BY <2>1, Zenon DEF SubrangesOK
  <2>5. 1 \in 1..Len(c)
    BY <1>2, <2>4
  <2> QED
    BY <2>1, <2>3, <2>4, <2>5
<1>4. ASSUME TypeDieOf(i) # 0, Len(c) = 1, c[1] # 0, debugInfo[c[1]].tag = "subrange_type",
             debugInfo[c[1]].count # Absent, NEW t \in Meaning[TypeDieOf(i)]
      PROVE  ArrayType(t, debugInfo[c[1]].count) \in Meaning[i]
  <2>1. \A k \in 1..Len(c) : /\ c[k] # 0 /\ debugInfo[c[k]].tag = "subrange_type"
                             /\ debugInfo[c[k]].count # Absent
    <3>1. \A k \in 1..Len(c) : k = 1
      BY <1>4
    <3> QED
      BY <1>4, <3>1
  <2>2. c # << >>
    BY <1>2, <1>4
  <2>3. SubrangesOK(i)
    BY <2>1, <2>2, Zenon DEF SubrangesOK
  <2>4. Meaning[i] = ArraysOf(Meaning, i)
    BY <1>1, <1>4, <2>3, MeaningByTag
  <2>5. NumElements(i) = debugInfo[c[1]].count
    BY <1>4, OneDimension
  <2> QED
    BY <1>4, <2>4, <2>5 DEF ArraysOf
<1> QED
  BY <1>3, <1>4

LEMMA StructMeaning ==
  ASSUME InfoOK, NEW i \in Indices, debugInfo[i].tag \in Compounds, NEW c, c = ChildrenOf(i)
  PROVE  /\ Meaning[i] # {} =>
              /\ debugInfo[i].byteSize # Absent
              /\ \A k \in 1..Len(c) : /\ c[k] # 0 /\ debugInfo[c[k]].tag = "member"
                                      /\ debugInfo[c[k]].location # Absent /\ TypeDieOf(c[k]) # 0
         /\ /\ debugInfo[i].byteSize # Absent
            /\ \A k \in 1..Len(c) : /\ c[k] # 0 /\ debugInfo[c[k]].tag = "member"
                                    /\ debugInfo[c[k]].location # Absent /\ TypeDieOf(c[k]) # 0
            => \A l : /\ IsSeq(l) /\ Len(l) = Len(c)
                      /\ \A k \in 1..Len(l) : /\ l[k] = [type |-> l[k].type, at |-> debugInfo[c[k]].location]
                                              /\ l[k].type \in Meaning[TypeDieOf(c[k])]
                      => \A ms \in Sorted(l) : StructType(debugInfo[i].byteSize, ms) \in Meaning[i]
<1>1. Meaning[i] = MeaningOf(Meaning, i)
  BY MeaningUnfolds
<1>2. MembersOK(i) <=> \A k \in 1..Len(c) : /\ c[k] # 0 /\ debugInfo[c[k]].tag = "member"
                                            /\ debugInfo[c[k]].location # Absent /\ TypeDieOf(c[k]) # 0
  BY Zenon DEF MembersOK, MemberDIE
<1>3. ASSUME Meaning[i] # {} PROVE debugInfo[i].byteSize # Absent /\ MembersOK(i)
  BY <1>1, <1>3, MeaningByTag
<1>4. ASSUME debugInfo[i].byteSize # Absent, MembersOK(i),
             NEW l, IsSeq(l), Len(l) = Len(c),
             \A k \in 1..Len(l) : /\ l[k] = [type |-> l[k].type, at |-> debugInfo[c[k]].location]
                                  /\ l[k].type \in Meaning[TypeDieOf(c[k])],
             NEW ms \in Sorted(l)
      PROVE  StructType(debugInfo[i].byteSize, ms) \in Meaning[i]
  <2>1. Meaning[i] = {StructType(debugInfo[i].byteSize, ns) : ns \in UNION {Sorted(x) : x \in MemberLists(Meaning, i)}}
    BY <1>1, <1>4, MeaningByTag, StructsUnfold
  <2> DEFINE T(k) == Meaning[TypeDieOf(c[k])]
             P(k) == debugInfo[c[k]].location
  <2>2. l \in MemberLists(Meaning, i)
    <3>1. PICK X : l \in Seq(X)
      BY <1>4 DEF IsSeq
    <3>2. l = [k \in 1..Len(c) |-> l[k]]
      BY <1>4, <3>1
    <3>3. \A k \in 1..Len(c) : l[k] = [type |-> l[k].type, at |-> P(k)] /\ l[k].type \in T(k)
      BY <1>4
    <3>4. MemberLists(Meaning, i) =
            {x \in [1..Len(c) -> [type: UNION {T(k) : k \in 1..Len(c)}, at: {P(k) : k \in 1..Len(c)}]] :
               \A k \in 1..Len(c) : x[k].type \in T(k) /\ x[k].at = P(k)}
      BY DEF MemberLists
    <3> DEFINE K == 1..Len(c)
               R == [type: UNION {T(k) : k \in K}, at: {P(k) : k \in K}]
    <3> HIDE DEF T, P, K
    <3>5. ASSUME NEW k \in K PROVE l[k] \in R /\ l[k].type \in T(k) /\ l[k].at = P(k)
      <4>1. l[k] = [type |-> l[k].type, at |-> P(k)] /\ l[k].type \in T(k)
        BY <3>3 DEF K
      <4>2. l[k].at = P(k)
        BY <4>1
      <4> QED
        BY <4>1, <4>2
    <3> HIDE DEF R
    <3>6. l \in [K -> R]
      BY <3>2, <3>5 DEF K
    <3> QED
      BY <3>4, <3>5, <3>6 DEF K, R
  <2> QED
    BY <2>1, <2>2
<1> QED
  BY <1>2, <1>3, <1>4

LEMMA MeaningIsOK == ASSUME InfoOK, NEW i \in TypeGraph.reach PROVE MeaningOK(TypeGraph, i)
<1> DEFINE G == TypeGraph
           c == ChildrenOf(i)
<1>1. i \in Indices
  BY GraphReach
<1>2. /\ G.dies = debugInfo /\ G.meaning = Meaning /\ G.kids[i] = c /\ G.typeDie[i] = TypeDieOf(i)
      /\ \A j \in Indices : G.typeDie[j] = TypeDieOf(j)
  BY <1>1, GraphFields
<1>3. /\ Meaning[i] = MeaningOf(Meaning, i)
      /\ Len(c) \in Nat /\ ((c = << >>) <=> Len(c) = 0) /\ \A k \in 1..Len(c) : c[k] \in IndexOrNone
  BY <1>1, MeaningUnfolds, ChildrenType
<1>4. \A k \in 1..Len(c) : IsMemberOf(G, c[k]) <=> /\ c[k] # 0 /\ debugInfo[c[k]].tag = "member"
                                                   /\ debugInfo[c[k]].location # Absent /\ TypeDieOf(c[k]) # 0
  BY <1>3, GraphMember
<1>5. \A k \in 1..Len(c) : c[k] # 0 => G.typeDie[c[k]] = TypeDieOf(c[k])
  BY <1>2, <1>3 DEF IndexOrNone
<1>6. ASSUME G.dies[i].tag = "array_type"
      PROVE  /\ G.meaning[i] # {} => /\ G.typeDie[i] # 0 /\ G.meaning[G.typeDie[i]] # {}
                                     /\ G.kids[i] # << >> /\ CountsElements(G, G.kids[i][1])
             /\ G.typeDie[i] # 0 /\ Len(G.kids[i]) = 1 /\ CountsElements(G, G.kids[i][1]) =>
                  \A t \in G.meaning[G.typeDie[i]] : ArrayType(t, G.dies[G.kids[i][1]].count) \in G.meaning[i]
  <2>1. debugInfo[i].tag = "array_type"
    BY <1>2, <1>6
  <2> HIDE DEF c, G
  <2>2. CountsElements(G, c[1]) <=> c[1] # 0 /\ debugInfo[c[1]].tag = "subrange_type" /\ debugInfo[c[1]].count # Absent
    BY <1>2 DEF CountsElements
  <2>3. c = ChildrenOf(i)
    BY DEF c
  <2>4. /\ Meaning[i] # {} => /\ TypeDieOf(i) # 0 /\ Meaning[TypeDieOf(i)] # {}
                              /\ c # << >> /\ CountsElements(G, c[1])
        /\ TypeDieOf(i) # 0 /\ Len(c) = 1 /\ CountsElements(G, c[1]) =>
             \A t \in Meaning[TypeDieOf(i)] : ArrayType(t, debugInfo[c[1]].count) \in Meaning[i]
    BY <1>1, <2>1, <2>2, <2>3, ArrayMeaning
  <2> QED
    BY <1>2, <2>4
<1>7. ASSUME G.dies[i].tag \in Compounds
      PROVE  /\ G.meaning[i] # {} => /\ G.dies[i].byteSize # Absent
                                     /\ \A k \in 1..Len(G.kids[i]) : IsMemberOf(G, G.kids[i][k])
             /\ G.dies[i].byteSize # Absent /\ (\A k \in 1..Len(G.kids[i]) : IsMemberOf(G, G.kids[i][k])) =>
                  \A l : /\ IsSeq(l) /\ Len(l) = Len(G.kids[i])
                         /\ \A k \in 1..Len(l) : /\ l[k] = [type |-> l[k].type, at |-> G.dies[G.kids[i][k]].location]
                                                 /\ l[k].type \in G.meaning[G.typeDie[G.kids[i][k]]]
                         => \A ms \in Sorted(l) : StructType(G.dies[i].byteSize, ms) \in G.meaning[i]
  <2>1. debugInfo[i].tag \in Compounds
    BY <1>2, <1>7
  <2>2. c = ChildrenOf(i)
    BY DEF c
  <2> HIDE DEF c, G
  <2>3. Meaning[i] # {} => /\ debugInfo[i].byteSize # Absent
                           /\ \A k \in 1..Len(c) : IsMemberOf(G, c[k])
    BY <1>1, <1>4, <2>1, <2>2, StructMeaning
  <2>4. ASSUME debugInfo[i].byteSize # Absent, \A k \in 1..Len(c) : IsMemberOf(G, c[k]),
               NEW l, IsSeq(l), Len(l) = Len(c),
               \A k \in 1..Len(l) : /\ l[k] = [type |-> l[k].type, at |-> debugInfo[c[k]].location]
                                    /\ l[k].type \in Meaning[G.typeDie[c[k]]],
               NEW ms \in Sorted(l)
        PROVE  StructType(debugInfo[i].byteSize, ms) \in Meaning[i]
    <3>1. \A k \in 1..Len(c) : c[k] # 0 /\ G.typeDie[c[k]] = TypeDieOf(c[k])
      BY <1>4, <1>5, <2>4
    <3>2. \A k \in 1..Len(l) : /\ l[k] = [type |-> l[k].type, at |-> debugInfo[c[k]].location]
                               /\ l[k].type \in Meaning[TypeDieOf(c[k])]
      BY <2>4, <3>1
    <3>3. \A k \in 1..Len(c) : /\ c[k] # 0 /\ debugInfo[c[k]].tag = "member"
                               /\ debugInfo[c[k]].location # Absent /\ TypeDieOf(c[k]) # 0
      BY <1>4, <2>4
    <3> QED
      BY <1>1, <2>1, <2>2, <2>4, <3>2, <3>3, StructMeaning
  <2> QED
    BY <1>2, <2>3, <2>4
<1>8. G.dies[i].tag = "typedef" => G.meaning[i] = IF G.typeDie[i] = 0 THEN {} ELSE G.meaning[G.typeDie[i]]
  BY <1>2, <1>3, MeaningByTag
<1>9. G.dies[i].tag = "base_type" =>
        G.meaning[i] = IF G.dies[i].byteSize = Absent THEN {} ELSE {BaseType(G.dies[i].byteSize)}
  BY <1>2, <1>3, MeaningByTag
<1>10. G.dies[i].tag = "pointer_type" => G.meaning[i] = {PointerType}
  BY <1>2, <1>3, MeaningByTag
<1>11. G.dies[i].tag \notin {"typedef", "base_type", "array_type", "pointer_type"} \cup Compounds => G.meaning[i] = {}
  BY <1>2, <1>3, MeaningByTag
<1> HIDE DEF G, c
<1>12. MeaningOK(G, i)
  BY <1>6, <1>7, <1>8, <1>9, <1>10, <1>11 DEF MeaningOK
<1> QED
  BY <1>12 DEF G

\* What KnownTypeRight asks for is what the proof takes from it.
LEMMA KnownGraph ==
  ASSUME InfoOK, VariableType # 0, MembersKnown(VariableType)
  PROVE  Known(TypeGraph)
<1> DEFINE G == TypeGraph
<1>1. G.reach = Reachable(VariableType) /\ G.dies = debugInfo /\ G.meaning = Meaning
  BY GraphFields
<1>2. ASSUME NEW j \in G.reach
      PROVE  /\ G.dies[j].tag = "array_type" => Len(G.kids[j]) <= 1
             /\ G.dies[j].tag \in Compounds =>
                  \A k \in 1..Len(G.kids[j]) :
                    IsMemberOf(G, G.kids[j][k]) => G.meaning[G.typeDie[G.kids[j][k]]] # {}
  <2>1. j \in Indices /\ j \in Reachable(VariableType)
    BY <1>1, <1>2, GraphReach
  <2>2. /\ debugInfo[j].tag = "array_type" => Len(debugInfo[j].childrenOffsets) <= 1
        /\ debugInfo[j].tag \in Compounds =>
             \A k \in 1..Len(ChildrenOf(j)) : \A t \in Refs(ChildrenOf(j)[k]) : Meaning[t] # {}
    BY <2>1 DEF MembersKnown
  <2>3. /\ G.kids[j] = ChildrenOf(j) /\ Len(ChildrenOf(j)) = Len(debugInfo[j].childrenOffsets)
        /\ \A k \in 1..Len(ChildrenOf(j)) : ChildrenOf(j)[k] \in IndexOrNone
    BY <2>1, GraphFields, ChildrenType
  <2>4. ASSUME debugInfo[j].tag \in Compounds, NEW k \in 1..Len(ChildrenOf(j)), IsMemberOf(G, ChildrenOf(j)[k])
        PROVE  Meaning[G.typeDie[ChildrenOf(j)[k]]] # {}
    <3>1. ChildrenOf(j)[k] \in Indices /\ TypeDieOf(ChildrenOf(j)[k]) # 0
      BY <2>3, <2>4, GraphMember DEF IndexOrNone
    <3>2. G.typeDie[ChildrenOf(j)[k]] = TypeDieOf(ChildrenOf(j)[k])
      BY <3>1, GraphFields
    <3>3. TypeDieOf(ChildrenOf(j)[k]) \in Refs(ChildrenOf(j)[k])
      BY <2>1, <3>1, RefsHave
    <3> QED
      BY <2>2, <2>4, <3>2, <3>3
  <2> HIDE DEF G
  <2> QED
    BY <1>1, <2>2, <2>3, <2>4
<1> HIDE DEF G
<1>3. Known(G)
  BY <1>2 DEF Known
<1> QED
  BY <1>3 DEF G

\* So with what CompleteTypeResolved asks for.
LEMMA CompleteGraph ==
  ASSUME InfoOK, VariableType # 0, ~Recursive(VariableType), Len(debugInfo) <= StackLimit,
         \A j \in Reachable(VariableType) : /\ Meaning[j] # {}
                                            /\ debugInfo[j].tag = "pointer_type" => TypeDieOf(j) # 0
  PROVE  Complete(TypeGraph)
<1> DEFINE G == TypeGraph
<1>1. G.reach = Reachable(VariableType) /\ G.dies = debugInfo /\ G.meaning = Meaning /\ G.within = Within(VariableType)
  BY GraphFields
<1>2. G.within[Len(G.dies)] = {} /\ Len(G.dies) <= StackLimit
  BY <1>1 DEF Recursive
<1>3. \A j \in G.reach : G.typeDie[j] = TypeDieOf(j)
  BY GraphReach, GraphFields
<1>4. \A j \in G.reach : G.meaning[j] # {} /\ (G.dies[j].tag = "pointer_type" => G.typeDie[j] # 0)
  BY <1>1, <1>3
<1> HIDE DEF G
<1>5. Complete(G)
  BY <1>2, <1>4 DEF Complete, Acyclic
<1> QED
  BY <1>5 DEF G

\* Without recursion no DIE is further away than there are DIEs, and one that is
\* referred to is further away than the one that refers to it.
DepthOK(G) ==
  Acyclic(G) =>
    /\ G.var # 0 => Deep(G, G.var, 0)
    /\ \A i \in G.reach, n \in Nat :
         Deep(G, i, n) =>
           /\ n < Len(G.dies)
           /\ G.typeDie[i] # 0 => Deep(G, G.typeDie[i], n + 1)
           /\ \A k \in 1..Len(G.kids[i]) :
                IsMemberOf(G, G.kids[i][k]) => Deep(G, G.typeDie[G.kids[i][k]], n + 1)

LEMMA DepthIsOK == ASSUME InfoOK PROVE DepthOK(TypeGraph)
<1> DEFINE G == TypeGraph
           N == Len(debugInfo)
<1>1. ASSUME Acyclic(G), G.var # 0 PROVE Deep(G, G.var, 0)
  <2>1. VariableType # 0 /\ G.var = VariableType /\ G.within = Within(VariableType) /\ G.dies = debugInfo
    BY <1>1, GraphFields
  <2>2. VariableType \in Indices
    BY <2>1, VariableTypeType DEF IndexOrNone
  <2>3. N \in Nat /\ Within(VariableType)[0] = {VariableType}
    BY <2>2, WithinUnfolds
  <2>4. 0 \in 0..N /\ 0 <= 0 /\ VariableType \in Within(VariableType)[0]
    BY <2>3
  <2> QED
    BY <2>1, <2>4 DEF Deep
<1>2. ASSUME Acyclic(G), NEW i \in G.reach, NEW n \in Nat, Deep(G, i, n)
      PROVE  n < Len(G.dies) /\ \A t \in Refs(i) : Deep(G, t, n + 1)
  <2>1. VariableType # 0 /\ i \in Indices
    BY GraphReach
  <2>2. G.within = Within(VariableType) /\ G.dies = debugInfo
    BY <2>1, GraphFields
  <2>3. VariableType \in Indices
    BY <2>1, VariableTypeType DEF IndexOrNone
  <2> DEFINE w == Within(VariableType)
  <2>4. N \in Nat /\ \A m \in 1..N : w[m] = UNION {Refs(j) : j \in w[m - 1]}
    BY <2>3, WithinUnfolds
  <2>5. w[N] = {}
    BY <1>2, <2>2 DEF Acyclic
  <2> HIDE DEF w, N
  <2>6. PICK m \in 0..N : n <= m /\ i \in w[m]
    BY <1>2, <2>2 DEF Deep, w, N
  <2>7. m + 1 \in 1..N /\ m + 1 \in 0..N /\ (m + 1) - 1 = m /\ n + 1 <= m + 1 /\ n < N
    BY <2>4, <2>5, <2>6
  <2>8. w[m + 1] = UNION {Refs(j) : j \in w[m]}
    BY <2>4, <2>7
  <2>9. ASSUME NEW t \in Refs(i) PROVE Deep(G, t, n + 1)
    <3>1. t \in w[m + 1]
      BY <2>6, <2>8
    <3> QED
      BY <2>2, <2>7, <3>1 DEF Deep, w, N
  <2> QED
    BY <2>2, <2>7, <2>9 DEF N
<1>3. ASSUME NEW i \in G.reach
      PROVE  /\ G.typeDie[i] # 0 => G.typeDie[i] \in Refs(i)
             /\ \A k \in 1..Len(G.kids[i]) : IsMemberOf(G, G.kids[i][k]) => G.typeDie[G.kids[i][k]] \in Refs(i)
  <2>1. i \in Indices
    BY GraphReach
  <2>2. G.typeDie[i] = TypeDieOf(i) /\ G.kids[i] = ChildrenOf(i)
    BY <2>1, GraphFields
  <2>3. ASSUME NEW k \in 1..Len(ChildrenOf(i)), IsMemberOf(G, ChildrenOf(i)[k])
        PROVE  G.typeDie[ChildrenOf(i)[k]] \in Refs(i)
    <3>1. ChildrenOf(i)[k] \in Indices /\ ChildrenOf(i)[k] # 0 /\ TypeDieOf(ChildrenOf(i)[k]) # 0
      BY <2>1, <2>3, ChildrenType, GraphMember DEF IndexOrNone
    <3>2. G.typeDie[ChildrenOf(i)[k]] = TypeDieOf(ChildrenOf(i)[k])
      BY <3>1, GraphFields
    <3> QED
      BY <2>1, <3>1, <3>2, RefsHave
  <2> QED
    BY <2>1, <2>2, <2>3, RefsHave
<1> HIDE DEF G
<1>4. DepthOK(G)
  BY <1>1, <1>2, <1>3 DEF DepthOK
<1> QED
  BY <1>4 DEF G

\* The DIEs that are doomed, as far as the calls for others are concerned.
DoomOK(G, i) ==
  /\ G.dies[i].tag \in {"typedef", "pointer_type"} =>
       IF G.typeDie[i] = 0 THEN G.var \in G.doomed ELSE Spares(G, G.typeDie[i], i)
  /\ G.dies[i].tag = "base_type" => i \notin G.doomed
  /\ G.dies[i].tag = "array_type" =>
       IF G.typeDie[i] = 0 THEN i \notin G.doomed
       ELSE /\ Spares(G, G.typeDie[i], i)
            /\ G.kids[i] # << >> /\ (G.kids[i][1] # 0 => G.dies[G.kids[i][1]].tag = "subrange_type")
  /\ G.dies[i].tag \in Compounds =>
       /\ G.dies[i].byteSize = Absent => i \notin G.doomed
       /\ \A n \in 0..Len(G.kids[i]) :
            /\ \A k \in 1..n : G.typeDie[G.kids[i][k]] \notin G.doomed
            /\ n < Len(G.kids[i]) => ~IsMemberOf(G, G.kids[i][n + 1])
            => i \notin G.doomed
  /\ G.dies[i].tag \notin {"typedef", "base_type", "array_type", "pointer_type"} \cup Compounds =>
       G.var \in G.doomed

LEMMA DoomIsOK ==
  ASSUME InfoOK, TypeGraph.orderly, NEW i \in TypeGraph.reach
  PROVE  DoomOK(TypeGraph, i)
<1> DEFINE G == TypeGraph
           c == ChildrenOf(i)
<1>1. /\ VariableType # 0 /\ i \in Indices /\ Refs(i) \subseteq Indices
      /\ G.reach = Reachable(VariableType) /\ Orderly(VariableType)
  BY GraphReach, GraphFields, RefsType
<1>2. VariableType \in Indices
  BY <1>1, VariableTypeType DEF IndexOrNone
<1>3. /\ \A t \in Refs(i) \ Asked(i) : ~Doomed(t)
      /\ debugInfo[i].tag = "array_type" /\ TypeDieOf(i) # 0 =>
           c # << >> /\ (c[1] # 0 => debugInfo[c[1]].tag = "subrange_type")
  BY <1>1, Zenon DEF Orderly
<1>4. /\ G.dies = debugInfo /\ G.kids[i] = c /\ G.typeDie[i] = TypeDieOf(i) /\ G.var = VariableType
      /\ \A j \in Indices : (j \in G.doomed <=> Doomed(j)) /\ G.typeDie[j] = TypeDieOf(j)
  BY <1>1, GraphFields
<1>5. Fatal(i) => G.var \in G.doomed
  BY <1>1, <1>2, <1>4 DEF Doomed
<1>6. ASSUME ~Fatal(i), \A t \in Asked(i) : ~Doomed(t) PROVE i \notin G.doomed
  <2>1. \A t \in Refs(i) : ~Doomed(t)
    BY <1>3, <1>6
  <2>2. ~Doomed(i)
    BY <1>1, <1>6, <2>1, DoomComesFromBelow
  <2> QED
    BY <1>1, <1>4, <2>2
<1>7. TypeDieOf(i) \in IndexOrNone
  BY TypeDieType
<1>8. /\ Len(c) \in Nat
      /\ \A k \in 1..Len(c) : c[k] \in IndexOrNone /\ (IsMemberOf(G, c[k]) <=> MemberDIE(c[k]))
  BY <1>1, ChildrenType, GraphMember DEF MemberDIE
<1> DEFINE tag == debugInfo[i].tag
           Others == {"typedef", "base_type", "array_type", "pointer_type"} \cup Compounds
<1>9. ASSUME tag \in {"typedef", "pointer_type"} PROVE DoomOK(G, i)
  <2>1. TypeDieOf(i) = 0 => Fatal(i)
    BY <1>9 DEF Fatal
  <2>2. ~(tag \in Compounds) /\ tag \notin {"base_type", "array_type"} /\ tag \in Others
    BY <1>9 DEF Compounds
  <2>3. ASSUME TypeDieOf(i) # 0, TypeDieOf(i) \notin G.doomed PROVE i \notin G.doomed
    <3>1. Asked(i) = {TypeDieOf(i)}
      BY <1>9, <2>3 DEF Asked
    <3>2. ~Doomed(TypeDieOf(i))
      BY <1>4, <1>7, <2>3 DEF IndexOrNone
    <3>3. ~Fatal(i)
      BY <2>2, <2>3 DEF Fatal
    <3> QED
      BY <1>6, <3>1, <3>2, <3>3
  <2> HIDE DEF G
  <2> QED
    BY <1>4, <1>5, <2>1, <2>2, <2>3 DEF DoomOK, Spares
<1>10. ASSUME tag = "base_type" PROVE DoomOK(G, i)
  <2>1. Asked(i) = {} /\ ~Fatal(i)
    BY <1>10 DEF Asked, Fatal, Compounds
  <2>2. i \notin G.doomed
    BY <1>6, <2>1
  <2> HIDE DEF G
  <2> QED
    BY <1>4, <1>10, <2>2 DEF DoomOK, Compounds
<1>11. ASSUME tag = "array_type" PROVE DoomOK(G, i)
  <2>1. Asked(i) = {TypeDieOf(i)} \ {0} /\ ~Fatal(i)
    BY <1>11 DEF Asked, Fatal, Compounds
  <2>2. TypeDieOf(i) = 0 => i \notin G.doomed
    BY <1>6, <2>1
  <2>3. ASSUME TypeDieOf(i) # 0, TypeDieOf(i) \notin G.doomed PROVE i \notin G.doomed
    <3>1. ~Doomed(TypeDieOf(i))
      BY <1>4, <1>7, <2>3 DEF IndexOrNone
    <3> QED
      BY <1>6, <2>1, <3>1
  <2> HIDE DEF G, c
  <2> QED
    BY <1>3, <1>4, <1>11, <2>2, <2>3 DEF DoomOK, Spares, Compounds
<1>12. ASSUME tag \in Compounds PROVE DoomOK(G, i)
  <2>1. ~Fatal(i) /\ tag \notin {"typedef", "base_type", "array_type", "pointer_type"}
    BY <1>12 DEF Fatal, Compounds
  <2>2. ASSUME debugInfo[i].byteSize = Absent PROVE i \notin G.doomed
    <3>1. Asked(i) = {}
      BY <1>12, <2>1, <2>2 DEF Asked
    <3> QED
      BY <1>6, <2>1, <3>1
  <2>3. ASSUME NEW n \in 0..Len(c), \A k \in 1..n : G.typeDie[c[k]] \notin G.doomed,
               n < Len(c) => ~IsMemberOf(G, c[n + 1])
        PROVE  i \notin G.doomed
    <3>1. ASSUME NEW t \in Asked(i) PROVE ~Doomed(t)
      <4>1. PICK k \in 1..Len(c) : t = TypeDieOf(c[k]) /\ \A m \in 1..k : MemberDIE(c[m])
        BY <1>12, <2>1, <3>1 DEF Asked
      <4>2. k \in 1..n
        <5> SUFFICES ASSUME k > n PROVE FALSE
          BY <4>1, <1>8
        <5>1. n < Len(c) /\ n + 1 \in 1..k /\ n + 1 \in 1..Len(c)
          BY <1>8
        <5> HIDE DEF G, c
        <5> QED
          BY <1>8, <2>3, <4>1, <5>1
      <4>3. k \in 1..k /\ c[k] \in IndexOrNone
        BY <1>8
      <4>4. c[k] \in Indices /\ t # 0
        BY <4>1, <4>3 DEF MemberDIE, IndexOrNone
      <4>5. t \in Indices
        BY <4>1, <4>4, TypeDieType DEF IndexOrNone
      <4>6. t \notin G.doomed
        BY <1>4, <2>3, <4>1, <4>2, <4>4
      <4> QED
        BY <1>4, <4>5, <4>6
    <3> QED
      BY <1>6, <2>1, <3>1
  <2> HIDE DEF G, c
  <2> QED
    BY <1>4, <1>12, <2>1, <2>2, <2>3 DEF DoomOK
<1>13. ASSUME tag \notin Others PROVE DoomOK(G, i)
  <2>1. Fatal(i)
    BY <1>13 DEF Fatal
  <2> HIDE DEF G
  <2> QED
    BY <1>4, <1>5, <1>13, <2>1 DEF DoomOK, Compounds
<1> HIDE DEF G
<1>14. DoomOK(G, i)
  BY <1>9, <1>10, <1>11, <1>12, <1>13
<1> QED
  BY <1>14 DEF G

------------------------------------------------------------------------------
(* What a step does to the stack *)

\* What the steps take from the DIEs.
FactsOK(G) ==
  /\ GraphOK(G) /\ DepthOK(G)
  /\ \A i \in G.reach : MeaningOK(G, i) /\ (G.orderly => DoomOK(G, i))

LEMMA FactsAreOK == ASSUME InfoOK PROVE FactsOK(TypeGraph)
  BY GraphIsOK, DepthIsOK, MeaningIsOK, DoomIsOK DEF FactsOK

\* The lengths in a frame, and the child that comes next.
LEMMA NextChild ==
  ASSUME NEW G, GraphOK(G), NEW f, FrameOK(G, f)
  PROVE  /\ Len(f.members) \in Nat /\ Len(f.children) \in Nat /\ Len(G.kids[f.die]) \in Nat
         /\ Len(f.members) + Len(f.children) = Len(G.kids[f.die])
         /\ (f.children = << >>) <=> Len(f.children) = 0
         /\ f.children # << >> => /\ Len(f.members) + 1 \in 1..Len(G.kids[f.die])
                                  /\ f.children[1] = G.dies[f.die].childrenOffsets[Len(f.members) + 1]
<1>1. Len(f.members) \in Nat /\ Len(f.children) \in Nat /\ ((f.children = << >>) <=> Len(f.children) = 0)
  BY SeqLength DEF FrameOK
<1>2. Len(f.members) + Len(f.children) = Len(G.kids[f.die])
  BY DEF FrameOK
<1>3. f.children # << >> => 1 \in 1..Len(f.children)
  BY <1>1
<1>4. f.children # << >> => f.children[1] = G.dies[f.die].childrenOffsets[Len(f.members) + 1]
  BY <1>3 DEF FrameOK
<1> DEFINE m == Len(f.members)
           c == Len(f.children)
           n == Len(G.kids[f.die])
<1>5. m \in Nat /\ c \in Nat /\ m + c = n
  BY <1>1, <1>2
<1> HIDE DEF m, c, n
<1>6. n \in Nat /\ (c # 0 => m + 1 \in 1..n)
  BY <1>5
<1> QED
  BY <1>1, <1>2, <1>4, <1>6 DEF m, c, n

\* What is waited for is reached, and further away.
LEMMA AwaitedReached ==
  ASSUME NEW G, FactsOK(G), NEW f, FrameOK(G, f), Awaiting(G, f)
  PROVE  /\ Awaited(G, f) \in G.reach
         /\ \A n \in Nat : Acyclic(G) /\ Deep(G, f.die, n) => Deep(G, Awaited(G, f), n + 1)
<1>1. GraphOK(G) /\ DepthOK(G) /\ f.die \in G.reach
  BY DEF FactsOK, FrameOK
<1>2. CASE f.fn = "struct"
  <2>1. /\ Len(f.members) + 1 \in 1..Len(G.kids[f.die])
        /\ IsMemberOf(G, G.kids[f.die][Len(f.members) + 1])
    BY <1>1, <1>2, NextChild DEF Awaiting
  <2>2. Awaited(G, f) = G.typeDie[G.kids[f.die][Len(f.members) + 1]]
    BY <1>2 DEF Awaited
  <2> DEFINE k == Len(f.members) + 1
  <2>3. k \in 1..Len(G.kids[f.die]) /\ IsMemberOf(G, G.kids[f.die][k]) /\ Awaited(G, f) = G.typeDie[G.kids[f.die][k]]
    BY <2>1, <2>2
  <2> HIDE DEF k
  <2>4. Awaited(G, f) \in G.reach
    BY <1>1, <2>3 DEF GraphOK
  <2>5. ASSUME NEW n \in Nat, Acyclic(G), Deep(G, f.die, n) PROVE Deep(G, Awaited(G, f), n + 1)
    BY <1>1, <2>3, <2>5 DEF DepthOK
  <2> QED
    BY <2>4, <2>5
<1>3. CASE f.fn # "struct"
  <2>1. G.typeDie[f.die] # 0 /\ Awaited(G, f) = G.typeDie[f.die]
    BY <1>3 DEF FrameOK, Awaited
  <2>2. Awaited(G, f) \in G.reach
    BY <1>1, <2>1 DEF GraphOK
  <2>3. ASSUME NEW n \in Nat, Acyclic(G), Deep(G, f.die, n) PROVE Deep(G, Awaited(G, f), n + 1)
    BY <1>1, <2>1, <2>3 DEF DepthOK
  <2> QED
    BY <2>2, <2>3
<1> QED
  BY <1>2, <1>3

\* A call returns at once.
LEMMA Stay ==
  ASSUME NEW G, NEW a, NEW v, NEW s, CallsOK(G, "getTypeFromTypeDie", a, v, s),
         NEW b, NEW w, Known(G) => Answers(G, w, a), Complete(G) => w # Null, G.orderly => a \notin G.doomed
  PROVE  CallsOK(G, "return", b, w, s)
<1>1. StackOK(G, "return", b, s)
  BY DEF CallsOK, StackOK
<1>2. ASSUME Known(G) PROVE KnownOK(G, "return", b, w, s)
  <2>1. Answers(G, w, a) /\ KnownOK(G, "getTypeFromTypeDie", a, v, s)
    BY <1>2 DEF CallsOK
  <2>2. G.meaning[a] = G.meaning[Goal(G, s)]
    BY <2>1 DEF KnownOK
  <2>3. Answers(G, w, Goal(G, s))
    BY <2>1, <2>2 DEF Answers
  <2> QED
    BY <2>1, <2>3 DEF KnownOK
<1>3. ASSUME Acyclic(G) PROVE DepthsOK(G, "return", b, s)
  BY <1>3 DEF CallsOK, DepthsOK
<1>4. ASSUME Complete(G) PROVE CompleteOK(G, "return", w)
  BY <1>4 DEF CallsOK, CompleteOK
<1>5. ASSUME G.orderly PROVE FateOK(G, "return", b, s)
  BY <1>5 DEF CallsOK, FateOK, Spares
<1> QED
  BY <1>1, <1>2, <1>3, <1>4, <1>5 DEF CallsOK

\* A call goes on with another DIE.
LEMMA GoOn ==
  ASSUME NEW G, NEW a, NEW v, NEW s, CallsOK(G, "getTypeFromTypeDie", a, v, s),
         NEW b \in G.reach, G.meaning[b] = G.meaning[a], Acyclic(G) => Deep(G, b, Len(s)),
         G.orderly => Spares(G, b, a)
  PROVE  CallsOK(G, "getTypeFromTypeDie", b, v, s)
<1>1. StackOK(G, "getTypeFromTypeDie", b, s)
  BY DEF CallsOK, StackOK
<1>2. Known(G) => KnownOK(G, "getTypeFromTypeDie", b, v, s)
  BY DEF CallsOK, KnownOK
<1>3. Acyclic(G) => DepthsOK(G, "getTypeFromTypeDie", b, s)
  BY DEF CallsOK, DepthsOK
<1>4. Complete(G) => CompleteOK(G, "getTypeFromTypeDie", v)
  BY DEF CallsOK
<1>5. G.orderly => FateOK(G, "getTypeFromTypeDie", b, s)
  BY DEF CallsOK, FateOK, Spares
<1> QED
  BY <1>1, <1>2, <1>3, <1>4, <1>5 DEF CallsOK

\* It cannot.
LEMMA Fail ==
  ASSUME NEW G, NEW p, NEW a, NEW v, NEW s, CallsOK(G, p, a, v, s), p \notin {"getVariableType", "done"},
         NEW how \in {"abort", "segv"}, ~Complete(G), G.orderly => G.var \in G.doomed
  PROVE  CallsOK(G, how, a, v, s)
<1>1. StackOK(G, how, a, s)
  BY DEF CallsOK, StackOK
<1>2. Known(G) => KnownOK(G, how, a, v, s)
  BY DEF CallsOK, KnownOK
<1>3. Acyclic(G) => DepthsOK(G, how, a, s)
  BY DEF CallsOK, DepthsOK
<1>4. G.orderly => FateOK(G, how, a, s)
  BY DEF CallsOK, FateOK
<1> QED
  BY <1>1, <1>2, <1>3, <1>4 DEF CallsOK

\* A call waits for another.
LEMMA Enter ==
  ASSUME NEW G, FactsOK(G), NEW a, NEW v, NEW s, CallsOK(G, "getTypeFromTypeDie", a, v, s),
         NEW f, FrameOK(G, f), f.die = a, f.members = << >>, NEW p, NEW b,
         \/ p = "members" /\ f.fn = "struct"
         \/ p = "getTypeFromTypeDie" /\ Awaiting(G, f) /\ b = Awaited(G, f)
  PROVE  CallsOK(G, p, b, v, Append(s, f))
<1> DEFINE t == Append(s, f)
           n == Len(s)
<1>1. /\ n \in Nat /\ IsSeq(t) /\ Len(t) = n + 1 /\ (\A k \in 1..n : t[k] = s[k]) /\ t[n + 1] = f
      /\ (s = << >> <=> n = 0) /\ (t = << >> <=> Len(t) = 0)
  <2>1. IsSeq(s)
    BY DEF CallsOK, StackOK
  <2>2. n \in Nat /\ ((s = << >>) <=> n = 0)
    BY <2>1, SeqLength
  <2>3. Longer(t, s, f)
    BY <2>1, AppendFacts, Zenon
  <2> HIDE DEF t
  <2>4. (t = << >>) <=> Len(t) = 0
    BY <2>3, SeqLength DEF Longer
  <2> QED
    BY <2>2, <2>3, <2>4 DEF Longer
<1>2. n = Len(s)
  OBVIOUS
<1> HIDE DEF t, n
<1>3. \A k \in 1..Len(t) : k \in 1..n \/ k = n + 1
  BY <1>1
<1>4. t # << >> /\ t[Len(t)] = f
  BY <1>1
<1>5. StackOK(G, p, b, t)
  <2>1. \A k \in 1..Len(t) : FrameOK(G, t[k])
    BY <1>1, <1>2, <1>3 DEF CallsOK, StackOK
  <2>2. ASSUME NEW k \in 1..(Len(t) - 1) PROVE Awaiting(G, t[k])
    <3>1. k \in 1..(n - 1) \/ k = n
      BY <1>1
    <3>2. t[k] = s[k] /\ (k = n => s # << >>)
      BY <1>1
    <3> QED
      BY <1>2, <3>1, <3>2 DEF CallsOK, StackOK
  <2>3. p = "getTypeFromTypeDie" => Awaiting(G, f) /\ b \in G.reach
    BY AwaitedReached
  <2>4. G.var # 0
    BY DEF CallsOK, StackOK
  <2> QED
    BY <1>1, <1>4, <2>1, <2>2, <2>3, <2>4 DEF StackOK
<1>6. ASSUME Known(G) PROVE KnownOK(G, p, b, v, t)
  <2>1. KnownOK(G, "getTypeFromTypeDie", a, v, s)
    BY <1>6 DEF CallsOK
  <2>2. Goal(G, t) = Awaited(G, f)
    BY <1>4 DEF Goal
  <2>3. ASSUME NEW k \in 1..Len(t)
        PROVE  /\ G.meaning[t[k].die] = G.meaning[IF k = 1 THEN G.var ELSE Awaited(G, t[k - 1])]
               /\ \A m \in 1..Len(t[k].members) :
                    Answers(G, t[k].members[m].type, G.typeDie[G.kids[t[k].die][m]])
    <3>1. CASE k \in 1..n
      <4>1. t[k] = s[k] /\ (k # 1 => t[k - 1] = s[k - 1])
        BY <1>1, <3>1
      <4> QED
        BY <1>2, <2>1, <3>1, <4>1 DEF KnownOK
    <3>2. CASE k = n + 1
      <4>1. t[k] = f /\ (k = 1 <=> s = << >>) /\ (k # 1 => t[k - 1] = s[n])
        BY <1>1, <3>2
      <4>2. G.meaning[a] = G.meaning[Goal(G, s)]
        BY <2>1 DEF KnownOK
      <4>3. Goal(G, s) = IF k = 1 THEN G.var ELSE Awaited(G, t[k - 1])
        BY <1>2, <4>1 DEF Goal
      <4>4. 1..Len(f.members) = {}
        OBVIOUS
      <4> QED
        BY <4>1, <4>2, <4>3, <4>4
    <3> QED
      BY <1>3, <3>1, <3>2
  <2>4. p = "getTypeFromTypeDie" => b = Goal(G, t)
    BY <2>2
  <2> QED
    BY <2>3, <2>4 DEF KnownOK
<1>7. ASSUME Acyclic(G) PROVE DepthsOK(G, p, b, t)
  <2>1. DepthsOK(G, "getTypeFromTypeDie", a, s)
    BY <1>7 DEF CallsOK
  <2>2. Deep(G, f.die, n)
    BY <1>2, <2>1 DEF DepthsOK
  <2>3. p = "getTypeFromTypeDie" => Deep(G, b, Len(t))
    BY <1>1, <1>7, <2>2, AwaitedReached
  <2>4. ASSUME NEW k \in 1..Len(t) PROVE Deep(G, t[k].die, k - 1)
    <3>1. CASE k \in 1..n
      BY <1>1, <1>2, <2>1, <3>1 DEF DepthsOK
    <3>2. CASE k = n + 1
      <4>1. k - 1 = n /\ t[k] = f
        BY <1>1, <3>2
      <4> QED
        BY <2>2, <4>1
    <3> QED
      BY <1>3, <3>1, <3>2
  <2> QED
    BY <2>3, <2>4 DEF DepthsOK
<1>8. Complete(G) => CompleteOK(G, p, v)
  BY DEF CallsOK, CompleteOK
<1>9. ASSUME G.orderly PROVE FateOK(G, p, b, t)
  <2>1. FateOK(G, "getTypeFromTypeDie", a, s)
    BY <1>9 DEF CallsOK
  <2>2. Goal(G, t) = Awaited(G, f)
    BY <1>4 DEF Goal
  <2>3. ASSUME NEW k \in 1..Len(t)
        PROVE  /\ Spares(G, t[k].die, IF k = 1 THEN G.var ELSE Awaited(G, t[k - 1]))
               /\ \A m \in 1..Len(t[k].members) : G.typeDie[G.kids[t[k].die][m]] \notin G.doomed
    <3>1. CASE k \in 1..n
      <4>1. t[k] = s[k] /\ (k # 1 => t[k - 1] = s[k - 1])
        BY <1>1, <3>1
      <4> QED
        BY <1>2, <2>1, <3>1, <4>1 DEF FateOK
    <3>2. CASE k = n + 1
      <4>1. t[k] = f /\ (k = 1 <=> s = << >>) /\ (k # 1 => t[k - 1] = s[n])
        BY <1>1, <3>2
      <4>2. Spares(G, a, Goal(G, s))
        BY <2>1 DEF FateOK
      <4>3. Goal(G, s) = IF k = 1 THEN G.var ELSE Awaited(G, t[k - 1])
        BY <1>2, <4>1 DEF Goal
      <4>4. 1..Len(f.members) = {}
        OBVIOUS
      <4> QED
        BY <4>1, <4>2, <4>3, <4>4
    <3> QED
      BY <1>3, <3>1, <3>2
  <2>4. p = "getTypeFromTypeDie" => Spares(G, b, Goal(G, t))
    BY <2>2 DEF Spares
  <2> QED
    BY <2>3, <2>4 DEF FateOK
<1>10. CallsOK(G, p, b, v, t)
  BY <1>5, <1>6, <1>7, <1>8, <1>9 DEF CallsOK
<1> QED
  BY <1>10 DEF t

\* A call returns to the one that waits for it.
LEMMA Leave ==
  ASSUME NEW G, FactsOK(G), NEW p \in {"return", "members"}, NEW a, NEW v, NEW s, CallsOK(G, p, a, v, s),
         s # << >>, NEW b, NEW w, Known(G) => Answers(G, w, s[Len(s)].die), Complete(G) => w # Null,
         G.orderly => s[Len(s)].die \notin G.doomed
  PROVE  CallsOK(G, "return", b, w, SubSeq(s, 1, Len(s) - 1))
<1> DEFINE t == SubSeq(s, 1, Len(s) - 1)
           n == Len(s)
<1>1. IsSeq(s)
  BY DEF CallsOK, StackOK
<1>2. /\ n \in Nat \ {0} /\ IsSeq(t) /\ Len(t) = n - 1 /\ (\A k \in 1..(n - 1) : t[k] = s[k])
      /\ ((t = << >>) <=> Len(t) = 0)
  <2>1. Shorter(t, s)
    BY <1>1, ButLastFacts, Zenon
  <2> HIDE DEF t
  <2>2. (t = << >>) <=> Len(t) = 0
    BY <2>1, SeqLength DEF Shorter
  <2> QED
    BY <2>1, <2>2 DEF Shorter
<1>3. n = Len(s)
  OBVIOUS
<1> HIDE DEF t, n
<1>4. \A k \in 1..Len(t) : k \in 1..(n - 1) /\ k \in 1..n /\ t[k] = s[k] /\ (k # 1 => t[k - 1] = s[k - 1])
  BY <1>2
<1>5. t # << >> => Len(t) \in 1..(n - 1) /\ Len(t) = n - 1 /\ t[Len(t)] = s[n - 1] /\ n # 1
  BY <1>2
<1>6. StackOK(G, "return", b, t)
  <2>1. \A k \in 1..Len(t) : FrameOK(G, t[k]) /\ Awaiting(G, t[k])
    BY <1>3, <1>4 DEF CallsOK, StackOK
  <2>2. \A k \in 1..(Len(t) - 1) : k \in 1..Len(t)
    BY <1>2
  <2>3. t # << >> => Awaiting(G, t[Len(t)])
    BY <1>2, <2>1
  <2>4. G.var # 0
    BY DEF CallsOK, StackOK
  <2> QED
    BY <1>2, <2>1, <2>2, <2>3, <2>4 DEF StackOK
<1>7. ASSUME Known(G) PROVE KnownOK(G, "return", b, w, t)
  <2>1. KnownOK(G, p, a, v, s) /\ Answers(G, w, s[n].die)
    BY <1>3, <1>7 DEF CallsOK
  <2>2. n \in 1..n
    BY <1>2
  <2>3. G.meaning[s[n].die] = G.meaning[IF n = 1 THEN G.var ELSE Awaited(G, s[n - 1])]
    BY <1>3, <2>1, <2>2 DEF KnownOK
  <2>4. Goal(G, t) = IF n = 1 THEN G.var ELSE Awaited(G, s[n - 1])
    BY <1>2, <1>5 DEF Goal
  <2>5. Answers(G, w, Goal(G, t))
    BY <2>1, <2>3, <2>4 DEF Answers
  <2>6. ASSUME NEW k \in 1..Len(t)
        PROVE  /\ G.meaning[t[k].die] = G.meaning[IF k = 1 THEN G.var ELSE Awaited(G, t[k - 1])]
               /\ \A m \in 1..Len(t[k].members) :
                    Answers(G, t[k].members[m].type, G.typeDie[G.kids[t[k].die][m]])
    BY <1>3, <1>4, <2>1 DEF KnownOK
  <2> QED
    BY <2>5, <2>6 DEF KnownOK
<1>8. ASSUME Acyclic(G) PROVE DepthsOK(G, "return", b, t)
  BY <1>3, <1>4, <1>8 DEF CallsOK, DepthsOK
<1>9. Complete(G) => CompleteOK(G, "return", w)
  BY DEF CompleteOK
<1>10. ASSUME G.orderly PROVE FateOK(G, "return", b, t)
  <2>1. FateOK(G, p, a, s) /\ s[n].die \notin G.doomed
    BY <1>3, <1>10 DEF CallsOK
  <2>2. n \in 1..n
    BY <1>2
  <2>3. Spares(G, s[n].die, IF n = 1 THEN G.var ELSE Awaited(G, s[n - 1]))
    BY <1>3, <2>1, <2>2 DEF FateOK
  <2>4. Goal(G, t) = IF n = 1 THEN G.var ELSE Awaited(G, s[n - 1])
    BY <1>2, <1>5 DEF Goal
  <2>5. Goal(G, t) \notin G.doomed
    BY <2>1, <2>3, <2>4 DEF Spares
  <2>6. ASSUME NEW k \in 1..Len(t)
        PROVE  /\ Spares(G, t[k].die, IF k = 1 THEN G.var ELSE Awaited(G, t[k - 1]))
               /\ \A m \in 1..Len(t[k].members) : G.typeDie[G.kids[t[k].die][m]] \notin G.doomed
    BY <1>3, <1>4, <2>1 DEF FateOK
  <2> QED
    BY <2>5, <2>6 DEF FateOK
<1>11. CallsOK(G, "return", b, w, t)
  BY <1>6, <1>7, <1>8, <1>9, <1>10 DEF CallsOK
<1> QED
  BY <1>11 DEF t

\* A struct calls for the type of its next member.
LEMMA NextMember ==
  ASSUME NEW G, FactsOK(G), NEW a, NEW v, NEW s, CallsOK(G, "members", a, v, s),
         s # << >>, Awaiting(G, s[Len(s)])
  PROVE  CallsOK(G, "getTypeFromTypeDie", Awaited(G, s[Len(s)]), v, s)
<1> DEFINE f == s[Len(s)]
           b == Awaited(G, f)
<1>1. IsSeq(s) /\ Len(s) \in Nat \ {0} /\ Len(s) \in 1..Len(s)
  <2>1. IsSeq(s)
    BY DEF CallsOK, StackOK
  <2> QED
    BY <2>1, SeqLength
<1>2. FrameOK(G, f) /\ Awaiting(G, f) /\ Goal(G, s) = b
  BY <1>1 DEF CallsOK, StackOK, Goal
<1>3. b \in G.reach /\ \A n \in Nat : Acyclic(G) /\ Deep(G, f.die, n) => Deep(G, b, n + 1)
  BY <1>2, AwaitedReached
<1>4. f = s[Len(s)]
  OBVIOUS
<1> HIDE DEF f, b
<1>5. StackOK(G, "getTypeFromTypeDie", b, s)
  BY <1>2, <1>3, <1>4 DEF CallsOK, StackOK
<1>6. Known(G) => KnownOK(G, "getTypeFromTypeDie", b, v, s)
  BY <1>2 DEF CallsOK, KnownOK
<1>7. ASSUME Acyclic(G) PROVE DepthsOK(G, "getTypeFromTypeDie", b, s)
  <2>1. DepthsOK(G, "members", a, s)
    BY <1>7 DEF CallsOK
  <2>2. Deep(G, f.die, Len(s) - 1)
    BY <1>1, <1>4, <2>1 DEF DepthsOK
  <2>3. Len(s) - 1 \in Nat /\ (Len(s) - 1) + 1 = Len(s)
    BY <1>1
  <2>4. Deep(G, b, (Len(s) - 1) + 1)
    BY <1>3, <1>7, <2>2, <2>3
  <2>5. Deep(G, b, Len(s))
    BY <2>3, <2>4
  <2> QED
    BY <2>1, <2>5 DEF DepthsOK
<1>8. Complete(G) => CompleteOK(G, "getTypeFromTypeDie", v)
  BY DEF CallsOK, CompleteOK
<1>9. G.orderly => FateOK(G, "getTypeFromTypeDie", b, s)
  BY <1>2 DEF CallsOK, FateOK, Spares
<1>10. CallsOK(G, "getTypeFromTypeDie", b, v, s)
  BY <1>5, <1>6, <1>7, <1>8, <1>9 DEF CallsOK
<1> QED
  BY <1>10 DEF b, f

\* The type of a member is in: one child less, one member more.
WithMember(G, f, v) ==
  [fn |-> f.fn, die |-> f.die, children |-> Tail(f.children),
   members |-> Append(f.members, [type |-> v, at |-> G.dies[G.kids[f.die][Len(f.members) + 1]].location])]

Grown(G, f, v, g) ==
  /\ FrameOK(G, g) /\ g.fn = "struct" /\ g.die = f.die
  /\ Len(f.members) \in Nat /\ Len(g.members) = Len(f.members) + 1
  /\ \A k \in 1..Len(f.members) : g.members[k] = f.members[k]
  /\ g.members[Len(f.members) + 1].type = v

LEMMA FrameGrows ==
  ASSUME NEW G, GraphOK(G), NEW f, FrameOK(G, f), f.fn = "struct", Awaiting(G, f), NEW v, NEW g,
         g = WithMember(G, f, v)
  PROVE  Grown(G, f, v, g)
<1> DEFINE n == Len(f.members)
           d == Len(f.children)
           c == Tail(f.children)
           e == [type |-> v, at |-> G.dies[G.kids[f.die][n + 1]].location]
           m == Append(f.members, e)
           total == Len(G.kids[f.die])
           offsets == G.dies[f.die].childrenOffsets
<1>1. IsSeq(f.children) /\ IsSeq(f.members) /\ f.children # << >>
  BY DEF FrameOK, Awaiting
<1>2. /\ n \in Nat /\ d \in Nat /\ n + d = total
      /\ n + 1 \in 1..total /\ IsMemberOf(G, G.kids[f.die][n + 1])
  BY <1>1, NextChild DEF Awaiting
<1>3. /\ IsSeq(c) /\ Len(c) = d - 1
      /\ \A k \in 1..(d - 1) : c[k] = f.children[k + 1]
  <2>1. Headless(c, f.children)
    BY <1>1, TailFacts, Zenon
  <2> HIDE DEF c
  <2> QED
    BY <2>1 DEF Headless
<1>4. IsSeq(m) /\ Len(m) = n + 1 /\ (\A k \in 1..n : m[k] = f.members[k]) /\ m[n + 1] = e
  <2>1. Longer(m, f.members, e)
    BY <1>1, AppendFacts, Zenon
  <2> HIDE DEF m, e
  <2> QED
    BY <2>1 DEF Longer
<1>5. /\ \A k \in 1..d : f.children[k] = offsets[n + k]
      /\ \A k \in 1..n : /\ IsMemberOf(G, G.kids[f.die][k])
                         /\ f.members[k] = [type |-> f.members[k].type, at |-> G.dies[G.kids[f.die][k]].location]
      /\ f.die \in G.reach /\ G.dies[f.die].tag \in Compounds /\ G.dies[f.die].byteSize # Absent
  BY DEF FrameOK
<1>6. e.type = v /\ e = [type |-> e.type, at |-> G.dies[G.kids[f.die][n + 1]].location]
  OBVIOUS
<1>7. g = [fn |-> "struct", die |-> f.die, children |-> c, members |-> m]
  BY DEF WithMember
<1>8. n = Len(f.members) /\ d = Len(f.children)
  OBVIOUS
<1> HIDE DEF n, d, c, e, m, total, offsets
<1>9. g.fn = "struct" /\ g.die = f.die /\ g.children = c /\ g.members = m
      /\ g = [fn |-> g.fn, die |-> g.die, children |-> g.children, members |-> g.members]
  BY <1>7
<1> DEFINE lm == Len(m)
           lc == Len(c)
<1>10. lm = n + 1 /\ lc = d - 1
  BY <1>3, <1>4
<1> HIDE DEF lm, lc
<1>11. lm + lc = total
  BY <1>2, <1>10
<1>12. ASSUME NEW k \in 1..lc PROVE c[k] = offsets[lm + k]
  <2>1. k \in 1..(d - 1) /\ k + 1 \in 1..d /\ n + (k + 1) = lm + k
    BY <1>2, <1>10
  <2> QED
    BY <1>3, <1>5, <2>1
<1>13. ASSUME NEW k \in 1..lm
       PROVE  /\ IsMemberOf(G, G.kids[f.die][k])
              /\ m[k] = [type |-> m[k].type, at |-> G.dies[G.kids[f.die][k]].location]
  <2>1. k \in 1..n \/ k = n + 1
    BY <1>2, <1>10
  <2>2. CASE k \in 1..n
    BY <1>4, <1>5, <2>2
  <2>3. CASE k = n + 1
    BY <1>2, <1>4, <1>6, <2>3
  <2> QED
    BY <2>1, <2>2, <2>3
<1>14. FrameOK(G, g)
  <2>1. IsSeq(g.children) /\ IsSeq(g.members)
    BY <1>3, <1>4, <1>9
  <2>2. Len(g.members) + Len(g.children) = Len(G.kids[g.die])
    BY <1>9, <1>11 DEF total, lm, lc
  <2>3. \A k \in 1..Len(g.children) : g.children[k] = G.dies[g.die].childrenOffsets[Len(g.members) + k]
    BY <1>9, <1>12 DEF offsets, lm, lc
  <2>4. \A k \in 1..Len(g.members) :
          /\ IsMemberOf(G, G.kids[g.die][k])
          /\ g.members[k] = [type |-> g.members[k].type, at |-> G.dies[G.kids[g.die][k]].location]
    BY <1>9, <1>13 DEF lm
  <2>5. g.die \in G.reach /\ G.dies[g.die].tag \in Compounds /\ G.dies[g.die].byteSize # Absent
    BY <1>5, <1>9
  <2> QED
    BY <1>9, <2>1, <2>2, <2>3, <2>4, <2>5, Zenon DEF FrameOK
<1> QED
  BY <1>8, <1>2, <1>4, <1>6, <1>9, <1>14 DEF Grown

LEMMA MemberIsIn ==
  ASSUME NEW G, FactsOK(G), NEW a, NEW v, NEW s, CallsOK(G, "return", a, v, s), s # << >>,
         NEW f, f = s[Len(s)], f.fn = "struct", NEW g, g = WithMember(G, f, v)
  PROVE  CallsOK(G, "members", a, v, [s EXCEPT ![Len(s)] = g])
<1> DEFINE t == [s EXCEPT ![Len(s)] = g]
           n == Len(s)
<1>1. IsSeq(s) /\ GraphOK(G)
  BY DEF CallsOK, StackOK, FactsOK
<1>2. Replaced(t, s, g)
  BY <1>1, LastReplaced, Zenon
<1>3. n = Len(s)
  OBVIOUS
<1> HIDE DEF t, n
<1>4. n \in Nat \ {0}
  BY <1>1, <1>3, SeqLength
<1>5. IsSeq(t) /\ Len(t) = n /\ (\A k \in 1..(n - 1) : t[k] = s[k]) /\ t[n] = g
  BY <1>3, <1>2 DEF Replaced
<1>6. n \in 1..n /\ \A k \in 1..n : k \in 1..(n - 1) \/ k = n
  BY <1>4
<1>7. FrameOK(G, f) /\ Awaiting(G, f)
  BY <1>3, <1>6 DEF CallsOK, StackOK
<1>8. /\ FrameOK(G, g) /\ g.fn = "struct" /\ g.die = f.die
      /\ Len(f.members) \in Nat /\ Len(g.members) = Len(f.members) + 1
      /\ \A k \in 1..Len(f.members) : g.members[k] = f.members[k]
      /\ g.members[Len(f.members) + 1].type = v
  <2>1. Grown(G, f, v, g)
    BY <1>1, <1>7, FrameGrows, Zenon
  <2> QED
    BY <2>1 DEF Grown
<1>9. StackOK(G, "members", a, t)
  <2>1. \A k \in 1..n : FrameOK(G, t[k])
    BY <1>5, <1>3, <1>6, <1>8 DEF CallsOK, StackOK
  <2>2. \A k \in 1..(n - 1) : Awaiting(G, t[k])
    BY <1>5, <1>3 DEF CallsOK, StackOK
  <2>3. G.var # 0
    BY DEF CallsOK, StackOK
  <2> QED
    BY <1>5, <1>8, <2>1, <2>2, <2>3 DEF StackOK
<1>10. ASSUME Known(G) PROVE KnownOK(G, "members", a, v, t)
  <2>1. KnownOK(G, "return", a, v, s)
    BY <1>10 DEF CallsOK
  <2>2. Answers(G, v, Awaited(G, f))
    BY <2>1 DEF KnownOK, Goal
  <2>3. Awaited(G, f) = G.typeDie[G.kids[g.die][Len(f.members) + 1]]
    BY <1>8 DEF Awaited
  <2>4. ASSUME NEW k \in 1..n
        PROVE  /\ G.meaning[t[k].die] = G.meaning[IF k = 1 THEN G.var ELSE Awaited(G, t[k - 1])]
               /\ \A m \in 1..Len(t[k].members) :
                    Answers(G, t[k].members[m].type, G.typeDie[G.kids[t[k].die][m]])
    <3>1. /\ G.meaning[s[k].die] = G.meaning[IF k = 1 THEN G.var ELSE Awaited(G, s[k - 1])]
          /\ \A m \in 1..Len(s[k].members) :
               Answers(G, s[k].members[m].type, G.typeDie[G.kids[s[k].die][m]])
      BY <1>3, <2>1 DEF KnownOK
    <3>2. k # 1 => t[k - 1] = s[k - 1]
      BY <1>4, <1>5
    <3>3. CASE k \in 1..(n - 1)
      BY <1>5, <3>1, <3>2, <3>3
    <3>4. CASE k = n
      <4>1. t[k] = g /\ s[k] = f /\ t[k].die = s[k].die
        BY <1>5, <1>3, <1>8, <3>4
      <4>2. ASSUME NEW m \in 1..Len(g.members)
            PROVE  Answers(G, g.members[m].type, G.typeDie[G.kids[g.die][m]])
        <5>1. m \in 1..Len(f.members) \/ m = Len(f.members) + 1
          BY <1>8
        <5>2. CASE m \in 1..Len(f.members)
          BY <1>8, <3>1, <4>1, <5>2
        <5>3. CASE m = Len(f.members) + 1
          BY <1>8, <2>2, <2>3, <5>3
        <5> QED
          BY <5>1, <5>2, <5>3
      <4> QED
        BY <3>1, <3>2, <4>1, <4>2
    <3> QED
      BY <1>6, <3>3, <3>4
  <2> QED
    BY <1>5, <2>4 DEF KnownOK
<1>11. ASSUME Acyclic(G) PROVE DepthsOK(G, "members", a, t)
  <2>1. DepthsOK(G, "return", a, s)
    BY <1>11 DEF CallsOK
  <2>2. \A k \in 1..n : t[k].die = s[k].die
    BY <1>5, <1>3, <1>6, <1>8
  <2> QED
    BY <1>5, <1>3, <2>1, <2>2 DEF DepthsOK
<1>12. Complete(G) => CompleteOK(G, "members", v)
  BY DEF CompleteOK
<1>13. ASSUME G.orderly PROVE FateOK(G, "members", a, t)
  <2>1. FateOK(G, "return", a, s)
    BY <1>13 DEF CallsOK
  <2>2. Awaited(G, f) \notin G.doomed
    BY <2>1 DEF FateOK, Goal
  <2>3. Awaited(G, f) = G.typeDie[G.kids[g.die][Len(f.members) + 1]]
    BY <1>8 DEF Awaited
  <2>4. ASSUME NEW k \in 1..n
        PROVE  /\ Spares(G, t[k].die, IF k = 1 THEN G.var ELSE Awaited(G, t[k - 1]))
               /\ \A m \in 1..Len(t[k].members) : G.typeDie[G.kids[t[k].die][m]] \notin G.doomed
    <3>1. /\ Spares(G, s[k].die, IF k = 1 THEN G.var ELSE Awaited(G, s[k - 1]))
          /\ \A m \in 1..Len(s[k].members) : G.typeDie[G.kids[s[k].die][m]] \notin G.doomed
      BY <1>3, <2>1 DEF FateOK
    <3>2. k # 1 => t[k - 1] = s[k - 1]
      BY <1>4, <1>5
    <3>3. CASE k \in 1..(n - 1)
      BY <1>5, <3>1, <3>2, <3>3
    <3>4. CASE k = n
      <4>1. t[k] = g /\ s[k] = f /\ t[k].die = s[k].die
        BY <1>5, <1>3, <1>8, <3>4
      <4>2. ASSUME NEW m \in 1..Len(g.members) PROVE G.typeDie[G.kids[g.die][m]] \notin G.doomed
        <5>1. m \in 1..Len(f.members) \/ m = Len(f.members) + 1
          BY <1>8
        <5>2. CASE m \in 1..Len(f.members)
          BY <1>8, <3>1, <4>1, <5>2
        <5>3. CASE m = Len(f.members) + 1
          BY <2>2, <2>3, <5>3
        <5> QED
          BY <5>1, <5>2, <5>3
      <4> QED
        BY <3>1, <3>2, <4>1, <4>2
    <3> QED
      BY <1>6, <3>3, <3>4
  <2> QED
    BY <1>5, <2>4 DEF FateOK
<1>14. CallsOK(G, "members", a, v, t)
  BY <1>9, <1>10, <1>11, <1>12, <1>13 DEF CallsOK
<1> QED
  BY <1>14 DEF t

------------------------------------------------------------------------------
(* What the actions do *)

\* A null pointer is no type.
NullIsNoType ==
  \A t, n : Null \notin {BaseType(n), PointerType, ArrayType(t, n), StructType(n, t)}

LEMMA GraphStays == ASSUME debugInfo' = debugInfo PROVE TypeGraph' = TypeGraph
<1>1. Meaning' = Meaning
  BY SMT DEF Meaning, TypeDieOf, DIEAt, Indices, SubrangesOK, ChildrenOf, MembersOK, MemberDIE, NumElements
<1>2. VariableType' = VariableType
  BY SMT DEF VariableType, Found, IsNamed, TypeDieOf, DIEAt, Indices
<1>3. (Within(VariableType))' = Within(VariableType)
  BY <1>2, SMT DEF Within, Refs, ChildrenOf, TypeDieOf, DIEAt, Indices
<1>4. (Reachable(VariableType))' = Reachable(VariableType)
  BY <1>3, SMT DEF Reachable
<1>5. [i \in Indices |-> TypeDieOf(i)]' = [i \in Indices |-> TypeDieOf(i)]
  BY SMT DEF TypeDieOf, DIEAt, Indices
<1>6. [i \in Indices |-> ChildrenOf(i)]' = [i \in Indices |-> ChildrenOf(i)]
  BY SMT DEF ChildrenOf, DIEAt, Indices
<1>7. {i \in Indices : Doomed(i)}' = {i \in Indices : Doomed(i)}
  BY SMT DEF Doomed, Fatal, Recursive, Reachable, Within, Refs, ChildrenOf, TypeDieOf, DIEAt, Indices
<1>8. (VariableType # 0 => Orderly(VariableType))' = (VariableType # 0 => Orderly(VariableType))
  BY <1>2, <1>4, SMT DEF Orderly, Asked, MemberDIE, Doomed, Fatal, Recursive, Reachable, Within, Refs, ChildrenOf,
     TypeDieOf, DIEAt, Indices
<1> QED
  BY <1>1, <1>2, <1>3, <1>4, <1>5, <1>6, <1>7, <1>8 DEF TypeGraph

LEMMA Restate ==
  ASSUME debugInfo' = debugInfo, CallsOK(TypeGraph, pc', at', value', calls')
  PROVE  CallsInv'
  BY GraphStays DEF CallsInv

\* The DIE a type is to be made of.
LEMMA AtFacts ==
  ASSUME InfoOK, CallsInv, pc = "getTypeFromTypeDie"
  PROVE  /\ FactsOK(TypeGraph) /\ MeaningOK(TypeGraph, at) /\ (TypeGraph.orderly => DoomOK(TypeGraph, at))
         /\ CallsOK(TypeGraph, "getTypeFromTypeDie", at, value, calls)
         /\ at \in TypeGraph.reach /\ at \in Indices
         /\ TypeGraph.dies = debugInfo
         /\ TypeGraph.typeDie[at] = TypeDieOf(at) /\ TypeGraph.kids[at] = ChildrenOf(at)
         /\ IsSeq(calls)
<1>1. CallsOK(TypeGraph, "getTypeFromTypeDie", at, value, calls)
  BY DEF CallsInv
<1>2. at \in TypeGraph.reach /\ IsSeq(calls)
  BY <1>1 DEF CallsOK, StackOK
<1>3. at \in Indices
  BY <1>2, GraphReach
<1>4. FactsOK(TypeGraph) /\ MeaningOK(TypeGraph, at) /\ (TypeGraph.orderly => DoomOK(TypeGraph, at))
  BY <1>2, FactsAreOK, MeaningIsOK, DoomIsOK
<1> QED
  BY <1>1, <1>2, <1>3, <1>4, GraphFields

\* The frame on top of the stack.
LEMMA TopFacts ==
  ASSUME InfoOK, CallsInv, calls # << >>
  PROVE  /\ FactsOK(TypeGraph) /\ MeaningOK(TypeGraph, Top.die)
         /\ TypeGraph.orderly => DoomOK(TypeGraph, Top.die)
         /\ FrameOK(TypeGraph, Top)
         /\ Top = calls[Len(calls)] /\ Below = SubSeq(calls, 1, Len(calls) - 1)
         /\ Top.die \in Indices /\ TypeGraph.dies = debugInfo
         /\ TypeGraph.kids[Top.die] = ChildrenOf(Top.die)
         /\ Len(calls) \in Nat /\ Len(calls) \in 1..Len(calls)
<1>1. IsSeq(calls) /\ \A k \in 1..Len(calls) : FrameOK(TypeGraph, calls[k])
  BY DEF CallsInv, CallsOK, StackOK
<1>2. Len(calls) \in Nat /\ Len(calls) \in 1..Len(calls)
  BY <1>1, SeqLength
<1>3. FrameOK(TypeGraph, Top) /\ Top = calls[Len(calls)]
  BY <1>1, <1>2 DEF Top
<1>4. Top.die \in TypeGraph.reach
  BY <1>3 DEF FrameOK
<1>5. Top.die \in Indices
  BY <1>4, GraphReach
<1>6. /\ FactsOK(TypeGraph) /\ MeaningOK(TypeGraph, Top.die)
      /\ TypeGraph.orderly => DoomOK(TypeGraph, Top.die)
  BY <1>4, FactsAreOK, MeaningIsOK, DoomIsOK
<1> QED
  BY <1>2, <1>3, <1>5, <1>6, GraphFields DEF Below

\* The child a frame comes to next.
LEMMA NextChildOfTop ==
  ASSUME InfoOK, CallsInv, calls # << >>, Top.children # << >>
  PROVE  /\ Child = TypeGraph.kids[Top.die][Len(Top.members) + 1]
         /\ Len(Top.members) + 1 \in 1..Len(TypeGraph.kids[Top.die])
         /\ Child \in IndexOrNone
         /\ IsMember <=> IsMemberOf(TypeGraph, Child)
<1>1. /\ Len(Top.members) + 1 \in 1..Len(TypeGraph.kids[Top.die])
      /\ Top.children[1] = TypeGraph.dies[Top.die].childrenOffsets[Len(Top.members) + 1]
  <2>1. GraphOK(TypeGraph) /\ FrameOK(TypeGraph, Top)
    BY TopFacts DEF FactsOK
  <2> QED
    BY <2>1, NextChild
<1> DEFINE k == Len(Top.members) + 1
           i == Top.die
<1>2. i \in Indices /\ TypeGraph.dies = debugInfo /\ TypeGraph.kids[i] = ChildrenOf(i)
  BY TopFacts
<1>3. k \in 1..Len(ChildrenOf(i)) /\ Top.children[1] = debugInfo[i].childrenOffsets[k]
  BY <1>1, <1>2
<1> HIDE DEF k, i
<1>4. ChildrenOf(i)[k] = DIEAt(debugInfo[i].childrenOffsets[k]) /\ ChildrenOf(i)[k] \in IndexOrNone
  BY <1>2, <1>3, ChildrenType
<1>5. Child = ChildrenOf(i)[k]
  BY <1>3, <1>4 DEF Child
<1>6. Child \in IndexOrNone
  BY <1>4, <1>5
<1>7. IsMember <=> IsMemberOf(TypeGraph, Child)
  BY <1>6, GraphMember DEF IsMember
<1> QED
  BY <1>1, <1>2, <1>5, <1>6, <1>7 DEF k, i

LEMMA GetVariableTypeStep == ASSUME InfoOK, CallsInv, GetVariableType PROVE CallsInv'
<1> DEFINE G == TypeGraph
<1>1. pc = "getVariableType" /\ debugInfo' = debugInfo /\ calls' = calls /\ calls = << >>
  BY DEF GetVariableType, End, CallsInv, CallsOK, StackOK
<1>2. G.var = VariableType /\ FactsOK(G)
  BY GraphFields, FactsAreOK
<1>3. IsSeq(calls) /\ Len(calls) = 0
  BY <1>1 DEF CallsInv, CallsOK, StackOK
<1>4. CASE Found = 0 \/ TypeDieOf(Found) = 0
  <2>1. VariableType = 0 /\ pc' = "done"
    BY <1>4 DEF GetVariableType, End, VariableType
  <2> HIDE DEF G
  <2>2. G.var = 0
    BY <1>2, <2>1
  <2>3. StackOK(G, pc', at', calls')
    BY <1>1, <1>3, <2>1 DEF StackOK
  <2>4. KnownOK(G, pc', at', value', calls') /\ DepthsOK(G, pc', at', calls')
        /\ CompleteOK(G, pc', value') /\ FateOK(G, pc', at', calls')
    BY <1>1, <1>3, <2>1, <2>2 DEF KnownOK, DepthsOK, CompleteOK, FateOK
  <2>5. CallsOK(G, pc', at', value', calls')
    BY <2>3, <2>4 DEF CallsOK
  <2> QED
    BY <1>1, <2>5, Restate DEF G
<1>5. CASE ~(Found = 0 \/ TypeDieOf(Found) = 0)
  <2>1. VariableType # 0 /\ pc' = "getTypeFromTypeDie" /\ at' = VariableType
    BY <1>5 DEF GetVariableType, CallTypeDie, VariableType
  <2>2. G.var # 0 /\ at' = G.var /\ G.var \in G.reach
    BY <1>2, <2>1, GraphReach
  <2> HIDE DEF G
  <2>3. StackOK(G, pc', at', calls')
    BY <1>1, <1>3, <2>1, <2>2 DEF StackOK
  <2>4. KnownOK(G, pc', at', value', calls')
    BY <1>1, <1>3, <2>1, <2>2 DEF KnownOK, Goal
  <2>5. Acyclic(G) => DepthsOK(G, pc', at', calls')
    BY <1>1, <1>2, <1>3, <2>1, <2>2 DEF DepthsOK, FactsOK, DepthOK
  <2>6. CompleteOK(G, pc', value') /\ FateOK(G, pc', at', calls')
    BY <1>1, <1>3, <2>1, <2>2 DEF CompleteOK, FateOK, Spares, Goal
  <2>7. CallsOK(G, pc', at', value', calls')
    BY <2>3, <2>4, <2>5, <2>6 DEF CallsOK
  <2> QED
    BY <1>1, <2>7, Restate DEF G
<1> QED
  BY <1>4, <1>5

LEMMA ReturnVariableTypeStep == ASSUME InfoOK, CallsInv, ReturnVariableType PROVE CallsInv'
<1> DEFINE G == TypeGraph
<1>1. /\ pc = "return" /\ calls = << >> /\ pc' = "done"
      /\ debugInfo' = debugInfo /\ calls' = calls /\ value' = value /\ at' = at
  BY DEF ReturnVariableType, End
<1>2. CallsOK(G, "return", at, value, calls)
  BY <1>1 DEF CallsInv
<1> HIDE DEF G
<1>3. StackOK(G, "done", at, calls)
  BY <1>1, <1>2 DEF CallsOK, StackOK
<1>4. Known(G) => KnownOK(G, "done", at, value, calls)
  BY <1>1, <1>2 DEF CallsOK, KnownOK, Goal
<1>5. Acyclic(G) => DepthsOK(G, "done", at, calls)
  BY <1>2 DEF CallsOK, DepthsOK
<1>6. Complete(G) => CompleteOK(G, "done", value)
  BY <1>2 DEF CallsOK, CompleteOK
<1>7. G.orderly => FateOK(G, "done", at, calls)
  BY <1>1, <1>2 DEF CallsOK, FateOK, Goal
<1>8. CallsOK(G, pc', at', value', calls')
  BY <1>1, <1>3, <1>4, <1>5, <1>6, <1>7 DEF CallsOK
<1> QED
  BY <1>1, <1>8, Restate DEF G

\* What is no type, or could not be made, is not complete.
LEMMA MustMean == ASSUME NEW G, NEW i \in G.reach, G.meaning[i] = {} PROVE ~Complete(G)
  BY DEF Complete

LEMMA TypedefStep == ASSUME InfoOK, CallsInv, Typedef PROVE CallsInv'
<1> DEFINE G == TypeGraph
           b == TypeDieOf(at)
<1>1. pc = "getTypeFromTypeDie" /\ debugInfo[at].tag = "typedef" /\ debugInfo' = debugInfo /\ calls' = calls
      /\ value' = value
  BY DEF Typedef, Entering, End, CallTypeDie
<1>2. /\ FactsOK(G) /\ MeaningOK(G, at) /\ (G.orderly => DoomOK(G, at))
      /\ CallsOK(G, "getTypeFromTypeDie", at, value, calls)
      /\ at \in G.reach /\ G.dies = debugInfo /\ G.typeDie[at] = b /\ IsSeq(calls)
  BY <1>1, AtFacts
<1>3. /\ b = 0 => pc' = "abort" /\ at' = at
      /\ b # 0 => pc' = "getTypeFromTypeDie" /\ at' = b
  BY DEF Typedef, End, CallTypeDie
<1> HIDE DEF G, b
<1>4. G.meaning[at] = IF b = 0 THEN {} ELSE G.meaning[b]
  BY <1>1, <1>2 DEF MeaningOK
<1>5. CASE b = 0
  <2>1. ~Complete(G)
    BY <1>2, <1>4, <1>5, MustMean
  <2>2. G.orderly => G.var \in G.doomed
    BY <1>1, <1>2, <1>5 DEF DoomOK
  <2>3. CallsOK(G, "abort", at, value, calls)
    BY <1>2, <2>1, <2>2, Fail
  <2> QED
    BY <1>1, <1>3, <1>5, <2>3, Restate DEF G
<1>6. CASE b # 0
  <2>1. b \in G.reach
    BY <1>2, <1>6 DEF FactsOK, GraphOK
  <2>2. Len(calls) \in Nat
    BY <1>2, SeqLength
  <2>3. ASSUME Acyclic(G) PROVE Deep(G, b, Len(calls))
    <3>1. Deep(G, at, Len(calls))
      BY <1>2, <2>3 DEF CallsOK, DepthsOK
    <3>2. Deep(G, b, Len(calls) + 1)
      BY <1>2, <1>6, <2>2, <2>3, <3>1 DEF FactsOK, DepthOK
    <3> QED
      BY <2>2, <3>2 DEF Deep
  <2>4. G.orderly => Spares(G, b, at)
    BY <1>1, <1>2, <1>6 DEF DoomOK
  <2>5. CallsOK(G, "getTypeFromTypeDie", b, value, calls)
    BY <1>2, <1>4, <1>6, <2>1, <2>3, <2>4, GoOn
  <2> QED
    BY <1>1, <1>3, <1>6, <2>5, Restate DEF G
<1> QED
  BY <1>5, <1>6

LEMMA UnsupportedStep == ASSUME InfoOK, CallsInv, Unsupported PROVE CallsInv'
<1> DEFINE G == TypeGraph
<1>1. /\ pc = "getTypeFromTypeDie" /\ debugInfo' = debugInfo /\ calls' = calls /\ value' = value /\ at' = at
      /\ pc' = "abort"
      /\ debugInfo[at].tag \notin {"typedef", "base_type", "array_type", "pointer_type"} \cup Compounds
  BY DEF Unsupported, End
<1>2. /\ MeaningOK(G, at) /\ (G.orderly => DoomOK(G, at))
      /\ CallsOK(G, "getTypeFromTypeDie", at, value, calls)
      /\ at \in G.reach /\ G.dies = debugInfo
  BY <1>1, AtFacts
<1> HIDE DEF G
<1>3. ~Complete(G)
  BY <1>1, <1>2, MustMean DEF MeaningOK
<1>4. G.orderly => G.var \in G.doomed
  BY <1>1, <1>2 DEF DoomOK
<1>5. CallsOK(G, "abort", at, value, calls)
  BY <1>2, <1>3, <1>4, Fail
<1> QED
  BY <1>1, <1>5, Restate DEF G

LEMMA BaseStep == ASSUME NullIsNoType, InfoOK, CallsInv, Base PROVE CallsInv'
<1> DEFINE G == TypeGraph
           size == debugInfo[at].byteSize
<1>1. /\ pc = "getTypeFromTypeDie" /\ debugInfo' = debugInfo /\ calls' = calls /\ pc' = "return"
      /\ debugInfo[at].tag = "base_type" /\ value' = IF size = Absent THEN Null ELSE BaseType(size)
  BY DEF Base, Entering, Return
<1>2. /\ MeaningOK(G, at) /\ (G.orderly => DoomOK(G, at))
      /\ CallsOK(G, "getTypeFromTypeDie", at, value, calls)
      /\ at \in G.reach /\ G.dies = debugInfo
  BY <1>1, AtFacts
<1>3. BaseType(size) # Null
  BY DEF NullIsNoType
<1>4. G.meaning[at] = IF size = Absent THEN {} ELSE {BaseType(size)}
  BY <1>1, <1>2 DEF MeaningOK
<1> HIDE DEF G, size
<1>5. Answers(G, value', at)
  BY <1>1, <1>3, <1>4 DEF Answers
<1>6. Complete(G) => value' # Null
  BY <1>1, <1>2, <1>3, <1>4, MustMean
<1>7. G.orderly => at \notin G.doomed
  BY <1>1, <1>2 DEF DoomOK
<1>8. CallsOK(G, "return", at', value', calls)
  BY <1>2, <1>5, <1>6, <1>7, Stay
<1> QED
  BY <1>1, <1>8, Restate DEF G

\* Nothing without recursion fills the stack.
LEMMA OverflowStep == ASSUME InfoOK, CallsInv, Overflow PROVE CallsInv'
<1> DEFINE G == TypeGraph
<1>1. /\ pc = "getTypeFromTypeDie" /\ debugInfo' = debugInfo /\ calls' = calls /\ value' = value /\ at' = at
      /\ pc' = "overflow" /\ ~(Len(calls) < StackLimit)
  BY DEF Overflow, Entering, End, HasRoom
<1>2. /\ FactsOK(G) /\ CallsOK(G, "getTypeFromTypeDie", at, value, calls) /\ at \in G.reach /\ G.dies = debugInfo
      /\ IsSeq(calls)
  BY <1>1, AtFacts
<1>3. Len(calls) \in Nat /\ Len(debugInfo) \in Nat /\ StackLimit \in Nat
  BY <1>2, SeqLength, InfosAssumption DEF InfoOK
<1> HIDE DEF G
<1>4. ~Acyclic(G)
  <2> SUFFICES ASSUME Acyclic(G) PROVE FALSE
    OBVIOUS
  <2>1. Deep(G, at, Len(calls))
    BY <1>2 DEF CallsOK, DepthsOK
  <2>2. Len(calls) < Len(debugInfo)
    BY <1>2, <1>3, <2>1 DEF FactsOK, DepthOK
  <2>3. Len(debugInfo) <= StackLimit
    BY <1>2 DEF Acyclic
  <2> QED
    BY <1>1, <1>3, <2>2, <2>3
<1>5. StackOK(G, "overflow", at, calls)
  BY <1>2 DEF CallsOK, StackOK
<1>6. /\ Known(G) => KnownOK(G, "overflow", at, value, calls)
      /\ G.orderly => FateOK(G, "overflow", at, calls)
  BY <1>2 DEF CallsOK, KnownOK, FateOK
<1>7. CallsOK(G, "overflow", at, value, calls)
  BY <1>4, <1>5, <1>6 DEF CallsOK, Complete
<1> QED
  BY <1>1, <1>7, Restate DEF G

\* The frame of a call that starts to wait.
LEMMA NewFrame ==
  ASSUME NEW G, GraphOK(G), NEW i \in G.reach, NEW fn, NEW f,
         f = [fn |-> fn, die |-> i, children |-> G.dies[i].childrenOffsets, members |-> << >>],
         \/ fn = "struct" /\ G.dies[i].tag \in Compounds /\ G.dies[i].byteSize # Absent
         \/ fn = "array" /\ G.dies[i].tag = "array_type" /\ G.typeDie[i] # 0
         \/ fn = "pointer" /\ G.dies[i].tag = "pointer_type" /\ G.typeDie[i] # 0
  PROVE  FrameOK(G, f) /\ f.die = i /\ f.members = << >> /\ f.fn = fn
<1> DEFINE c == G.dies[i].childrenOffsets
           none == << >>
<1>1. IsSeq(c) /\ Len(c) = Len(G.kids[i])
  BY DEF GraphOK
<1>2. Len(c) \in Nat
  BY <1>1, SeqLength
<1>3. IsSeq(none) /\ Len(none) = 0
  <2>1. none \in Seq({})
    OBVIOUS
  <2> QED
    BY <2>1 DEF IsSeq
<1>4. f = [fn |-> fn, die |-> i, children |-> c, members |-> none]
  OBVIOUS
<1>5. none = << >> /\ c = G.dies[i].childrenOffsets
  OBVIOUS
<1> HIDE DEF c, none
<1>6. /\ f.fn = fn /\ f.die = i /\ f.children = c /\ f.members = none
      /\ f = [fn |-> f.fn, die |-> f.die, children |-> f.children, members |-> f.members]
  BY <1>4
<1>7. \A k \in 1..Len(c) : Len(none) + k = k
  BY <1>2, <1>3
<1>8. 1..Len(none) = {} /\ Len(none) + Len(c) = Len(c)
  BY <1>2, <1>3
<1>9. FrameOK(G, f)
  BY <1>1, <1>3, <1>5, <1>6, <1>7, <1>8 DEF FrameOK
<1> QED
  BY <1>5, <1>6, <1>9

LEMMA EnterArrayStep == ASSUME NullIsNoType, InfoOK, CallsInv, EnterArray PROVE CallsInv'
<1> DEFINE G == TypeGraph
           b == TypeDieOf(at)
           f == [fn |-> "array", die |-> at, children |-> debugInfo[at].childrenOffsets, members |-> << >>]
<1>1. pc = "getTypeFromTypeDie" /\ debugInfo[at].tag = "array_type" /\ debugInfo' = debugInfo
  BY DEF EnterArray, Entering
<1>2. /\ FactsOK(G) /\ MeaningOK(G, at) /\ (G.orderly => DoomOK(G, at))
      /\ CallsOK(G, "getTypeFromTypeDie", at, value, calls)
      /\ at \in G.reach /\ G.dies = debugInfo /\ G.typeDie[at] = b
  BY <1>1, AtFacts
<1>3. /\ b = 0 => pc' = "return" /\ value' = Null /\ calls' = calls
      /\ b # 0 => pc' = "getTypeFromTypeDie" /\ at' = b /\ value' = value /\ calls' = Append(calls, f)
  BY DEF EnterArray, Return, Push, CallTypeDie
<1>4. CASE b = 0
  <2> HIDE DEF G, b, f
  <2>1. G.meaning[at] = {}
    BY <1>1, <1>2, <1>4 DEF MeaningOK
  <2>2. Answers(G, Null, at) /\ ~Complete(G)
    BY <1>2, <2>1, MustMean DEF Answers
  <2>3. G.orderly => at \notin G.doomed
    BY <1>1, <1>2, <1>4 DEF DoomOK
  <2>4. CallsOK(G, "return", at', Null, calls)
    BY <1>2, <2>2, <2>3, Stay
  <2> QED
    BY <1>1, <1>3, <1>4, <2>4, Restate DEF G
<1>5. CASE b # 0
  <2>1. f = [fn |-> "array", die |-> at, children |-> G.dies[at].childrenOffsets, members |-> << >>]
    BY <1>2
  <2> HIDE DEF G, b, f
  <2>2. FrameOK(G, f) /\ f.die = at /\ f.members = << >> /\ f.fn = "array"
    BY <1>1, <1>2, <1>5, <2>1, NewFrame DEF FactsOK
  <2>3. Awaiting(G, f) /\ b = Awaited(G, f)
    BY <1>2, <2>2 DEF Awaiting, Awaited
  <2>4. CallsOK(G, "getTypeFromTypeDie", b, value, Append(calls, f))
    BY <1>2, <2>2, <2>3, Enter
  <2> QED
    BY <1>1, <1>3, <1>5, <2>4, Restate DEF G
<1> QED
  BY <1>4, <1>5

LEMMA EnterPointerStep == ASSUME InfoOK, CallsInv, EnterPointer PROVE CallsInv'
<1> DEFINE G == TypeGraph
           b == TypeDieOf(at)
           f == [fn |-> "pointer", die |-> at, children |-> debugInfo[at].childrenOffsets, members |-> << >>]
<1>1. pc = "getTypeFromTypeDie" /\ debugInfo[at].tag = "pointer_type" /\ debugInfo' = debugInfo
  BY DEF EnterPointer, Entering
<1>2. /\ FactsOK(G) /\ (G.orderly => DoomOK(G, at))
      /\ CallsOK(G, "getTypeFromTypeDie", at, value, calls)
      /\ at \in G.reach /\ G.dies = debugInfo /\ G.typeDie[at] = b
  BY <1>1, AtFacts
<1>3. /\ b = 0 => pc' = "segv" /\ at' = at /\ value' = value /\ calls' = calls
      /\ b # 0 => pc' = "getTypeFromTypeDie" /\ at' = b /\ value' = value /\ calls' = Append(calls, f)
  BY DEF EnterPointer, End, Push, CallTypeDie
<1>4. CASE b = 0
  <2> HIDE DEF G, b, f
  <2>1. ~Complete(G)
    BY <1>1, <1>2, <1>4 DEF Complete
  <2>2. G.orderly => G.var \in G.doomed
    BY <1>1, <1>2, <1>4 DEF DoomOK
  <2>3. CallsOK(G, "segv", at, value, calls)
    BY <1>2, <2>1, <2>2, Fail
  <2> QED
    BY <1>1, <1>3, <1>4, <2>3, Restate DEF G
<1>5. CASE b # 0
  <2>1. f = [fn |-> "pointer", die |-> at, children |-> G.dies[at].childrenOffsets, members |-> << >>]
    BY <1>2
  <2> HIDE DEF G, b, f
  <2>2. FrameOK(G, f) /\ f.die = at /\ f.members = << >> /\ f.fn = "pointer"
    BY <1>1, <1>2, <1>5, <2>1, NewFrame DEF FactsOK
  <2>3. Awaiting(G, f) /\ b = Awaited(G, f)
    BY <1>2, <2>2 DEF Awaiting, Awaited
  <2>4. CallsOK(G, "getTypeFromTypeDie", b, value, Append(calls, f))
    BY <1>2, <2>2, <2>3, Enter
  <2> QED
    BY <1>1, <1>3, <1>5, <2>4, Restate DEF G
<1> QED
  BY <1>4, <1>5

LEMMA EnterStructStep == ASSUME NullIsNoType, InfoOK, CallsInv, EnterStruct PROVE CallsInv'
<1> DEFINE G == TypeGraph
           f == [fn |-> "struct", die |-> at, children |-> debugInfo[at].childrenOffsets, members |-> << >>]
           unsized == debugInfo[at].byteSize = Absent
<1>1. pc = "getTypeFromTypeDie" /\ debugInfo[at].tag \in Compounds /\ debugInfo' = debugInfo
  BY DEF EnterStruct, Entering
<1>2. /\ FactsOK(G) /\ MeaningOK(G, at) /\ (G.orderly => DoomOK(G, at))
      /\ CallsOK(G, "getTypeFromTypeDie", at, value, calls)
      /\ at \in G.reach /\ G.dies = debugInfo
  BY <1>1, AtFacts
<1>3. /\ unsized => pc' = "return" /\ value' = Null /\ calls' = calls
      /\ ~unsized => pc' = "members" /\ at' = at /\ value' = value /\ calls' = Append(calls, f)
  BY DEF EnterStruct, Return, Push
<1>4. CASE unsized
  <2> HIDE DEF G, f
  <2>1. G.meaning[at] = {}
    BY <1>1, <1>2, <1>4 DEF MeaningOK
  <2>2. Answers(G, Null, at) /\ ~Complete(G)
    BY <1>2, <2>1, MustMean DEF Answers
  <2>3. G.orderly => at \notin G.doomed
    BY <1>1, <1>2, <1>4 DEF DoomOK
  <2>4. CallsOK(G, "return", at', Null, calls)
    BY <1>2, <2>2, <2>3, Stay
  <2> QED
    BY <1>1, <1>3, <1>4, <2>4, Restate DEF G
<1>5. CASE ~unsized
  <2>1. f = [fn |-> "struct", die |-> at, children |-> G.dies[at].childrenOffsets, members |-> << >>]
    BY <1>2
  <2> HIDE DEF G, f
  <2>2. FrameOK(G, f) /\ f.die = at /\ f.members = << >> /\ f.fn = "struct"
    BY <1>1, <1>2, <1>5, <2>1, NewFrame DEF FactsOK
  <2>3. CallsOK(G, "members", at, value, Append(calls, f))
    BY <1>2, <2>2, Enter
  <2> QED
    BY <1>1, <1>3, <1>5, <2>3, Restate DEF G
<1> QED
  BY <1>4, <1>5

\* What a call waited for is not doomed once it has returned.
LEMMA AwaitedIsSpared ==
  ASSUME NEW G, NEW a, NEW v, NEW s, CallsOK(G, "return", a, v, s), s # << >>, G.orderly
  PROVE  Awaited(G, s[Len(s)]) \notin G.doomed
  BY DEF CallsOK, FateOK, Goal

LEMMA LeavePointerStep == ASSUME NullIsNoType, InfoOK, CallsInv, LeavePointer PROVE CallsInv'
<1> DEFINE G == TypeGraph
           f == Top
<1>1. /\ pc = "return" /\ calls # << >> /\ f.fn = "pointer" /\ debugInfo' = debugInfo
      /\ pc' = "return" /\ value' = PointerType /\ calls' = Below
  BY DEF LeavePointer, Back, Return
<1>2. /\ FactsOK(G) /\ MeaningOK(G, f.die) /\ FrameOK(G, f) /\ f = calls[Len(calls)]
      /\ G.orderly => DoomOK(G, f.die)
      /\ Below = SubSeq(calls, 1, Len(calls) - 1)
  BY <1>1, TopFacts
<1>3. CallsOK(G, "return", at, value, calls)
  BY <1>1 DEF CallsInv
<1> HIDE DEF G, f
<1>4. G.meaning[f.die] = {PointerType}
  BY <1>1, <1>2 DEF FrameOK, MeaningOK
<1>5. PointerType # Null
  BY DEF NullIsNoType
<1>6. Answers(G, PointerType, calls[Len(calls)].die)
  BY <1>2, <1>4, <1>5 DEF Answers
<1>7. ASSUME G.orderly PROVE calls[Len(calls)].die \notin G.doomed
  <2>1. Awaited(G, f) \notin G.doomed
    BY <1>1, <1>2, <1>3, <1>7, AwaitedIsSpared
  <2>2. Awaited(G, f) = G.typeDie[f.die] /\ G.typeDie[f.die] # 0 /\ G.dies[f.die].tag = "pointer_type"
    BY <1>1, <1>2 DEF FrameOK, Awaited
  <2> QED
    BY <1>2, <1>7, <2>1, <2>2 DEF DoomOK, Spares
<1>8. CallsOK(G, "return", at', PointerType, SubSeq(calls, 1, Len(calls) - 1))
  BY <1>1, <1>2, <1>3, <1>5, <1>6, <1>7, Leave
<1> QED
  BY <1>1, <1>2, <1>8, Restate DEF G

LEMMA LeaveArrayStep == ASSUME NullIsNoType, InfoOK, CallsInv, LeaveArray PROVE CallsInv'
<1> DEFINE G == TypeGraph
           f == Top
           i == f.die
           subrange == IF Top.children = << >> THEN 0 ELSE DIEAt(Top.children[1])
           below == SubSeq(calls, 1, Len(calls) - 1)
<1>1. pc = "return" /\ calls # << >> /\ f.fn = "array" /\ debugInfo' = debugInfo
  BY DEF LeaveArray, Back
<1>2. /\ FactsOK(G) /\ MeaningOK(G, i) /\ FrameOK(G, f) /\ f = calls[Len(calls)] /\ Below = below
      /\ G.dies = debugInfo /\ (G.orderly => DoomOK(G, i))
  BY <1>1, TopFacts
<1>3. CallsOK(G, "return", at, value, calls)
  BY <1>1 DEF CallsInv
<1>4. f.children # << >> => subrange = G.kids[i][1] /\ subrange \in IndexOrNone
  <2>1. f.members = << >>
    BY <1>1, <1>2 DEF FrameOK
  <2>2. Len(f.members) + 1 = 1
    BY <2>1
  <2>3. ASSUME f.children # << >> PROVE Child = G.kids[i][Len(f.members) + 1] /\ Child \in IndexOrNone
    BY <1>1, <2>3, NextChildOfTop
  <2> QED
    BY <2>2, <2>3 DEF Child
<1>5. \/ value = Null /\ pc' = "return" /\ value' = Null /\ calls' = Below
      \/ value # Null /\ f.children = << >> /\ pc' = "segv" /\ at' = at /\ value' = value /\ calls' = calls
      \/ /\ value # Null /\ subrange # 0 /\ debugInfo[subrange].tag # "subrange_type"
         /\ pc' = "abort" /\ at' = at /\ value' = value /\ calls' = calls
      \/ /\ value # Null /\ subrange # 0 /\ debugInfo[subrange].tag = "subrange_type"
         /\ pc' = "return" /\ calls' = Below
         /\ value' = IF debugInfo[subrange].count = Absent THEN Null ELSE ArrayType(value, debugInfo[subrange].count)
      \/ value # Null /\ f.children # << >> /\ subrange = 0 /\ pc' = "return" /\ value' = Null /\ calls' = Below
  BY DEF LeaveArray, End, Return
<1>6. subrange # 0 => f.children # << >>
  OBVIOUS
<1>7. /\ (f.children = << >>) <=> (G.kids[i] = << >>)
      /\ Len(G.kids[i]) \in Nat /\ (f.children # << >> => Len(G.kids[i]) # 0)
  <2>1. f.members = << >> /\ Len(f.members) = 0
    BY <1>1, <1>2 DEF FrameOK
  <2>2. /\ Len(f.members) \in Nat /\ Len(f.children) \in Nat /\ Len(G.kids[f.die]) \in Nat
        /\ Len(f.members) + Len(f.children) = Len(G.kids[f.die])
        /\ (f.children = << >>) <=> Len(f.children) = 0
    BY <1>2, NextChild DEF FactsOK
  <2>3. Len(f.children) = Len(G.kids[i])
    BY <2>1, <2>2
  <2>4. (G.kids[i] = << >>) <=> Len(G.kids[i]) = 0
    BY <1>1, TopFacts, ChildrenType
  <2> QED
    BY <2>2, <2>3, <2>4
<1> HIDE DEF G, f, subrange
<1>8. G.dies[i].tag = "array_type" /\ G.typeDie[i] # 0 /\ i \in G.reach /\ Awaited(G, f) = G.typeDie[i]
  BY <1>1, <1>2 DEF FrameOK, Awaited
<1>9. /\ G.meaning[i] # {} => G.meaning[G.typeDie[i]] # {} /\ G.kids[i] # << >> /\ CountsElements(G, G.kids[i][1])
      /\ Len(G.kids[i]) = 1 /\ CountsElements(G, G.kids[i][1]) =>
           \A t \in G.meaning[G.typeDie[i]] : ArrayType(t, G.dies[G.kids[i][1]].count) \in G.meaning[i]
  BY <1>2, <1>8 DEF MeaningOK
<1>10. ASSUME Known(G) PROVE Answers(G, value, G.typeDie[i])
  BY <1>1, <1>2, <1>3, <1>8, <1>10 DEF CallsOK, KnownOK, Goal
<1>11. Complete(G) => value # Null
  BY <1>3 DEF CallsOK, CompleteOK
<1>12. ASSUME G.orderly
       PROVE  /\ i \notin G.doomed /\ G.kids[i] # << >>
              /\ G.kids[i][1] # 0 => G.dies[G.kids[i][1]].tag = "subrange_type"
  <2>1. G.typeDie[i] \notin G.doomed
    BY <1>1, <1>2, <1>3, <1>8, <1>12, AwaitedIsSpared
  <2> QED
    BY <1>2, <1>8, <1>12, <2>1 DEF DoomOK, Spares
<1>13. ASSUME Known(G) => G.meaning[i] = {}, ~Complete(G) PROVE CallsOK(G, "return", at', Null, below)
  <2>1. Known(G) => Answers(G, Null, calls[Len(calls)].die)
    BY <1>2, <1>13 DEF Answers
  <2>2. G.orderly => calls[Len(calls)].die \notin G.doomed
    BY <1>2, <1>12
  <2> HIDE DEF i
  <2> QED
    BY <1>1, <1>2, <1>3, <1>13, <2>1, <2>2, Leave
<1>14. CASE value = Null
  <2>1. Known(G) => G.meaning[i] = {}
    BY <1>9, <1>10, <1>14 DEF Answers
  <2>2. CallsOK(G, "return", at', Null, below)
    BY <1>11, <1>13, <1>14, <2>1
  <2> QED
    BY <1>1, <1>2, <1>5, <1>14, <2>2, Restate DEF G
<1>15. CASE value # Null /\ f.children = << >> /\ pc' = "segv" /\ at' = at /\ value' = value /\ calls' = calls
  <2>1. ~Complete(G)
    BY <1>8, <1>9, <1>15, <1>7, MustMean
  <2>2. ~G.orderly
    BY <1>7, <1>15, <1>12
  <2>3. CallsOK(G, "segv", at, value, calls)
    BY <1>3, <2>1, <2>2, Fail
  <2> QED
    BY <1>1, <1>15, <2>3, Restate DEF G
<1>16. CASE /\ value # Null /\ subrange # 0 /\ debugInfo[subrange].tag # "subrange_type"
            /\ pc' = "abort" /\ at' = at /\ value' = value /\ calls' = calls
  <2>1. ~CountsElements(G, G.kids[i][1])
    BY <1>2, <1>4, <1>6, <1>16 DEF CountsElements
  <2>2. ~Complete(G)
    BY <1>8, <1>9, <2>1, MustMean
  <2>3. ~G.orderly
    BY <1>2, <1>4, <1>6, <1>16, <1>12
  <2>4. CallsOK(G, "abort", at, value, calls)
    BY <1>3, <2>2, <2>3, Fail
  <2> QED
    BY <1>1, <1>16, <2>4, Restate DEF G
<1>17. CASE /\ value # Null /\ subrange # 0 /\ debugInfo[subrange].tag = "subrange_type"
            /\ pc' = "return" /\ calls' = Below
            /\ value' = IF debugInfo[subrange].count = Absent THEN Null
                        ELSE ArrayType(value, debugInfo[subrange].count)
  <2> DEFINE n == debugInfo[subrange].count
  <2>1. n = G.dies[G.kids[i][1]].count /\ (CountsElements(G, G.kids[i][1]) <=> n # Absent)
    BY <1>2, <1>4, <1>6, <1>17 DEF CountsElements
  <2> HIDE DEF n
  <2>2. CASE n = Absent
    <3>1. G.meaning[i] = {}
      BY <1>9, <2>1, <2>2
    <3>2. CallsOK(G, "return", at', Null, below)
      BY <1>8, <1>13, <3>1, MustMean
    <3> QED
      BY <1>1, <1>2, <1>17, <2>2, <3>2, Restate DEF G, n
  <2>3. CASE n # Absent
    <3>1. value' = ArrayType(value, n) /\ ArrayType(value, n) # Null
      BY <1>17, <2>3 DEF n, NullIsNoType
    <3>2. ASSUME Known(G) PROVE Answers(G, ArrayType(value, n), i)
      <4>1. Len(G.kids[i]) <= 1
        BY <1>8, <3>2 DEF Known
      <4>2. Len(G.kids[i]) = 1
        <5> DEFINE m == Len(G.kids[i])
        <5>1. m \in Nat /\ m # 0 /\ m <= 1
          BY <1>6, <1>17, <1>7, <4>1
        <5> HIDE DEF m
        <5>2. m = 1
          BY <5>1
        <5> QED
          BY <5>2 DEF m
      <4>3. value \in G.meaning[G.typeDie[i]]
        BY <1>10, <1>17, <3>2 DEF Answers
      <4>4. ArrayType(value, n) \in G.meaning[i]
        BY <1>9, <2>1, <2>3, <4>2, <4>3
      <4> QED
        BY <3>1, <4>4 DEF Answers
    <3>3. CallsOK(G, "return", at', value', below)
      <4>1. Known(G) => Answers(G, value', calls[Len(calls)].die)
        BY <1>2, <3>1, <3>2
      <4>2. G.orderly => calls[Len(calls)].die \notin G.doomed
        BY <1>2, <1>12
      <4> HIDE DEF i
      <4> QED
        BY <1>1, <1>2, <1>3, <3>1, <4>1, <4>2, Leave
    <3> QED
      BY <1>1, <1>2, <1>17, <3>3, Restate DEF G
  <2> QED
    BY <2>2, <2>3
<1>18. CASE value # Null /\ f.children # << >> /\ subrange = 0 /\ pc' = "return" /\ value' = Null /\ calls' = Below
  <2>1. ~CountsElements(G, G.kids[i][1])
    BY <1>4, <1>18 DEF CountsElements
  <2>2. CallsOK(G, "return", at', Null, below)
    BY <1>8, <1>9, <1>13, <2>1, MustMean
  <2> QED
    BY <1>1, <1>2, <1>18, <2>2, Restate DEF G
<1> QED
  BY <1>5, <1>14, <1>15, <1>16, <1>17, <1>18

\* The struct whose members are read.
LEMMA StructOnTop ==
  ASSUME InfoOK, CallsInv, calls # << >>, pc = "members" \/ (pc = "return" /\ Top.fn = "struct")
  PROVE  /\ Top.fn = "struct" /\ Top.die \in TypeGraph.reach
         /\ TypeGraph.dies[Top.die].tag \in Compounds /\ TypeGraph.dies[Top.die].byteSize # Absent
<1>1. CallsOK(TypeGraph, pc, at, value, calls) /\ FrameOK(TypeGraph, Top) /\ Top = calls[Len(calls)]
  BY TopFacts DEF CallsInv
<1>2. Top.fn = "struct"
  BY <1>1 DEF CallsOK, StackOK
<1> QED
  BY <1>1, <1>2 DEF FrameOK

\* A struct is spared if its members so far are and it has no more.
LEMMA StructIsSpared ==
  ASSUME NEW G, G.orderly, NEW p, NEW a, NEW v, NEW s, CallsOK(G, p, a, v, s), NEW k \in 1..Len(s),
         NEW f, f = s[k], NEW n, n = Len(f.members), n \in 0..Len(G.kids[f.die]),
         G.dies[f.die].tag \in Compounds, DoomOK(G, f.die),
         n < Len(G.kids[f.die]) => ~IsMemberOf(G, G.kids[f.die][n + 1])
  PROVE  f.die \notin G.doomed
<1>1. \A m \in 1..n : G.typeDie[G.kids[f.die][m]] \notin G.doomed
  BY DEF CallsOK, FateOK
<1> QED
  BY <1>1 DEF DoomOK

LEMMA NotAMemberStep == ASSUME InfoOK, CallsInv, NotAMember PROVE CallsInv'
<1> DEFINE G == TypeGraph
           f == Top
           k == Len(f.members) + 1
           below == SubSeq(calls, 1, Len(calls) - 1)
<1>1. /\ pc = "members" /\ calls # << >> /\ f.children # << >> /\ ~IsMember /\ debugInfo' = debugInfo
      /\ pc' = "return" /\ value' = Null /\ calls' = Below
  BY DEF NotAMember, InLoop, Return
<1>2. /\ FactsOK(G) /\ MeaningOK(G, f.die) /\ f = calls[Len(calls)] /\ Below = below
      /\ f.die \in G.reach /\ G.dies[f.die].tag \in Compounds
      /\ (G.orderly => DoomOK(G, f.die)) /\ FrameOK(G, f) /\ Len(calls) \in 1..Len(calls)
  BY <1>1, TopFacts, StructOnTop
<1>3. CallsOK(G, "members", at, value, calls)
  BY <1>1 DEF CallsInv
<1>4. k \in 1..Len(G.kids[f.die]) /\ ~IsMemberOf(G, G.kids[f.die][k])
  BY <1>1, NextChildOfTop
<1> HIDE DEF G, f, k
<1>5. G.meaning[f.die] = {}
  BY <1>2, <1>4 DEF MeaningOK
<1>6. Answers(G, Null, calls[Len(calls)].die) /\ ~Complete(G)
  BY <1>2, <1>5, MustMean DEF Answers
<1>7. ASSUME G.orderly PROVE calls[Len(calls)].die \notin G.doomed
  <2> DEFINE n == Len(f.members)
             c == Len(G.kids[f.die])
  <2>1. n \in Nat /\ c \in Nat
    BY <1>2, NextChild DEF FactsOK
  <2>2. n = Len(f.members) /\ c = Len(G.kids[f.die]) /\ k = n + 1 /\ k \in 1..c
    BY <1>4 DEF k
  <2> HIDE DEF n, c
  <2>3. n \in 0..c
    BY <2>1, <2>2
  <2>4. ~IsMemberOf(G, G.kids[f.die][n + 1])
    BY <1>4, <2>2
  <2>5. f.die \notin G.doomed
    BY <1>2, <1>3, <1>7, <2>2, <2>3, <2>4, StructIsSpared
  <2> QED
    BY <1>2, <2>5
<1>8. CallsOK(G, "return", at', Null, below)
  BY <1>1, <1>2, <1>3, <1>6, <1>7, Leave
<1> QED
  BY <1>1, <1>2, <1>8, Restate DEF G

LEMMA EnterMemberStep == ASSUME InfoOK, CallsInv, EnterMember PROVE CallsInv'
<1> DEFINE G == TypeGraph
           f == Top
<1>1. /\ pc = "members" /\ calls # << >> /\ f.children # << >> /\ IsMember /\ debugInfo' = debugInfo
      /\ pc' = "getTypeFromTypeDie" /\ at' = TypeDieOf(Child) /\ value' = value /\ calls' = calls
  BY DEF EnterMember, InLoop, CallTypeDie
<1>2. FactsOK(G) /\ f = calls[Len(calls)] /\ f.fn = "struct"
  BY <1>1, TopFacts, StructOnTop
<1>3. CallsOK(G, "members", at, value, calls)
  BY <1>1 DEF CallsInv
<1>4. Child = G.kids[f.die][Len(f.members) + 1] /\ Child \in IndexOrNone /\ IsMemberOf(G, Child)
  BY <1>1, NextChildOfTop
<1>5. G.typeDie[Child] = TypeDieOf(Child)
  BY <1>4, GraphFields DEF IsMemberOf, IndexOrNone
<1> HIDE DEF G, f
<1>6. Awaiting(G, f) /\ Awaited(G, f) = TypeDieOf(Child)
  BY <1>1, <1>2, <1>4, <1>5 DEF Awaiting, Awaited
<1>7. CallsOK(G, "getTypeFromTypeDie", Awaited(G, calls[Len(calls)]), value, calls)
  BY <1>1, <1>2, <1>3, <1>6, NextMember
<1> QED
  BY <1>1, <1>2, <1>6, <1>7, Restate DEF G

LEMMA LeaveMemberStep == ASSUME InfoOK, CallsInv, LeaveMember PROVE CallsInv'
<1> DEFINE G == TypeGraph
           f == Top
           n == Len(calls)
           m == [type |-> value, at |-> debugInfo[Child].location]
           g == WithMember(G, f, value)
<1>1. /\ pc = "return" /\ calls # << >> /\ f.fn = "struct" /\ debugInfo' = debugInfo
      /\ calls' = [calls EXCEPT ![n].children = Tail(@), ![n].members = Append(@, m)]
      /\ pc' = "members" /\ value' = value /\ at' = at
  BY DEF LeaveMember, Back
<1>2. /\ FactsOK(G) /\ FrameOK(G, f) /\ f = calls[n] /\ n \in 1..n /\ G.dies = debugInfo
  BY <1>1, TopFacts
<1>3. CallsOK(G, "return", at, value, calls)
  BY <1>1 DEF CallsInv
<1>4. f.children # << >>
  BY <1>1, <1>2, <1>3 DEF CallsOK, StackOK, Awaiting
<1>5. Child = G.kids[f.die][Len(f.members) + 1]
  BY <1>1, <1>4, NextChildOfTop
<1>6. [f EXCEPT !.children = Tail(@), !.members = Append(@, m)] = g
  <2> DEFINE c == Tail(f.children)
             ms == Append(f.members, m)
  <2>1. f = [fn |-> f.fn, die |-> f.die, children |-> f.children, members |-> f.members]
    BY <1>2 DEF FrameOK
  <2>2. g = [fn |-> f.fn, die |-> f.die, children |-> c, members |-> ms]
    BY <1>2, <1>5 DEF WithMember
  <2>3. [f EXCEPT !.children = Tail(@), !.members = Append(@, m)] = [f EXCEPT !.children = c, !.members = ms]
    OBVIOUS
  <2> HIDE DEF c, ms, f, g, m
  <2>4. [f EXCEPT !.children = c, !.members = ms] = [fn |-> f.fn, die |-> f.die, children |-> c, members |-> ms]
    <3> DEFINE new == [f EXCEPT !.children = c, !.members = ms]
               a == f.fn
               d == f.die
    <3>1. f \in [fn: {a}, die: {d}, children: {f.children, c}, members: {f.members, ms}]
      BY <2>1
    <3> HIDE DEF a, d
    <3>2. new \in [fn: {a}, die: {d}, children: {c}, members: {ms}]
      BY <3>1
    <3> HIDE DEF new
    <3>3. new = [fn |-> a, die |-> d, children |-> c, members |-> ms]
      BY <3>2
    <3> QED
      BY <3>3 DEF new, a, d
  <2> QED
    BY <2>2, <2>3, <2>4, Zenon
<1>7. calls' = [calls EXCEPT ![Len(calls)] = g]
  <2>1. PICK X : calls \in Seq(X)
    BY <1>3 DEF CallsOK, StackOK, IsSeq
  <2>2. calls' = [calls EXCEPT ![n] = [f EXCEPT !.children = Tail(@), !.members = Append(@, m)]]
    BY <1>1, <1>2, <2>1
  <2> HIDE DEF g, f, m
  <2> QED
    BY <1>6, <2>2
<1> HIDE DEF G, f, g, m
<1>8. g = WithMember(G, f, value)
  BY DEF g
<1>9. CallsOK(G, "members", at, value, [calls EXCEPT ![Len(calls)] = g])
  <2>1. f = calls[Len(calls)]
    BY <1>2
  <2> HIDE DEF n
  <2> QED
    BY <1>1, <1>2, <1>3, <1>8, <2>1, MemberIsIn, Zenon
<1> QED
  BY <1>1, <1>7, <1>9, Restate DEF G

LEMMA LeaveStructStep == ASSUME NullIsNoType, InfoOK, CallsInv, LeaveStruct PROVE CallsInv'
<1> DEFINE G == TypeGraph
           f == Top
           i == f.die
           size == debugInfo[i].byteSize
           below == SubSeq(calls, 1, Len(calls) - 1)
<1>1. /\ pc = "members" /\ calls # << >> /\ f.children = << >> /\ debugInfo' = debugInfo
      /\ pc' = "return" /\ calls' = Below
  BY DEF LeaveStruct, InLoop, Return
<1>2. PICK ms \in Sorted(f.members) : value' = StructType(size, ms)
  BY DEF LeaveStruct, Return
<1>3. /\ FactsOK(G) /\ MeaningOK(G, i) /\ (G.orderly => DoomOK(G, i)) /\ FrameOK(G, f)
      /\ f = calls[Len(calls)] /\ Below = below
      /\ G.dies = debugInfo /\ f.fn = "struct" /\ i \in G.reach
      /\ G.dies[i].tag \in Compounds /\ size # Absent /\ Len(calls) \in 1..Len(calls)
  BY <1>1, TopFacts, StructOnTop
<1>4. CallsOK(G, "members", at, value, calls)
  BY <1>1 DEF CallsInv
<1> DEFINE l == f.members
<1> HIDE DEF G, f
<1>5. /\ IsSeq(l) /\ Len(l) \in Nat /\ Len(l) = Len(G.kids[i])
      /\ \A k \in 1..Len(l) : /\ IsMemberOf(G, G.kids[i][k])
                              /\ l[k] = [type |-> l[k].type, at |-> G.dies[G.kids[i][k]].location]
  <2>1. /\ IsSeq(l)
        /\ \A k \in 1..Len(l) : /\ IsMemberOf(G, G.kids[i][k])
                                /\ l[k] = [type |-> l[k].type, at |-> G.dies[G.kids[i][k]].location]
    BY <1>3 DEF FrameOK
  <2>2. /\ Len(l) \in Nat /\ Len(f.children) \in Nat /\ Len(l) + Len(f.children) = Len(G.kids[i])
        /\ (f.children = << >>) <=> Len(f.children) = 0
    BY <1>3, NextChild DEF FactsOK
  <2> DEFINE a == Len(l)
             b == Len(f.children)
             c == Len(G.kids[i])
  <2>3. a \in Nat /\ b = 0 /\ a + b = c
    BY <1>1, <2>2
  <2> HIDE DEF a, b, c
  <2>4. a \in Nat /\ a = c
    BY <2>3
  <2> QED
    BY <2>1, <2>4 DEF a, c
<1>6. StructType(size, ms) # Null
  BY DEF NullIsNoType
<1>7. ASSUME Known(G) PROVE StructType(size, ms) \in G.meaning[i]
  <2>1. ASSUME NEW k \in 1..Len(l) PROVE l[k].type \in G.meaning[G.typeDie[G.kids[i][k]]]
    <3>1. Answers(G, l[k].type, G.typeDie[G.kids[i][k]])
      BY <1>3, <1>4, <1>7 DEF CallsOK, KnownOK
    <3>2. G.meaning[G.typeDie[G.kids[i][k]]] # {}
      BY <1>3, <1>5, <1>7 DEF Known
    <3> QED
      BY <3>1, <3>2 DEF Answers
  <2> HIDE DEF l, i, size
  <2>2. /\ \A k \in 1..Len(G.kids[i]) : IsMemberOf(G, G.kids[i][k])
        /\ \A k \in 1..Len(l) : /\ l[k] = [type |-> l[k].type, at |-> G.dies[G.kids[i][k]].location]
                                /\ l[k].type \in G.meaning[G.typeDie[G.kids[i][k]]]
    BY <1>5, <2>1
  <2>3. G.dies[i].byteSize = size
    BY <1>3 DEF size
  <2>4. \A xs \in Sorted(l) : StructType(size, xs) \in G.meaning[i]
    BY <1>3, <1>5, <2>2, <2>3 DEF MeaningOK
  <2> QED
    BY <2>4 DEF l
<1> HIDE DEF l, size
<1>8. Known(G) => Answers(G, value', calls[Len(calls)].die)
  BY <1>2, <1>3, <1>6, <1>7 DEF Answers
<1>9. value' # Null
  BY <1>2, <1>6
<1>10. ASSUME G.orderly PROVE calls[Len(calls)].die \notin G.doomed
  <2> DEFINE n == Len(f.members)
             c == Len(G.kids[f.die])
  <2>1. n \in Nat /\ n = c
    BY <1>5 DEF l
  <2>2. n = Len(f.members) /\ c = Len(G.kids[f.die])
    OBVIOUS
  <2> HIDE DEF n, c
  <2>3. n \in 0..c /\ ~(n < c)
    BY <2>1
  <2>4. f.die \notin G.doomed
    BY <1>3, <1>4, <1>10, <2>2, <2>3, StructIsSpared
  <2> QED
    BY <1>3, <2>4
<1> HIDE DEF i
<1>11. CallsOK(G, "return", at', value', below)
  BY <1>1, <1>3, <1>4, <1>8, <1>9, <1>10, Leave
<1> QED
  BY <1>1, <1>3, <1>11, Restate DEF G

------------------------------------------------------------------------------
(* The theorems *)

LEMMA CallsInit == ASSUME pc = "getVariableType", calls = << >>, InfoOK PROVE CallsInv
<1> DEFINE G == TypeGraph
<1>1. pc = "getVariableType" /\ calls = << >>
  OBVIOUS
<1>2. IsSeq(calls) /\ Len(calls) = 0
  <2>1. calls \in Seq({})
    BY <1>1
  <2> QED
    BY <1>1, <2>1 DEF IsSeq
<1>3. 1..Len(calls) = {} /\ 1..(Len(calls) - 1) = {}
  BY <1>2
<1> HIDE DEF G
<1>4. StackOK(G, pc, at, calls)
  BY <1>1, <1>2, <1>3 DEF StackOK
<1>5. /\ KnownOK(G, pc, at, value, calls) /\ DepthsOK(G, pc, at, calls)
      /\ CompleteOK(G, pc, value) /\ FateOK(G, pc, at, calls)
  BY <1>1, <1>3 DEF KnownOK, DepthsOK, CompleteOK, FateOK
<1>6. CallsOK(G, pc, at, value, calls)
  BY <1>4, <1>5 DEF CallsOK
<1> QED
  BY <1>6 DEF CallsInv, G

LEMMA CallsStep == ASSUME NullIsNoType, InfoOK, CallsInv, [Next]_vars PROVE CallsInv'
<1>1. CASE GetVariableType
  BY <1>1, GetVariableTypeStep
<1>2. CASE ReturnVariableType
  BY <1>2, ReturnVariableTypeStep
<1>3. CASE Typedef
  BY <1>3, TypedefStep
<1>4. CASE Unsupported
  BY <1>4, UnsupportedStep
<1>5. CASE Base
  BY <1>5, BaseStep
<1>6. CASE Overflow
  BY <1>6, OverflowStep
<1>7. CASE EnterArray
  BY <1>7, EnterArrayStep
<1>8. CASE LeaveArray
  BY <1>8, LeaveArrayStep
<1>9. CASE EnterStruct
  BY <1>9, EnterStructStep
<1>10. CASE NotAMember
  BY <1>10, NotAMemberStep
<1>11. CASE EnterMember
  BY <1>11, EnterMemberStep
<1>12. CASE LeaveMember
  BY <1>12, LeaveMemberStep
<1>13. CASE LeaveStruct
  BY <1>13, LeaveStructStep
<1>14. CASE EnterPointer
  BY <1>14, EnterPointerStep
<1>15. CASE LeavePointer
  BY <1>15, LeavePointerStep
<1>16. CASE Returned \/ UNCHANGED vars
  <2>1. UNCHANGED vars
    BY <1>16 DEF Returned
  <2>2. debugInfo' = debugInfo /\ CallsOK(TypeGraph, pc', at', value', calls')
    BY <2>1 DEF vars, CallsInv
  <2> QED
    BY <2>2, Restate
<1> QED
  BY <1>1, <1>2, <1>3, <1>4, <1>5, <1>6, <1>7, <1>8, <1>9, <1>10, <1>11, <1>12, <1>13, <1>14, <1>15, <1>16
  DEF Next

\* The DIEs are those of the unit that was read, and the invariant holds.
TypesInv == debugInfo \in Infos /\ CallsInv

LEMMA InfosOK == ASSUME debugInfo \in Infos PROVE InfoOK
  BY InfosAssumption DEF InfoOK

LEMMA TypesInvariant == ASSUME NullIsNoType PROVE Spec => []TypesInv
<1>1. Init => TypesInv
  <2> SUFFICES ASSUME Init PROVE TypesInv
    OBVIOUS
  <2>1. debugInfo \in Infos /\ pc = "getVariableType" /\ calls = << >>
    BY DEF Init
  <2> QED
    BY <2>1, InfosOK, CallsInit DEF TypesInv
<1>2. TypesInv /\ [Next]_vars => TypesInv'
  <2> SUFFICES ASSUME TypesInv, [Next]_vars PROVE TypesInv'
    OBVIOUS
  <2>1. InfoOK /\ CallsInv /\ debugInfo \in Infos
    BY InfosOK DEF TypesInv
  <2>2. CallsInv'
    BY <2>1, CallsStep
  <2>3. debugInfo' = debugInfo
    BY DEF Next, vars, GetVariableType, ReturnVariableType, Typedef, Unsupported, Base, Overflow, EnterArray,
           LeaveArray, EnterStruct, NotAMember, EnterMember, LeaveMember, LeaveStruct, EnterPointer,
           LeavePointer, Returned
  <2> QED
    BY <2>1, <2>2, <2>3 DEF TypesInv
<1> QED
  BY <1>1, <1>2, PTL DEF Spec

\* The type made for a variable (getVariableType) is what its DIEs mean, when all
\* members have a type the reader can make and no array has a second dimension:
\* whatever typedefs, arrays, structs and pointers it is made of, in any order of
\* the DIEs, recursive or not.
THEOREM KnownTypesAlwaysRight == ASSUME NullIsNoType PROVE Spec => []KnownTypeRight
<1>1. TypesInv => KnownTypeRight
  <2> SUFFICES ASSUME TypesInv, pc = "done", VariableType # 0, MembersKnown(VariableType), value # Null
               PROVE  value \in Meaning[VariableType]
    BY DEF KnownTypeRight, TypeRight
  <2>1. InfoOK /\ CallsOK(TypeGraph, pc, at, value, calls)
    BY InfosOK DEF TypesInv, CallsInv
  <2>2. Known(TypeGraph) /\ TypeGraph.var = VariableType /\ TypeGraph.meaning = Meaning
    BY <2>1, KnownGraph, GraphFields
  <2> DEFINE G == TypeGraph
  <2> HIDE DEF G
  <2>3. KnownOK(G, pc, at, value, calls)
    BY <2>1, <2>2 DEF CallsOK, G
  <2>4. Answers(G, value, G.var)
    BY <2>2, <2>3 DEF KnownOK, G
  <2> QED
    BY <2>2, <2>4 DEF Answers, G
<1> QED
  BY <1>1, TypesInvariant, PTL

\* No unit has more DIEs than the stack has room for calls.
RoomForAll == \A info \in Infos : Len(info) <= StackLimit

\* A type that refers to nothing that is missing, unsupported or itself is never
\* refused: the reader neither aborts, nor reads a null reference, nor exhausts
\* the stack, nor returns null, for any number of DIEs the stack has room for.
THEOREM CompleteTypesAlwaysResolved ==
  ASSUME NullIsNoType, RoomForAll PROVE Spec => []CompleteTypeResolved
<1>1. TypesInv => CompleteTypeResolved
  <2> SUFFICES ASSUME TypesInv, pc \in Ended, VariableType # 0, ~Recursive(VariableType),
                      \A j \in Reachable(VariableType) : /\ Meaning[j] # {}
                                                         /\ debugInfo[j].tag = "pointer_type" => TypeDieOf(j) # 0
               PROVE  pc = "done" /\ value # Null
    BY DEF CompleteTypeResolved
  <2>1. InfoOK /\ CallsOK(TypeGraph, pc, at, value, calls) /\ Len(debugInfo) <= StackLimit
    BY InfosOK DEF TypesInv, CallsInv, RoomForAll
  <2>2. Complete(TypeGraph) /\ TypeGraph.var = VariableType
    BY <2>1, CompleteGraph, GraphFields
  <2> DEFINE G == TypeGraph
  <2> HIDE DEF G
  <2>3. CompleteOK(G, pc, value)
    BY <2>1, <2>2 DEF CallsOK, G
  <2> QED
    BY <2>2, <2>3 DEF CompleteOK, G, Ended
<1> QED
  BY <1>1, TypesInvariant, PTL

\* How it ends, by what is below the variable's type.
LEMMA EndIsRight ==
  ASSUME InfoOK, CallsInv, Len(debugInfo) <= StackLimit, pc \in Ended, VariableType # 0, Orderly(VariableType)
  PROVE  /\ pc # "done" <=> Doomed(VariableType)
         /\ pc = "done" /\ MembersKnown(VariableType) => (value = Null <=> Meaning[VariableType] = {})
         /\ pc = "done" /\ (\A j \in Reachable(VariableType) : Meaning[j] # {}) => value # Null
<1>1. VariableType \in Indices
  BY VariableTypeType DEF IndexOrNone
<1> DEFINE G == TypeGraph
<1>2. /\ G.var = VariableType /\ G.meaning = Meaning /\ G.orderly
      /\ VariableType \in G.doomed <=> Doomed(VariableType)
  BY <1>1, GraphFields
<1>3. ~Acyclic(G) => Doomed(VariableType)
  BY GraphFields DEF Acyclic, Recursive, Doomed
<1>4. CallsOK(G, pc, at, value, calls)
  BY DEF CallsInv
<1>5. MembersKnown(VariableType) => Known(G)
  BY KnownGraph
<1>6. ~Doomed(VariableType) /\ (\A j \in Reachable(VariableType) : Meaning[j] # {}) => Complete(G)
  <2> SUFFICES ASSUME ~Doomed(VariableType), \A j \in Reachable(VariableType) : Meaning[j] # {} PROVE Complete(G)
    OBVIOUS
  <2>1. ~Recursive(VariableType) /\ \A j \in Reachable(VariableType) : ~Fatal(j)
    BY DEF Doomed
  <2>2. \A j \in Reachable(VariableType) : debugInfo[j].tag = "pointer_type" => TypeDieOf(j) # 0
    BY <2>1 DEF Fatal
  <2> QED
    BY <2>1, <2>2, CompleteGraph
<1> HIDE DEF G
<1>7. /\ FateOK(G, pc, at, calls)
      /\ Known(G) => KnownOK(G, pc, at, value, calls)
      /\ Acyclic(G) => DepthsOK(G, pc, at, calls)
      /\ Complete(G) => CompleteOK(G, pc, value)
  BY <1>2, <1>4 DEF CallsOK
<1>8. pc = "done" => ~Doomed(VariableType)
  BY <1>2, <1>7 DEF FateOK
<1>9. pc \in {"abort", "segv"} => Doomed(VariableType)
  BY <1>2, <1>7 DEF FateOK
<1>10. pc = "overflow" => Doomed(VariableType)
  BY <1>3, <1>7 DEF DepthsOK
<1>11. pc = "done" /\ Known(G) => (value = Null <=> Meaning[VariableType] = {})
  BY <1>2, <1>7 DEF KnownOK, Answers
<1>12. pc = "done" /\ Complete(G) => value # Null
  BY <1>2, <1>7 DEF CompleteOK
<1> QED
  BY <1>5, <1>6, <1>8, <1>9, <1>10, <1>11, <1>12 DEF Ended

\* However the types refer to each other, getVariableType comes to its end (no failed
\* assertion, no null reference, no full stack) for a type whose parts are in order and
\* that has no DIE below it which it cannot go on from, nor itself; and such a type is
\* not refused if it means something and its members, or all its parts, do.
THEOREM AlwaysResolvedUnlessDoomed ==
  ASSUME NullIsNoType, RoomForAll PROVE Spec => []ResolvedUnlessDoomed
<1>1. TypesInv => ResolvedUnlessDoomed
  <2> SUFFICES ASSUME TypesInv, pc \in Ended, VariableType # 0, Orderly(VariableType), ~Doomed(VariableType)
               PROVE  /\ pc = "done"
                      /\ /\ Meaning[VariableType] # {}
                         /\ MembersKnown(VariableType) \/ \A j \in Reachable(VariableType) : Meaning[j] # {}
                         => value # Null
    BY DEF ResolvedUnlessDoomed
  <2>1. InfoOK /\ CallsInv /\ Len(debugInfo) <= StackLimit
    BY InfosOK DEF TypesInv, RoomForAll
  <2>2. /\ pc # "done" <=> Doomed(VariableType)
        /\ pc = "done" /\ MembersKnown(VariableType) => (value = Null <=> Meaning[VariableType] = {})
        /\ pc = "done" /\ (\A j \in Reachable(VariableType) : Meaning[j] # {}) => value # Null
    BY <2>1, EndIsRight
  <2> QED
    BY <2>2
<1> QED
  BY <1>1, TypesInvariant, PTL

------------------------------------------------------------------------------
(* For those that run the type reader *)

\* What holds while a variable's type is looked for: a variable that has none gets none.
AnswerInv == InfoOK /\ CallsInv /\ (VariableType = 0 => value = Null)

LEMMA AnswerInit ==
  ASSUME pc = "getVariableType", value = Null, calls = << >>, InfoOK
  PROVE  AnswerInv
  BY CallsInit DEF AnswerInv

\* Every step keeps it.
LEMMA AnswerStep == ASSUME NullIsNoType, AnswerInv, [Next]_vars PROVE AnswerInv'
<1>1. InfoOK /\ CallsInv /\ (VariableType = 0 => value = Null)
  BY DEF AnswerInv
<1>2. CallsInv'
  BY <1>1, CallsStep
<1>3. debugInfo' = debugInfo
  BY DEF Next, vars, GetVariableType, ReturnVariableType, Typedef, Unsupported, Base, Overflow, EnterArray,
         LeaveArray, EnterStruct, NotAMember, EnterMember, LeaveMember, LeaveStruct, EnterPointer,
         LeavePointer, Returned
<1>4. InfoOK' /\ VariableType' = VariableType
  BY <1>1, <1>3, GraphStays, GraphFields DEF InfoOK, TypeGraph
<1>5. ASSUME VariableType = 0 PROVE value' = Null
  <2>1. value = Null /\ pc \in {"getVariableType", "done"}
    <3>1. TypeGraph.var = 0 /\ CallsOK(TypeGraph, pc, at, value, calls)
      BY <1>1, <1>5, GraphFields DEF CallsInv
    <3> DEFINE G == TypeGraph
    <3> HIDE DEF G
    <3>2. StackOK(G, pc, at, calls) /\ G.var = 0
      BY <3>1 DEF CallsOK, G
    <3>3. pc \in {"getVariableType", "done"}
      BY <3>2 DEF StackOK
    <3> QED
      BY <1>1, <1>5, <3>3
  <2>2. GetVariableType \/ UNCHANGED vars
    BY <2>1 DEF Next, ReturnVariableType, Typedef, Unsupported, Base, Overflow, EnterArray,
         LeaveArray, EnterStruct, NotAMember, EnterMember, LeaveMember, LeaveStruct, EnterPointer,
         LeavePointer, Returned, Entering, Back, InLoop
  <2>3. value' = value
    BY <2>2 DEF GetVariableType, End, CallTypeDie, vars
  <2> QED
    BY <2>1, <2>3
<1> QED
  BY <1>2, <1>4, <1>5 DEF AnswerInv

\* How it ends, for a variable or none.
LEMMA AnswerEnds ==
  ASSUME AnswerInv, pc \in Ended, Len(debugInfo) <= StackLimit,
         VariableType # 0 => MembersKnown(VariableType) /\ Orderly(VariableType)
  PROVE  IF VariableType = 0 THEN pc = "done" /\ value = Null
         ELSE /\ pc # "done" <=> Doomed(VariableType)
              /\ pc = "done" => (value = Null <=> Meaning[VariableType] = {})
<1>1. InfoOK /\ CallsInv /\ (VariableType = 0 => value = Null)
  BY DEF AnswerInv
<1>2. CASE VariableType = 0
  <2>1. TypeGraph.var = 0 /\ CallsOK(TypeGraph, pc, at, value, calls)
    BY <1>1, <1>2, GraphFields DEF CallsInv
  <2> DEFINE G == TypeGraph
  <2> HIDE DEF G
  <2>2. StackOK(G, pc, at, calls) /\ G.var = 0
    BY <2>1 DEF CallsOK, G
  <2>3. pc \in {"getVariableType", "done"}
    BY <2>2 DEF StackOK
  <2> QED
    BY <1>1, <1>2, <2>3 DEF Ended
<1>3. CASE VariableType # 0
  BY <1>1, <1>3, EndIsRight
<1> QED
  BY <1>2, <1>3

\* The type found is the variable's.
LEMMA AnswerRight ==
  ASSUME AnswerInv, pc = "done", value # Null, VariableType = 0 \/ MembersKnown(VariableType)
  PROVE  VariableType # 0 /\ value \in Meaning[VariableType]
<1>1. InfoOK /\ CallsOK(TypeGraph, pc, at, value, calls) /\ VariableType # 0
  BY DEF AnswerInv, CallsInv
<1>2. Known(TypeGraph) /\ TypeGraph.var = VariableType /\ TypeGraph.meaning = Meaning
  BY <1>1, KnownGraph, GraphFields
<1> DEFINE G == TypeGraph
<1> HIDE DEF G
<1>3. KnownOK(G, pc, at, value, calls)
  BY <1>1, <1>2 DEF CallsOK, G
<1>4. Answers(G, value, G.var)
  BY <1>1, <1>2, <1>3 DEF KnownOK, G
<1> QED
  BY <1>1, <1>2, <1>4 DEF Answers, G
==============================================================================
