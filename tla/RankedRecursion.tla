-------------------------- MODULE RankedRecursion --------------------------
(***************************************************************************)
(* Induction and recursion along a rank, in the form the provers can use:  *)
(* what is proved for every element is membership in a set, and what is    *)
(* defined is a function, so that neither takes an operator as parameter.  *)
(***************************************************************************)
EXTENDS Integers, WellFoundedInduction, TLAPS

\* Every nonempty set of numbers has a least one.
LEMMA LeastNumber ==
  ASSUME NEW T \in SUBSET Nat, T # {}
  PROVE  \E n \in T : \A m \in T : n <= m
<1> DEFINE R == OpToRel(<, Nat)
<1>1. IsWellFoundedOn(R, Nat)
  BY NatLessThanWellFounded
<1>2. ASSUME NEW m \in Nat, NEW n \in Nat, <<m, n>> \notin R
      PROVE  n <= m
  <2>1. R = {ss \in Nat \X Nat : ss[1] < ss[2]}
    BY DEF OpToRel
  <2> HIDE DEF R
  <2> QED
    BY <1>2, <2>1
<1> HIDE DEF R
<1>3. \E n \in T : \A m \in T : ~ (<<m, n>> \in R)
  BY <1>1, WFMin
<1> QED
  BY <1>2, <1>3

\* Every nonempty set of ranked elements has one of the least rank.
LEMMA LeastRank ==
  ASSUME NEW D, NEW rank \in [D -> Nat], NEW T \in SUBSET D, T # {}
  PROVE  \E s \in T : \A u \in T : rank[s] <= rank[u]
<1> DEFINE ranks == {rank[s] : s \in T}
<1>1. ranks \in SUBSET Nat /\ ranks # {}
  OBVIOUS
<1>2. PICK n \in ranks : \A m \in ranks : n <= m
  BY <1>1, LeastNumber
<1> QED
  BY <1>2

\* Induction along a rank: a set that has an element whenever it has all those
\* of a lower rank has every element.
LEMMA RankInduction ==
  ASSUME NEW D, NEW rank \in [D -> Nat], NEW G,
         \A s \in D : (\A u \in D : rank[u] < rank[s] => u \in G) => s \in G
  PROVE  \A s \in D : s \in G
<1> DEFINE bad == {s \in D : s \notin G}
<1>1. ASSUME bad # {} PROVE FALSE
  <2>1. PICK s \in bad : \A u \in bad : rank[s] <= rank[u]
    BY <1>1, LeastRank
  <2>2. \A u \in D : rank[u] < rank[s] => u \in G
    BY <2>1
  <2> QED
    BY <2>1, <2>2
<1> QED
  BY <1>1

\* Induction over the numbers from 0 to a bound.
LEMMA BoundedInduction ==
  ASSUME NEW N \in Nat, NEW G, 0 \in G,
         \A n \in 0..N : n < N /\ n \in G => n + 1 \in G
  PROVE  \A n \in 0..N : n \in G
<1> DEFINE rank == [n \in 0..N |-> n]
<1>1. rank \in [0..N -> Nat]
  OBVIOUS
<1>2. ASSUME NEW n \in 0..N, \A m \in 0..N : rank[m] < rank[n] => m \in G
      PROVE  n \in G
  <2>1. CASE n = 0
    BY <2>1
  <2>2. CASE n # 0
    <3>1. n - 1 \in 0..N /\ n - 1 < N /\ (n - 1) + 1 = n
      BY <2>2
    <3>2. n - 1 \in G
      BY <1>2, <3>1
    <3> QED
      BY <3>1, <3>2
  <2> QED
    BY <2>1, <2>2
<1> DEFINE D == 0..N
<1>3. /\ rank \in [D -> Nat]
      /\ \A n \in D : (\A m \in D : rank[m] < rank[n] => m \in G) => n \in G
  BY <1>1, <1>2
<1>4. \A n \in D : n \in G
  <2> HIDE DEF rank, D
  <2> QED
    BY <1>3, RankInduction
<1> QED
  BY <1>4

\* g takes its value at each element of D \ B from that at one other element.
Recursive(g, D, V, B, base, before, step) ==
    /\ g \in [D -> V]
    /\ \A s \in D : g[s] = IF s \in B THEN base[s] ELSE step[<<s, g[before[s]]>>]

\* Such a function exists if that other element always has a lower rank.
LEMMA RecursionExists ==
  ASSUME NEW D, NEW V, NEW N \in Nat, NEW rank \in [D -> 0..N],
         NEW B \in SUBSET D, NEW base \in [D -> V],
         NEW before \in [D -> D], NEW step \in [D \X V -> V],
         \A s \in D \ B : rank[before[s]] < rank[s]
  PROVE  \E g : Recursive(g, D, V, B, base, before, step)
<1> DEFINE upto(n) == {s \in D : rank[s] < n}
           defined(g, s) == g[s] = IF s \in B THEN base[s] ELSE step[<<s, g[before[s]]>>]
           solvable(n) == \E g \in [upto(n) -> V] : \A s \in upto(n) : defined(g, s)
           G == {n \in Nat : solvable(n)}
<1>1. solvable(0)
  <2>1. upto(0) = {}
    OBVIOUS
  <2>2. [s \in {} |-> 0] \in [upto(0) -> V] /\ \A s \in upto(0) : defined([t \in {} |-> 0], s)
    BY <2>1
  <2> QED
    BY <2>2
<1>2. ASSUME NEW n \in Nat, solvable(n) PROVE solvable(n + 1)
  <2>1. PICK g \in [upto(n) -> V] : \A s \in upto(n) : defined(g, s)
    BY <1>2
  <2> DEFINE h == [s \in upto(n + 1) |-> IF s \in B THEN base[s] ELSE step[<<s, g[before[s]]>>]]
  <2>2. \A s \in upto(n + 1) : s \in D /\ (s \notin B => before[s] \in upto(n))
    OBVIOUS
  <2>3. h \in [upto(n + 1) -> V]
    BY <2>2
  <2>4. \A s \in upto(n) : s \in upto(n + 1) /\ h[s] = g[s]
    BY <2>1
  <2>5. \A s \in upto(n + 1) : defined(h, s)
    BY <2>2, <2>4
  <2> HIDE DEF h, defined
  <2> QED
    BY <2>3, <2>5
<1>3. solvable(N + 1)
  <2> HIDE DEF solvable
  <2>1. 0 \in G /\ N + 1 \in Nat /\ N + 1 \in 0..N + 1
    BY <1>1
  <2>2. \A n \in 0..N + 1 : n < N + 1 /\ n \in G => n + 1 \in G
    BY <1>2
  <2> HIDE DEF G
  <2>3. \A n \in 0..N + 1 : n \in G
    BY <2>1, <2>2, BoundedInduction
  <2>4. N + 1 \in G
    BY <2>1, <2>3
  <2> QED
    BY <2>4 DEF G
<1>4. upto(N + 1) = D
  OBVIOUS
<1> QED
  BY <1>3, <1>4 DEF Recursive

\* Induction from the end of a text, whose positions are 0..n, to its start.
LEMMA BackwardInduction ==
  ASSUME NEW n \in Nat, NEW G,
         \A i \in 0..n : (\A j \in 0..n : i < j => j \in G) => i \in G
  PROVE  \A i \in 0..n : i \in G
<1> DEFINE D == 0..n
           rank == [i \in D |-> n - i]
<1>1. rank \in [D -> Nat]
  OBVIOUS
<1>2. ASSUME NEW i \in D, \A j \in D : rank[j] < rank[i] => j \in G
      PROVE  i \in G
  <2>1. \A j \in 0..n : i < j => rank[j] < rank[i]
    OBVIOUS
  <2> QED
    BY <1>2, <2>1
<1>3. \A i \in D : (\A j \in D : rank[j] < rank[i] => j \in G) => i \in G
  BY <1>2
<1>4. \A i \in D : i \in G
  <2> HIDE DEF D, rank
  <2> QED
    BY <1>1, <1>3, RankInduction
<1> QED
  BY <1>4

\* A function that takes its value at a position from that at a later one exists.
LEMMA BackwardRecursion ==
  ASSUME NEW n \in Nat, NEW V, NEW B \in SUBSET (0..n), NEW base \in [0..n -> V],
         NEW later \in [0..n -> 0..n], NEW step \in [(0..n) \X V -> V],
         \A i \in (0..n) \ B : i < later[i]
  PROVE  \E g : Recursive(g, 0..n, V, B, base, later, step)
<1> DEFINE D == 0..n
           rank == [i \in D |-> n - i]
<1>1. rank \in [D -> 0..n] /\ B \in SUBSET D /\ base \in [D -> V] /\ later \in [D -> D]
      /\ step \in [D \X V -> V]
  OBVIOUS
<1>2. \A i \in D \ B : rank[later[i]] < rank[i]
  OBVIOUS
<1>3. \E g : Recursive(g, D, V, B, base, later, step)
  <2> HIDE DEF D, rank
  <2> QED
    BY <1>1, <1>2, RecursionExists
<1> QED
  BY <1>3

\* g takes its value at each number from that at the one before.
Iterated(g, n, V, first, step) ==
    /\ g \in [0..n -> V] /\ g[0] = first
    /\ \A i \in 1..n : g[i] = step[<<i, g[i - 1]>>]

\* Such a function exists.
LEMMA ForwardRecursion ==
  ASSUME NEW n \in Nat, NEW V, NEW first \in V, NEW step \in [(1..n) \X V -> V]
  PROVE  \E g : Iterated(g, n, V, first, step)
<1> DEFINE D == 0..n
           rank == [i \in D |-> i]
           B == {0}
           base == [i \in D |-> first]
           before == [i \in D |-> IF i = 0 THEN 0 ELSE i - 1]
           total == [a \in D \X V |-> IF a[1] = 0 THEN first ELSE step[a]]
<1>1. /\ rank \in [D -> 0..n] /\ B \in SUBSET D /\ base \in [D -> V] /\ before \in [D -> D]
  OBVIOUS
<1>2. total \in [D \X V -> V]
  <2>1. ASSUME NEW a \in D \X V PROVE (IF a[1] = 0 THEN first ELSE step[a]) \in V
    <3>1. CASE a[1] = 0
      BY <3>1
    <3>2. CASE a[1] # 0
      <4>1. a \in (1..n) \X V
        BY <3>2
      <4> QED
        BY <3>2, <4>1
    <3> QED
      BY <3>1, <3>2
  <2> QED
    BY <2>1
<1>3. \A s \in D \ B : rank[before[s]] < rank[s]
  OBVIOUS
<1>4. PICK g : Recursive(g, D, V, B, base, before, total)
  <2> HIDE DEF D, rank, B, base, before, total
  <2>1. \E g : Recursive(g, D, V, B, base, before, total)
    BY <1>1, <1>2, <1>3, RecursionExists
  <2> QED
    BY <2>1
<1>5. /\ g \in [D -> V]
      /\ \A s \in D : g[s] = IF s \in B THEN base[s] ELSE total[<<s, g[before[s]]>>]
  BY <1>4 DEF Recursive
<1>6. ASSUME NEW i \in 1..n PROVE g[i] = step[<<i, g[i - 1]>>]
  <2>1. i \in D /\ i \notin B /\ before[i] = i - 1 /\ i - 1 \in D
    OBVIOUS
  <2>2. g[i - 1] \in V
    BY <1>5, <2>1
  <2>3. total[<<i, g[i - 1]>>] = step[<<i, g[i - 1]>>]
    BY <2>1, <2>2
  <2> QED
    BY <1>5, <2>1, <2>3
<1>7. g[0] = first
  <2>1. 0 \in D /\ 0 \in B /\ base[0] = first
    OBVIOUS
  <2> QED
    BY <1>5, <2>1
<1> QED
  BY <1>5, <1>6, <1>7 DEF Iterated
=============================================================================
