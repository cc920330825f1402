------------------------ MODULE SpecialTokensProofs ------------------------
(***************************************************************************)
(* Why cutting a text at special tokens is safe: if no special token       *)
(* contains another one or begins where one ends, then no two of them ever *)
(* share a letter, and the tokens of a text are those of its pieces.  Texts*)
(* and tokens of any alphabet and length; no bound.                        *)
(***************************************************************************)
EXTENDS MCSpecialTokens, RankedRecursion, SequenceTheorems, TLAPS

LEMMA CutFacts ==
  ASSUME NEW A, NEW t \in Seq(A), NEW p \in 0..Len(t), NEW q \in p..Len(t)
  PROVE  /\ Cut(t, p, q) \in Seq(A)
         /\ Len(Cut(t, p, q)) = q - p
         /\ \A k \in 1..q - p : Cut(t, p, q)[k] = t[p + k]
BY DEF Cut

LEMMA CutEqual ==
  ASSUME NEW A, NEW s \in Seq(A), NEW u \in Seq(A), Len(s) = Len(u),
         \A k \in 1..Len(s) : s[k] = u[k]
  PROVE  s = u
OBVIOUS

LEMMA PrefixFacts ==
  ASSUME NEW A, NEW t \in Seq(A), NEW q \in 0..Len(t)
  PROVE  /\ Cut(t, 0, q) \in Seq(A)
         /\ Len(Cut(t, 0, q)) = q
         /\ \A k \in 1..q : Cut(t, 0, q)[k] = t[k]
BY DEF Cut

LEMMA CutOfCut ==
  ASSUME NEW A, NEW t \in Seq(A), NEW p \in 0..Len(t), NEW q \in p..Len(t),
         NEW m \in 0..q - p, NEW n \in m..q - p
  PROVE  Cut(Cut(t, p, q), m, n) = Cut(t, p + m, p + n)
<1> DEFINE c == Cut(t, p, q)
<1>1. c \in Seq(A) /\ Len(c) = q - p /\ \A k \in 1..q - p : c[k] = t[p + k]
  BY CutFacts
<1>2. /\ m \in 0..Len(c) /\ n \in m..Len(c)
      /\ p + m \in 0..Len(t) /\ p + n \in (p + m)..Len(t) /\ (p + n) - (p + m) = n - m
  BY <1>1
<1> HIDE DEF c
<1>3. /\ Cut(c, m, n) \in Seq(A) /\ Len(Cut(c, m, n)) = n - m
      /\ \A k \in 1..n - m : Cut(c, m, n)[k] = c[m + k]
  BY <1>1, <1>2, CutFacts
<1>4. /\ Cut(t, p + m, p + n) \in Seq(A) /\ Len(Cut(t, p + m, p + n)) = n - m
      /\ \A k \in 1..n - m : Cut(t, p + m, p + n)[k] = t[p + m + k]
  BY <1>2, CutFacts
<1>5. ASSUME NEW k \in 1..n - m PROVE m + k \in 1..q - p /\ c[m + k] = t[p + m + k]
  <2>1. m + k \in 1..q - p /\ p + (m + k) = p + m + k
    OBVIOUS
  <2>2. c[m + k] = t[p + (m + k)]
    BY <1>1, <2>1
  <2> QED
    BY <2>1, <2>2
<1>6. Cut(c, m, n) = Cut(t, p + m, p + n)
  <2> DEFINE x == Cut(c, m, n)
             y == Cut(t, p + m, p + n)
  <2>1. x \in Seq(A) /\ y \in Seq(A) /\ Len(x) = Len(y) /\ \A k \in 1..Len(x) : x[k] = y[k]
    BY <1>3, <1>4, <1>5
  <2> HIDE DEF x, y
  <2>2. x = y
    BY <2>1, CutEqual
  <2> QED
    BY <2>2 DEF x, y
<1> QED
  BY <1>6 DEF c

LEMMA WholeCut ==
  ASSUME NEW A, NEW t \in Seq(A)
  PROVE  Cut(t, 0, Len(t)) = t
BY DEF Cut

\* When a cut is a given text.
LEMMA CutMatches ==
  ASSUME NEW A, NEW t \in Seq(A), NEW u \in Seq(A),
         NEW p \in 0..Len(t), NEW q \in p..Len(t), q - p = Len(u)
  PROVE  Cut(t, p, q) = u <=> \A k \in 1..Len(u) : u[k] = t[p + k]
<1> DEFINE c == Cut(t, p, q)
<1>1. c \in Seq(A) /\ Len(c) = Len(u) /\ \A k \in 1..Len(u) : c[k] = t[p + k]
  BY CutFacts
<1> HIDE DEF c
<1>2. (\A k \in 1..Len(u) : c[k] = u[k]) => c = u
  BY <1>1, CutEqual
<1>3. c = u <=> \A k \in 1..Len(u) : u[k] = t[p + k]
  BY <1>1, <1>2
<1> QED
  BY <1>3 DEF c

\* When a text ends with a given one at a position.
LEMMA EndsWithFacts ==
  ASSUME NEW A, NEW t \in Seq(A), NEW u \in Seq(A), NEW q \in 0..Len(t)
  PROVE  EndsWith(Cut(t, 0, q), u) <=>
            Len(u) <= q /\ \A k \in 1..Len(u) : u[k] = t[(q - Len(u)) + k]
<1> DEFINE c == Cut(t, 0, q)
           p == q - Len(u)
<1>1. c \in Seq(A) /\ Len(c) = q /\ Len(t) \in Nat /\ q - 0 = q /\ Len(u) \in Nat
  BY PrefixFacts
<1>2. ASSUME Len(u) <= q
      PROVE  Cut(c, p, q) = u <=> \A k \in 1..Len(u) : u[k] = t[p + k]
  <2>1. /\ p \in 0..q - 0 /\ q \in p..q - 0 /\ 0 \in 0..Len(t) /\ q \in 0..Len(t)
        /\ 0 + p = p /\ 0 + q = q
        /\ p \in 0..Len(t) /\ q \in p..Len(t) /\ q - p = Len(u)
    BY <1>1, <1>2
  <2> HIDE DEF p
  <2>2. Cut(c, p, q) = Cut(t, p, q)
    BY <2>1, CutOfCut
  <2> QED
    BY <2>1, <2>2, CutMatches
<1> HIDE DEF p
<1>3. EndsWith(c, u) <=> Len(u) <= q /\ Cut(c, p, q) = u
  BY <1>1 DEF EndsWith, p
<1> QED
  BY <1>2, <1>3 DEF p

\* The special token s of toks starts at p, letter by letter.
StartsAt(toks, t, p, s) ==
    /\ s \in toks
    /\ p + Len(s) <= Len(t)
    /\ \A k \in 1..Len(s) : s[k] = t[p + k]

LEMMA StartingFacts ==
  ASSUME NEW A, NEW toks \in SUBSET Seq(A), NEW t \in Seq(A), NEW p \in 0..Len(t), NEW s
  PROVE  s \in Starting(toks, t, p) <=> StartsAt(toks, t, p, s)
<1>1. s \in Starting(toks, t, p) <=> s \in toks /\ Len(s) <= Len(t) - p /\ Cut(t, p, p + Len(s)) = s
  BY DEF Starting
<1>2. ASSUME s \in toks, p + Len(s) <= Len(t)
      PROVE  Cut(t, p, p + Len(s)) = s <=> \A k \in 1..Len(s) : s[k] = t[p + k]
  <2> DEFINE q == p + Len(s)
  <2>1. s \in Seq(A) /\ q \in p..Len(t) /\ q - p = Len(s)
    BY <1>2
  <2> HIDE DEF q
  <2>2. Cut(t, p, q) = s <=> \A k \in 1..Len(s) : s[k] = t[p + k]
    BY <2>1, CutMatches
  <2> QED
    BY <2>2 DEF q
<1>3. s \in toks => Len(s) \in Nat /\ Len(t) \in Nat
  OBVIOUS
<1> QED
  BY <1>1, <1>2, <1>3 DEF StartsAt

\* A token that another one contains, at an offset d.
LEMMA ContainedAt ==
  ASSUME NEW A, NEW s \in Seq(A), NEW u \in Seq(A), NEW d \in Nat, d + Len(u) <= Len(s),
         \A k \in 1..Len(u) : u[k] = s[d + k]
  PROVE  Contains(s, u)
<1> DEFINE e == d + Len(u)
<1>1. e \in 0..Len(s) /\ e \in Len(u)..Len(s) /\ e - Len(u) = d /\ Len(u) <= e
  OBVIOUS
<1> HIDE DEF e
<1>2. EndsWith(Cut(s, 0, e), u)
  BY <1>1, EndsWithFacts
<1> QED
  BY <1>1, <1>2 DEF Contains

\* A token that ends, at an offset d, with the first letters of another one.
LEMMA OverlapsAt ==
  ASSUME NEW A, NEW s \in Seq(A), NEW u \in Seq(A),
         NEW d \in 1..Len(s) - 1, Len(s) - d < Len(u),
         \A k \in 1..Len(s) - d : u[k] = s[d + k]
  PROVE  Overlaps(s, u)
<1> DEFINE n == Len(s) - d
<1>1. /\ n \in 1..Len(s) - 1 /\ n \in 0..Len(u) /\ n - 0 = n /\ n < Len(u) /\ Len(s) - n = d
      /\ d \in 0..Len(s) /\ Len(s) \in d..Len(s) /\ 0 \in 0..Len(u)
      /\ Len(s) \in Nat /\ Len(u) \in Nat
  OBVIOUS
<1>2. \A k \in 1..n : u[k] = s[d + k]
  OBVIOUS
<1>3. Len(s) - d = n
  OBVIOUS
<1> HIDE DEF n
<1> DEFINE c == Cut(u, 0, n)
<1>4. c \in Seq(A) /\ Len(c) = n /\ \A k \in 1..n : c[k] = u[k]
  BY <1>1, PrefixFacts
<1>5. \A k \in 1..n : c[k] = s[d + k]
  BY <1>1, <1>2, <1>4
<1> HIDE DEF c
<1>6. Cut(s, d, Len(s)) = c
  BY <1>1, <1>3, <1>4, <1>5, CutMatches
<1>7. Min({Len(s), Len(u)}) = IF Len(s) <= Len(u) THEN Len(s) ELSE Len(u)
  BY <1>1 DEF Min
<1>8. n \in 1..Min({Len(s), Len(u)}) - 1
  BY <1>1, <1>7
<1> QED
  BY <1>1, <1>6, <1>8 DEF Overlaps, c

\* Two occurrences of special tokens.
LEMMA NoSharedLetters ==
  ASSUME NEW A, NEW toks \in SUBSET Seq(A), <<>> \notin toks, ~ UnsafeOverlap(toks), NEW t \in Seq(A),
         NEW i \in 0..Len(t), NEW j \in i..Len(t),
         NEW s \in Starting(toks, t, i), NEW u \in Starting(toks, t, j),
         <<i, s>> # <<j, u>>
  PROVE  i + Len(s) <= j
<1> SUFFICES ASSUME j < i + Len(s) PROVE FALSE
  <2>1. s \in Seq(A)
    BY DEF Starting
  <2> QED
    BY <2>1
<1>0. j \in 0..Len(t)
  OBVIOUS
<1>1. /\ s \in toks /\ s \in Seq(A) /\ Len(s) \in Nat /\ s # <<>>
      /\ i + Len(s) <= Len(t) /\ \A k \in 1..Len(s) : s[k] = t[i + k]
  <2>1. StartsAt(toks, t, i, s)
    BY StartingFacts
  <2> QED
    BY <2>1 DEF StartsAt
<1>2. /\ u \in toks /\ u \in Seq(A) /\ Len(u) \in Nat /\ u # <<>>
      /\ j + Len(u) <= Len(t) /\ \A k \in 1..Len(u) : u[k] = t[j + k]
  <2>1. StartsAt(toks, t, j, u)
    BY <1>0, StartingFacts
  <2> QED
    BY <2>1 DEF StartsAt
<1>3. Len(s) > 0 /\ Len(u) > 0
  BY <1>1, <1>2
<1> DEFINE d == j - i
<1>4. d \in Nat /\ d < Len(s) /\ Len(t) \in Nat
  BY <1>1
<1>5. \A v, w \in toks : v # w => ~ TokensCanOverlap(v, w)
  BY DEF UnsafeOverlap
<1>6. \A v, w \in toks : ~ Overlaps(v, w)
  BY <1>5 DEF UnsafeOverlap, TokensCanOverlap
<1>7. d + Len(u) <= Len(s) => Contains(s, u)
  <2> SUFFICES ASSUME d + Len(u) <= Len(s) PROVE Contains(s, u)
    OBVIOUS
  <2>1. ASSUME NEW k \in 1..Len(u) PROVE u[k] = s[d + k]
    <3>1. d + k \in 1..Len(s) /\ i + (d + k) = j + k
      BY <1>2, <1>4
    <3> QED
      BY <1>1, <1>2, <3>1
  <2> HIDE DEF d
  <2> QED
    BY <1>1, <1>2, <1>4, <2>1, ContainedAt
<1>8. ASSUME NEW k \in 1..Len(s) - d, Len(s) < d + Len(u)
      PROVE  u[k] = s[d + k]
  <2>1. d + k \in 1..Len(s) /\ k \in 1..Len(u) /\ i + (d + k) = j + k
    BY <1>1, <1>2, <1>4, <1>8
  <2> QED
    BY <1>1, <1>2, <2>1
<1>9. d = 0 /\ s = u => FALSE
  BY <1>1, <1>2
<1> HIDE DEF d
<1>10. CASE d + Len(u) <= Len(s)
  <2>1. s # u
    BY <1>1, <1>4, <1>9, <1>10
  <2> QED
    BY <1>1, <1>2, <1>5, <1>7, <1>10, <2>1 DEF TokensCanOverlap
<1>11. CASE Len(s) < d + Len(u) /\ d = 0
  <2>1. \A k \in 1..Len(s) : s[k] = u[0 + k]
    BY <1>1, <1>2, <1>8, <1>11
  <2>2. 0 + Len(s) <= Len(u) /\ 0 \in Nat
    BY <1>1, <1>2, <1>11
  <2>3. Contains(u, s)
    BY <1>1, <1>2, <2>1, <2>2, ContainedAt
  <2> QED
    BY <1>1, <1>2, <1>5, <1>9, <1>11, <2>3 DEF TokensCanOverlap
<1>12. CASE Len(s) < d + Len(u) /\ d # 0
  <2>1. d \in 1..Len(s) - 1 /\ Len(s) - d < Len(u)
    BY <1>1, <1>2, <1>4, <1>12
  <2>2. Overlaps(s, u)
    BY <1>1, <1>2, <1>8, <1>12, <2>1, OverlapsAt
  <2> QED
    BY <1>1, <1>2, <1>6, <2>2
<1> QED
  BY <1>1, <1>2, <1>4, <1>10, <1>11, <1>12

-----------------------------------------------------------------------------
(* The functions Encode defines by recursion, from the end of the text.    *)

Special(toks, t, i) == Starting(toks, t, i) # {}

RunEquation(run, toks, t) ==
    run = [i \in 0..Len(t) |-> IF i = Len(t) \/ Special(toks, t, i) THEN i ELSE run[i + 1]]

Run(toks, t) == CHOOSE run : RunEquation(run, toks, t)

\* The end of the token that starts at i.
After(sel, toks, t, i) ==
    IF Special(toks, t, i) THEN i + Selected(sel, toks, t, i) ELSE Run(toks, t)[i]

Token(sel, toks, t, i) == <<Special(toks, t, i), Cut(t, i, After(sel, toks, t, i))>>

FromEquation(from, sel, toks, t) ==
    from = [i \in 0..Len(t) |->
               IF i = Len(t) THEN <<>>
               ELSE <<Token(sel, toks, t, i)>> \o from[After(sel, toks, t, i)]]

From(sel, toks, t) == CHOOSE from : FromEquation(from, sel, toks, t)

LEMMA EncodeIsFrom ==
  ASSUME NEW sel, NEW toks, NEW t
  PROVE  Encode(sel, toks, t) = From(sel, toks, t)[0]
BY Zenon DEF Encode, From, FromEquation, Token, After, Run, RunEquation, Special

LEMMA SelectedFacts ==
  ASSUME NEW A, NEW toks \in SUBSET Seq(A), <<>> \notin toks, NEW t \in Seq(A),
         NEW i \in 0..Len(t), Special(toks, t, i), NEW sel \in Selections
  PROVE  /\ Selected(sel, toks, t, i) \in 1..Len(t) - i
         /\ \E s \in Starting(toks, t, i) : Selected(sel, toks, t, i) = Len(s)
<1> DEFINE L == {Len(s) : s \in Starting(toks, t, i)}
           N == Len(t) - i
<1>1. N \in Nat
  OBVIOUS
<1>2. L # {} /\ L \in SUBSET (1..N)
  <2>1. \A s \in Starting(toks, t, i) : Len(s) \in 1..N
    BY DEF Starting
  <2> QED
    BY <2>1 DEF Special
<1>3. Selected(sel, toks, t, i) = IF sel = "longest" THEN Max(L) ELSE Min(L)
  BY DEF Selected
<1>4. \A x \in L : \E s \in Starting(toks, t, i) : x = Len(s)
  OBVIOUS
<1> HIDE DEF L, N
<1>5. Min(L) \in L
  <2>1. L \in SUBSET Nat
    BY <1>1, <1>2
  <2>2. \E x \in L : \A y \in L : x <= y
    BY <1>2, <2>1, LeastNumber
  <2> QED
    BY <2>2 DEF Min
<1>6. Max(L) \in L
  <2> DEFINE R == {N - x : x \in L}
  <2>1. R \in SUBSET Nat /\ R # {}
    <3>1. \A x \in L : N - x \in Nat
      BY <1>1, <1>2
    <3>2. R \in SUBSET Nat
      BY <3>1
    <3>3. PICK x \in L : TRUE
      BY <1>2
    <3>4. N - x \in R
      OBVIOUS
    <3> QED
      BY <3>2, <3>4
  <2>2. \E m \in R : \A k \in R : m <= k
    <3> HIDE DEF R
    <3> QED
      BY <2>1, LeastNumber
  <2>3. PICK x \in L : \A y \in L : N - x <= N - y
    BY <2>2
  <2>4. \A y \in L : x >= y
    BY <1>1, <1>2, <2>3
  <2> QED
    BY <2>4 DEF Max
<1>7. Selected(sel, toks, t, i) \in L
  BY <1>3, <1>5, <1>6
<1> QED
  BY <1>2, <1>4, <1>7 DEF N

\* What the function run is.
IsRun(run, toks, t) ==
    /\ run \in [0..Len(t) -> 0..Len(t)]
    /\ \A i \in 0..Len(t) : i = Len(t) \/ Special(toks, t, i) => run[i] = i
    /\ \A i \in 0..Len(t) : i # Len(t) /\ ~ Special(toks, t, i) => run[i] = run[i + 1]

LEMMA RunFacts ==
  ASSUME NEW A, NEW t \in Seq(A), NEW toks
  PROVE  IsRun(Run(toks, t), toks, t)
<1> DEFINE n == Len(t)
           D == 0..n
           B == {i \in D : i = n \/ Special(toks, t, i)}
           base == [i \in D |-> i]
           later == [i \in D |-> IF i = n THEN n ELSE i + 1]
           step == [a \in D \X D |-> a[2]]
<1>1. n \in Nat /\ B \in SUBSET (0..n) /\ base \in [0..n -> D]
      /\ later \in [0..n -> 0..n] /\ step \in [(0..n) \X D -> D]
  OBVIOUS
<1>2. \A i \in (0..n) \ B : i < later[i]
  OBVIOUS
<1>3. \E g : Recursive(g, 0..n, D, B, base, later, step)
  <2> HIDE DEF n, D, B, base, later, step
  <2> QED
    BY <1>1, <1>2, BackwardRecursion
<1>4. PICK g : Recursive(g, D, D, B, base, later, step)
  BY <1>3
<1>5. /\ g \in [D -> D]
      /\ \A i \in D : g[i] = IF i = n \/ Special(toks, t, i) THEN i ELSE g[i + 1]
  <2>1. \A i \in D : g[i] = IF i \in B THEN base[i] ELSE step[<<i, g[later[i]]>>]
    BY <1>4 DEF Recursive
  <2>2. g \in [D -> D]
    BY <1>4 DEF Recursive
  <2>3. ASSUME NEW i \in D, i \notin B PROVE g[i] = g[i + 1]
    <3>1. later[i] = i + 1 /\ i + 1 \in D
      BY <2>3
    <3>2. <<i, g[i + 1]>> \in D \X D
      BY <2>2, <3>1
    <3> QED
      BY <2>1, <2>3, <3>1, <3>2
  <2> QED
    BY <2>1, <2>2, <2>3
<1>6. RunEquation(g, toks, t)
  BY <1>5 DEF RunEquation
<1> DEFINE run == Run(toks, t)
           G == {i \in D : run[i] \in D}
<1>7. RunEquation(run, toks, t)
  BY <1>6, Zenon DEF Run
<1> HIDE DEF run
<1>8. \A i \in D : run[i] = IF i = n \/ Special(toks, t, i) THEN i ELSE run[i + 1]
  BY <1>7 DEF RunEquation
<1>9. \A i \in 0..n : (\A j \in 0..n : i < j => j \in G) => i \in G
  BY <1>8
<1>10. \A i \in 0..n : i \in G
  <2> HIDE DEF G, n
  <2> QED
    BY <1>1, <1>9, BackwardInduction
<1>11. run = [i \in D |-> run[i]]
  BY <1>7 DEF RunEquation
<1>12. run \in [D -> D]
  BY <1>10, <1>11
<1> QED
  BY <1>8, <1>12 DEF IsRun, run

\* Ordinary text runs to the end, or to the next special token.
LEMMA RunBounds ==
  ASSUME NEW A, NEW t \in Seq(A), NEW toks, NEW run, IsRun(run, toks, t),
         NEW c \in 0..Len(t), c = Len(t) \/ Special(toks, t, c)
  PROVE  \A i \in 0..c : run[i] \in i..c /\ (i # Len(t) /\ ~ Special(toks, t, i) => run[i] > i)
<1> DEFINE n == Len(t)
           G == {i \in 0..n : i <= c => run[i] \in i..c}
<1>1. n \in Nat
  OBVIOUS
<1>2. /\ \A i \in 0..n : i = n \/ Special(toks, t, i) => run[i] = i
      /\ \A i \in 0..n : i # n /\ ~ Special(toks, t, i) => run[i] = run[i + 1]
  BY DEF IsRun
<1>3. ASSUME NEW i \in 0..n, \A j \in 0..n : i < j => j \in G
      PROVE  i \in G
  <2>1. CASE i = n \/ Special(toks, t, i)
    BY <1>2, <2>1
  <2>2. CASE i # n /\ ~ Special(toks, t, i)
    <3>1. i + 1 \in G /\ run[i] = run[i + 1] /\ i # c
      BY <1>2, <1>3, <2>2
    <3> QED
      BY <3>1
  <2> QED
    BY <2>1, <2>2
<1>4. \A i \in 0..n : i \in G
  <2>1. \A i \in 0..n : (\A j \in 0..n : i < j => j \in G) => i \in G
    BY <1>3
  <2> HIDE DEF G, n
  <2> QED
    BY <1>1, <2>1, BackwardInduction
<1>5. ASSUME NEW i \in 0..c, i # n, ~ Special(toks, t, i)
      PROVE  run[i] > i
  <2>1. i + 1 \in 0..c /\ i \in 0..n /\ i + 1 \in 0..n
    BY <1>5
  <2>2. run[i] = run[i + 1] /\ run[i + 1] \in i + 1..c
    BY <1>2, <1>4, <1>5, <2>1
  <2> QED
    BY <2>1, <2>2
<1> QED
  BY <1>4, <1>5

Tokens(A) == BOOLEAN \X Seq(A)

\* Every position but the last has a token, and it is not empty.
LEMMA AfterFacts ==
  ASSUME NEW A, NEW toks \in SUBSET Seq(A), <<>> \notin toks, NEW t \in Seq(A),
         NEW sel \in Selections, NEW i \in 0..Len(t)
  PROVE  /\ After(sel, toks, t, i) \in i..Len(t)
         /\ i # Len(t) => After(sel, toks, t, i) > i
         /\ Token(sel, toks, t, i) \in Tokens(A)
<1> DEFINE run == Run(toks, t)
           n == Len(t)
           m == After(sel, toks, t, i)
<1>1. IsRun(run, toks, t) /\ n \in Nat /\ n \in 0..n /\ n = n
  BY RunFacts
<1>2. m \in i..n /\ (i # n => m > i)
  <2>1. CASE Special(toks, t, i)
    <3>1. Selected(sel, toks, t, i) \in 1..n - i
      BY <2>1, SelectedFacts
    <3>2. m = i + Selected(sel, toks, t, i)
      BY <2>1 DEF After
    <3> QED
      BY <1>1, <3>1, <3>2
  <2>2. CASE ~ Special(toks, t, i)
    <3>1. m = run[i]
      BY <2>2 DEF After
    <3> HIDE DEF run
    <3>2. \A k \in 0..n : run[k] \in k..n /\ (k # Len(t) /\ ~ Special(toks, t, k) => run[k] > k)
      BY <1>1, RunBounds
    <3> QED
      BY <2>2, <3>1, <3>2
  <2> QED
    BY <2>1, <2>2
<1> HIDE DEF m
<1>3. Cut(t, i, m) \in Seq(A)
  BY <1>1, <1>2, CutFacts
<1>4. Special(toks, t, i) \in BOOLEAN
  BY DEF Special
<1>5. Token(sel, toks, t, i) = <<Special(toks, t, i), Cut(t, i, m)>>
  BY DEF Token, m
<1> QED
  BY <1>2, <1>3, <1>4, <1>5 DEF Tokens, m

\* What the function from is.
IsFrom(from, sel, toks, t, A) ==
    /\ from \in [0..Len(t) -> Seq(Tokens(A))]
    /\ from[Len(t)] = <<>>
    /\ \A i \in 0..Len(t) : i # Len(t) =>
          from[i] = <<Token(sel, toks, t, i)>> \o from[After(sel, toks, t, i)]

LEMMA FromFacts ==
  ASSUME NEW A, NEW toks \in SUBSET Seq(A), <<>> \notin toks, NEW t \in Seq(A), NEW sel \in Selections
  PROVE  IsFrom(From(sel, toks, t), sel, toks, t, A)
<1> DEFINE n == Len(t)
           D == 0..n
           B == {n}
           V == Seq(Tokens(A))
           token == [i \in D |-> Token(sel, toks, t, i)]
           base == [i \in D |-> <<>>]
           later == [i \in D |-> After(sel, toks, t, i)]
           step == [x \in D \X V |-> <<token[x[1]]>> \o x[2]]
<1>1. n \in Nat /\ B \in SUBSET (0..n) /\ base \in [0..n -> V]
  OBVIOUS
<1>2. token \in [D -> Tokens(A)]
  BY AfterFacts
<1>3. \A i \in D : After(sel, toks, t, i) \in i..n /\ (i # n => After(sel, toks, t, i) > i)
  BY AfterFacts
<1>4. later \in [0..n -> 0..n] /\ \A i \in (0..n) \ B : i < later[i]
  BY <1>1, <1>3
<1>5. step \in [D \X V -> V]
  <2> HIDE DEF token
  <2>1. ASSUME NEW i \in D, NEW u \in V PROVE <<token[i]>> \o u \in V
    <3> HIDE DEF D
    <3>1. <<token[i]>> \in V
      BY <1>2
    <3> QED
      BY <3>1, ConcatProperties
  <2> HIDE DEF V, D
  <2> QED
    BY <2>1
<1>6. \E g : Recursive(g, 0..n, V, B, base, later, step)
  <2>1. step \in [(0..n) \X V -> V]
    BY <1>5
  <2> HIDE DEF n, D, V, B, base, later, step
  <2> QED
    BY <1>1, <1>4, <2>1, BackwardRecursion
<1>7. PICK g : Recursive(g, D, V, B, base, later, step)
  BY <1>6
<1>8. g \in [D -> V] /\ \A i \in D : g[i] = IF i = n THEN <<>> ELSE <<token[i]>> \o g[later[i]]
  <2>1. g \in [D -> V] /\ \A i \in D : g[i] = IF i \in B THEN base[i] ELSE step[<<i, g[later[i]]>>]
    BY <1>7 DEF Recursive
  <2>2. \A i \in D : later[i] \in D
    BY <1>3
  <2>3. \A i \in D : step[<<i, g[later[i]]>>] = <<token[i]>> \o g[later[i]]
    <3> HIDE DEF token, V, D, later
    <3> QED
      BY <2>1, <2>2
  <2>4. \A i \in D : base[i] = <<>> /\ (i \in B <=> i = n)
    OBVIOUS
  <2> HIDE DEF token, V, D, later, step, base, B
  <2> QED
    BY <2>1, <2>3, <2>4
<1>9. FromEquation(g, sel, toks, t)
  <2>1. \A i \in D : token[i] = Token(sel, toks, t, i) /\ later[i] = After(sel, toks, t, i)
    OBVIOUS
  <2> HIDE DEF token, later, V
  <2> QED
    BY <1>8, <2>1 DEF FromEquation
<1> DEFINE from == From(sel, toks, t)
           G == {i \in D : from[i] \in V}
<1>10. FromEquation(from, sel, toks, t)
  BY <1>9, Zenon DEF From
<1> HIDE DEF from
<1>11. \A i \in D : from[i] = IF i = n THEN <<>>
                              ELSE <<Token(sel, toks, t, i)>> \o from[After(sel, toks, t, i)]
  BY <1>10 DEF FromEquation
<1>12. ASSUME NEW i \in 0..n, \A j \in 0..n : i < j => j \in G
       PROVE  i \in G
  <2>1. CASE i = n
    <3>1. <<>> \in V
      OBVIOUS
    <3> HIDE DEF V
    <3>2. from[i] = <<>>
      BY <1>11, <2>1
    <3> QED
      BY <3>1, <3>2
  <2>2. CASE i # n
    <3>1. After(sel, toks, t, i) \in G
      BY <1>1, <1>3, <1>12, <2>2
    <3>2. Token(sel, toks, t, i) \in Tokens(A)
      BY AfterFacts
    <3>3. <<Token(sel, toks, t, i)>> \in V
      BY <3>2
    <3>4. from[i] = <<Token(sel, toks, t, i)>> \o from[After(sel, toks, t, i)]
      BY <1>11, <2>2
    <3> DEFINE x == <<Token(sel, toks, t, i)>>
               y == from[After(sel, toks, t, i)]
    <3>5. x \in V /\ y \in V
      BY <3>1, <3>3
    <3> HIDE DEF x, y
    <3>6. x \o y \in V
      BY <3>5, ConcatProperties
    <3>7. from[i] \in V
      BY <3>4, <3>6 DEF x, y
    <3> HIDE DEF V
    <3> QED
      BY <3>7
  <2> QED
    BY <2>1, <2>2
<1>13. \A i \in 0..n : i \in G
  <2>1. \A i \in 0..n : (\A j \in 0..n : i < j => j \in G) => i \in G
    BY <1>12
  <2> HIDE DEF G, n
  <2> QED
    BY <1>1, <2>1, BackwardInduction
<1>14. from \in [D -> V]
  <2>1. from = [i \in D |-> from[i]]
    BY <1>10 DEF FromEquation
  <2> QED
    BY <1>13, <2>1
<1>15. IsFrom(from, sel, toks, t, A)
  <2>1. from[n] = <<>>
    BY <1>1, <1>11
  <2>2. \A i \in D : i # n => from[i] = <<Token(sel, toks, t, i)>> \o from[After(sel, toks, t, i)]
    BY <1>11
  <2> QED
    BY <1>14, <2>1, <2>2 DEF IsFrom
<1> QED
  BY <1>15 DEF from

-----------------------------------------------------------------------------
(* The tokens of a text from a position on are the tokens of its rest.     *)

\* u is what v has from p on.
IsRest(u, v, p) == p \in 0..Len(v) /\ u = Cut(v, p, Len(v))

LEMMA RestFacts ==
  ASSUME NEW A, NEW v \in Seq(A), NEW u, NEW p, IsRest(u, v, p)
  PROVE  /\ p \in 0..Len(v) /\ Len(v) \in Nat /\ Len(v) \in p..Len(v) /\ u = Cut(v, p, Len(v))
         /\ Len(u) = Len(v) - p
         /\ \A j \in 1..Len(v) - p : u[j] = v[p + j]
<1> DEFINE n == Len(v)
<1>1. p \in 0..Len(v) /\ n \in p..Len(v) /\ n \in Nat /\ u = Cut(v, p, n)
  BY DEF IsRest
<1> HIDE DEF n
<1>2. Len(u) = n - p /\ \A j \in 1..n - p : u[j] = v[p + j]
  BY <1>1, CutFacts
<1> QED
  BY <1>1, <1>2 DEF n

LEMMA SuffixStarting ==
  ASSUME NEW A, NEW toks \in SUBSET Seq(A), NEW v \in Seq(A), NEW u \in Seq(A), NEW p,
         IsRest(u, v, p), NEW k \in 0..Len(u)
  PROVE  Starting(toks, u, k) = Starting(toks, v, p + k)
<1> DEFINE n == Len(v)
<1>2. Len(u) = n - p /\ \A j \in 1..n - p : u[j] = v[p + j]
  BY RestFacts
<1>3. k \in 0..Len(u) /\ p \in 0..n
  BY RestFacts
<1>1. n \in Nat /\ n \in p..n /\ p + k \in 0..n
  BY <1>2, <1>3
<1>4. ASSUME NEW s PROVE StartsAt(toks, u, k, s) <=> StartsAt(toks, v, p + k, s)
  <2> SUFFICES ASSUME s \in toks PROVE StartsAt(toks, u, k, s) <=> StartsAt(toks, v, p + k, s)
    BY DEF StartsAt
  <2>1. Len(s) \in Nat
    OBVIOUS
  <2>2. k + Len(s) <= Len(u) <=> p + k + Len(s) <= n
    BY <1>1, <1>2, <1>3, <2>1
  <2>3. ASSUME k + Len(s) <= Len(u), NEW j \in 1..Len(s) PROVE u[k + j] = v[(p + k) + j]
    <3>1. k + j \in 1..n - p /\ p + (k + j) = (p + k) + j
      BY <1>1, <1>2, <1>3, <2>1, <2>3
    <3> QED
      BY <1>2, <3>1
  <2> QED
    BY <2>2, <2>3 DEF StartsAt
<1>5. \A s : s \in Starting(toks, u, k) <=> s \in Starting(toks, v, p + k)
  <2> HIDE DEF n
  <2> DEFINE i == p + k
  <2>1. \A s : s \in Starting(toks, u, k) <=> StartsAt(toks, u, k, s)
    BY <1>3, StartingFacts
  <2>2. i \in 0..Len(v)
    BY <1>1 DEF n
  <2> HIDE DEF i
  <2>3. \A s : s \in Starting(toks, v, i) <=> StartsAt(toks, v, i, s)
    BY <2>2, StartingFacts
  <2> QED
    BY <1>4, <2>1, <2>3 DEF i
<1> QED
  BY <1>5 DEF Starting

RunShifts(toks, u, v, p) == \A k \in 0..Len(u) : Run(toks, v)[p + k] = p + Run(toks, u)[k]

LEMMA SuffixRun ==
  ASSUME NEW A, NEW toks \in SUBSET Seq(A), NEW v \in Seq(A), NEW u \in Seq(A), NEW p,
         IsRest(u, v, p)
  PROVE  RunShifts(toks, u, v, p)
<1> DEFINE n == Len(v)
           m == n - p
           rv == Run(toks, v)
           ru == Run(toks, u)
           G == {k \in 0..m : rv[p + k] = p + ru[k]}
<1>1. n \in Nat /\ m \in Nat /\ n \in p..n /\ p \in 0..n
  BY RestFacts
<1>2. Len(u) = m
  BY RestFacts
<1>3. IsRun(rv, toks, v) /\ IsRun(ru, toks, u)
  BY RunFacts
<1>4. \A k \in 0..m : Special(toks, u, k) <=> Special(toks, v, p + k)
  <2>1. \A k \in 0..Len(u) : Starting(toks, u, k) = Starting(toks, v, p + k)
    BY SuffixStarting
  <2> QED
    BY <1>2, <2>1 DEF Special
<1> HIDE DEF rv, ru
<1>5. /\ \A i \in 0..n : i = n \/ Special(toks, v, i) => rv[i] = i
      /\ \A i \in 0..n : i # n /\ ~ Special(toks, v, i) => rv[i] = rv[i + 1]
      /\ \A k \in 0..m : k = m \/ Special(toks, u, k) => ru[k] = k
      /\ \A k \in 0..m : k # m /\ ~ Special(toks, u, k) => ru[k] = ru[k + 1]
  BY <1>2, <1>3 DEF IsRun
<1>6. ASSUME NEW k \in 0..m, \A j \in 0..m : k < j => j \in G
      PROVE  k \in G
  <2>1. p + k \in 0..n /\ (p + k = n <=> k = m)
    BY <1>1
  <2>2. CASE k = m \/ Special(toks, u, k)
    <3>1. rv[p + k] = p + k /\ ru[k] = k
      BY <1>4, <1>5, <2>1, <2>2
    <3> QED
      BY <3>1
  <2>3. CASE k # m /\ ~ Special(toks, u, k)
    <3>1. rv[p + k] = rv[(p + k) + 1] /\ ru[k] = ru[k + 1]
      BY <1>4, <1>5, <2>1, <2>3
    <3>2. k + 1 \in G /\ (p + k) + 1 = p + (k + 1)
      BY <1>1, <1>6, <2>3
    <3> QED
      BY <3>1, <3>2
  <2> QED
    BY <2>2, <2>3
<1>7. \A k \in 0..m : k \in G
  <2>1. \A k \in 0..m : (\A j \in 0..m : k < j => j \in G) => k \in G
    BY <1>6
  <2> HIDE DEF G, m
  <2> QED
    BY <1>1, <2>1, BackwardInduction
<1> QED
  BY <1>2, <1>7 DEF RunShifts, rv, ru

LEMMA SuffixToken ==
  ASSUME NEW A, NEW toks \in SUBSET Seq(A), <<>> \notin toks, NEW sel \in Selections,
         NEW v \in Seq(A), NEW u \in Seq(A), NEW p, IsRest(u, v, p),
         NEW k \in 0..Len(u)
  PROVE  /\ After(sel, toks, v, p + k) = p + After(sel, toks, u, k)
         /\ Token(sel, toks, v, p + k) = Token(sel, toks, u, k)
<1> DEFINE n == Len(v)
           au == After(sel, toks, u, k)
           av == After(sel, toks, v, p + k)
<1>0. n \in Nat /\ n \in p..n /\ p \in 0..n
  BY RestFacts
<1>2. Len(u) = n - p
  BY RestFacts
<1>1. n \in Nat /\ n \in p..n /\ p + k \in 0..n /\ k \in 0..n - p
  BY <1>0, <1>2
<1>3. Starting(toks, u, k) = Starting(toks, v, p + k)
  BY SuffixStarting
<1>4. Special(toks, u, k) = Special(toks, v, p + k)
  BY <1>3 DEF Special
<1>5. Selected(sel, toks, u, k) = Selected(sel, toks, v, p + k)
  BY <1>3 DEF Selected
<1>6. au \in k..n - p
  BY <1>2, AfterFacts
<1>7. av = p + au
  <2>1. CASE Special(toks, u, k)
    <3>1. Selected(sel, toks, u, k) \in 1..Len(u) - k
      BY <1>2, <2>1, SelectedFacts
    <3>2. au = k + Selected(sel, toks, u, k) /\ av = (p + k) + Selected(sel, toks, u, k)
      BY <1>4, <1>5, <2>1 DEF After
    <3> QED
      BY <1>0, <1>1, <1>2, <3>1, <3>2
  <2>2. CASE ~ Special(toks, u, k)
    <3>1. au = Run(toks, u)[k] /\ av = Run(toks, v)[p + k]
      BY <1>4, <2>2 DEF After
    <3>2. Run(toks, v)[p + k] = p + Run(toks, u)[k]
      <4>1. RunShifts(toks, u, v, p)
        BY SuffixRun
      <4> QED
        BY <4>1 DEF RunShifts
    <3> QED
      BY <3>1, <3>2
  <2> QED
    BY <2>1, <2>2
<1>8. Cut(u, k, au) = Cut(v, p + k, p + au)
  <2> DEFINE q == n
  <2>1. /\ p \in 0..Len(v) /\ q \in p..Len(v) /\ k \in 0..q - p /\ au \in k..q - p
        /\ u = Cut(v, p, q)
    BY <1>1, <1>6, RestFacts
  <2> HIDE DEF q, au
  <2> QED
    BY <2>1, CutOfCut
<1>9. Token(sel, toks, v, p + k) = <<Special(toks, v, p + k), Cut(v, p + k, av)>>
      /\ Token(sel, toks, u, k) = <<Special(toks, u, k), Cut(u, k, au)>>
  BY DEF Token
<1> QED
  BY <1>4, <1>7, <1>8, <1>9

LEMMA SuffixTokens ==
  ASSUME NEW A, NEW toks \in SUBSET Seq(A), <<>> \notin toks, NEW sel \in Selections,
         NEW v \in Seq(A), NEW u \in Seq(A), NEW p, IsRest(u, v, p)
  PROVE  \A k \in 0..Len(u) : From(sel, toks, u)[k] = From(sel, toks, v)[p + k]
<1> DEFINE n == Len(v)
           m == n - p
           fu == From(sel, toks, u)
           fv == From(sel, toks, v)
           G == {k \in 0..m : fu[k] = fv[p + k]}
<1>1. n \in Nat /\ m \in Nat /\ n \in p..n /\ p \in 0..n
  BY RestFacts
<1>2. Len(u) = m
  BY RestFacts
<1>3. IsFrom(fu, sel, toks, u, A) /\ IsFrom(fv, sel, toks, v, A)
  BY FromFacts
<1>4. \A k \in 0..m : After(sel, toks, u, k) \in k..m /\ (k # m => After(sel, toks, u, k) > k)
  BY <1>2, AfterFacts
<1> HIDE DEF fu, fv
<1>5. /\ fu[m] = <<>> /\ fv[n] = <<>>
      /\ \A k \in 0..m : k # m => fu[k] = <<Token(sel, toks, u, k)>> \o fu[After(sel, toks, u, k)]
      /\ \A i \in 0..n : i # n => fv[i] = <<Token(sel, toks, v, i)>> \o fv[After(sel, toks, v, i)]
  BY <1>2, <1>3 DEF IsFrom
<1>6. ASSUME NEW k \in 0..m, \A j \in 0..m : k < j => j \in G
      PROVE  k \in G
  <2>1. p + k \in 0..n /\ (p + k = n <=> k = m)
    BY <1>1
  <2>2. CASE k = m
    <3>1. fu[k] = fv[p + k]
      BY <1>5, <2>1, <2>2
    <3> QED
      BY <3>1
  <2>3. CASE k # m
    <3> DEFINE j == After(sel, toks, u, k)
    <3>1. j \in 0..m /\ fu[j] = fv[p + j]
      <4>1. j \in 0..m /\ k < j
        BY <1>1, <1>4, <2>3
      <4> HIDE DEF j
      <4> QED
        BY <1>6, <4>1
    <3>2. After(sel, toks, v, p + k) = p + j /\ Token(sel, toks, v, p + k) = Token(sel, toks, u, k)
      <4>1. k \in 0..Len(u)
        BY <1>2
      <4> QED
        BY <4>1, SuffixToken
    <3>3. fu[k] = <<Token(sel, toks, u, k)>> \o fu[j]
          /\ fv[p + k] = <<Token(sel, toks, v, p + k)>> \o fv[After(sel, toks, v, p + k)]
      BY <1>5, <2>1, <2>3
    <3>4. fu[k] = fv[p + k]
      BY <3>1, <3>2, <3>3
    <3> QED
      BY <3>4
  <2> QED
    BY <2>2, <2>3
<1>7. \A k \in 0..m : k \in G
  <2>1. \A k \in 0..m : (\A j \in 0..m : k < j => j \in G) => k \in G
    BY <1>6
  <2> HIDE DEF G, m
  <2> QED
    BY <1>1, <2>1, BackwardInduction
<1> QED
  BY <1>2, <1>7 DEF fu, fv

-----------------------------------------------------------------------------
(* The tokens of a text begin with those of a prefix that ends with a      *)
(* special token, if no two special tokens can share letters.              *)

Accepted(toks, A) == toks \in SUBSET Seq(A) /\ <<>> \notin toks /\ ~ UnsafeOverlap(toks)

\* A special token runs from c to p in v, and x is v up to p.
EndsSpecial(toks, v, x, c, p) ==
    /\ p \in 1..Len(v) /\ c \in 0..p
    /\ x = Cut(v, 0, p)
    /\ \E s \in Starting(toks, v, c) : c + Len(s) = p

LEMMA PrefixEnd ==
  ASSUME NEW A, NEW toks, Accepted(toks, A), NEW v \in Seq(A), NEW x, NEW c, NEW p,
         EndsSpecial(toks, v, x, c, p)
  PROVE  /\ p \in 1..Len(v) /\ c \in 0..p /\ c < p /\ Len(v) \in Nat
         /\ x \in Seq(A) /\ Len(x) = p /\ x = Cut(v, 0, p)
         /\ \A k \in 1..p : x[k] = v[k]
<1>1. p \in 1..Len(v) /\ c \in 0..p /\ x = Cut(v, 0, p) /\ Len(v) \in Nat
  BY DEF EndsSpecial
<1>2. p \in 0..Len(v)
  BY <1>1
<1>3. x \in Seq(A) /\ Len(x) = p /\ \A k \in 1..p : x[k] = v[k]
  BY <1>1, <1>2, PrefixFacts
<1>4. PICK s \in Starting(toks, v, c) : c + Len(s) = p
  BY DEF EndsSpecial
<1>5. s \in Seq(A) /\ s # <<>>
  BY DEF Accepted, Starting
<1>6. Len(s) \in Nat \ {0}
  BY <1>5
<1>7. c < p
  BY <1>1, <1>4, <1>6
<1> QED
  BY <1>1, <1>3, <1>7

\* A special token that starts at c or before it ends at c or before it, or at p.
LEMMA PrefixStarting ==
  ASSUME NEW A, NEW toks, Accepted(toks, A), NEW v \in Seq(A), NEW x, NEW c, NEW p,
         EndsSpecial(toks, v, x, c, p), NEW i \in 0..c
  PROVE  /\ Starting(toks, x, i) = Starting(toks, v, i)
         /\ \A s \in Starting(toks, v, i) : i + Len(s) \in (0..c) \union {p}
<1>1. /\ p \in 1..Len(v) /\ c \in 0..p /\ c < p /\ Len(v) \in Nat /\ x \in Seq(A) /\ Len(x) = p
      /\ \A k \in 1..p : x[k] = v[k]
  BY PrefixEnd
<1>2. toks \in SUBSET Seq(A) /\ <<>> \notin toks /\ ~ UnsafeOverlap(toks)
  BY DEF Accepted
<1>3. i \in 0..Len(v) /\ c \in i..Len(v) /\ i \in 0..Len(x)
  BY <1>1
<1>4. PICK z \in Starting(toks, v, c) : c + Len(z) = p
  BY DEF EndsSpecial
<1>5. ASSUME NEW s \in Starting(toks, v, i)
      PROVE  Len(s) \in Nat /\ i + Len(s) \in (0..c) \union {p}
  <2>1. Len(s) \in Nat
    BY <1>2 DEF Starting
  <2>2. CASE <<i, s>> = <<c, z>>
    BY <1>4, <2>1, <2>2
  <2>3. CASE <<i, s>> # <<c, z>>
    <3>1. i + Len(s) <= c
      BY <1>2, <1>3, <1>4, <2>3, NoSharedLetters
    <3> QED
      BY <1>1, <2>1, <3>1
  <2> QED
    BY <2>1, <2>2, <2>3
<1>6. \A s : s \in Starting(toks, v, i) <=> StartsAt(toks, v, i, s)
  BY <1>2, <1>3, StartingFacts
<1>7. \A s : s \in Starting(toks, x, i) <=> StartsAt(toks, x, i, s)
  BY <1>1, <1>2, <1>3, StartingFacts
<1>8. ASSUME NEW s \in toks, i + Len(s) <= p
      PROVE  StartsAt(toks, x, i, s) <=> StartsAt(toks, v, i, s)
  <2>1. Len(s) \in Nat
    BY <1>2
  <2>2. \A k \in 1..Len(s) : i + k \in 1..p
    BY <1>1, <1>8, <2>1
  <2>3. \A k \in 1..Len(s) : x[i + k] = v[i + k]
    BY <1>1, <2>2
  <2>4. i + Len(s) <= Len(x) /\ i + Len(s) <= Len(v)
    BY <1>1, <1>8, <2>1
  <2> QED
    BY <2>3, <2>4 DEF StartsAt
<1>9. ASSUME NEW s, StartsAt(toks, x, i, s) PROVE s \in toks /\ i + Len(s) <= p
  BY <1>1, <1>9 DEF StartsAt
<1>10. ASSUME NEW s, StartsAt(toks, v, i, s) PROVE s \in toks /\ i + Len(s) <= p
  <2>1. i + Len(s) \in (0..c) \union {p}
    BY <1>5, <1>6, <1>10
  <2> QED
    BY <1>1, <1>10, <2>1 DEF StartsAt
<1>11. \A s : s \in Starting(toks, x, i) <=> s \in Starting(toks, v, i)
  BY <1>6, <1>7, <1>8, <1>9, <1>10
<1> QED
  BY <1>5, <1>11 DEF Starting

LEMMA PrefixRun ==
  ASSUME NEW A, NEW toks, Accepted(toks, A), NEW v \in Seq(A), NEW x, NEW c, NEW p,
         EndsSpecial(toks, v, x, c, p), NEW i \in 0..c
  PROVE  /\ Run(toks, x)[i] = Run(toks, v)[i]
         /\ Run(toks, v)[i] \in i..c
         /\ Special(toks, x, i) <=> Special(toks, v, i)
<1> DEFINE n == Len(v)
           rv == Run(toks, v)
           rx == Run(toks, x)
           G == {k \in 0..p : k <= c => rx[k] = rv[k]}
<1>1. /\ p \in 1..n /\ c \in 0..p /\ c < p /\ n \in Nat /\ x \in Seq(A) /\ Len(x) = p
      /\ p \in Nat /\ c \in 0..n
  BY PrefixEnd
<1>2. IsRun(rv, toks, v) /\ IsRun(rx, toks, x)
  BY <1>1, RunFacts
<1>3. \A k \in 0..c : Special(toks, x, k) <=> Special(toks, v, k)
  BY PrefixStarting DEF Special
<1>4. Special(toks, v, c)
  BY DEF EndsSpecial, Special
<1> HIDE DEF rv, rx
<1>5. /\ \A k \in 0..n : k = n \/ Special(toks, v, k) => rv[k] = k
      /\ \A k \in 0..n : k # n /\ ~ Special(toks, v, k) => rv[k] = rv[k + 1]
      /\ \A k \in 0..p : k = p \/ Special(toks, x, k) => rx[k] = k
      /\ \A k \in 0..p : k # p /\ ~ Special(toks, x, k) => rx[k] = rx[k + 1]
  BY <1>1, <1>2 DEF IsRun
<1>6. ASSUME NEW k \in 0..p, \A j \in 0..p : k < j => j \in G
      PROVE  k \in G
  <2> SUFFICES ASSUME k <= c PROVE rx[k] = rv[k]
    OBVIOUS
  <2>1. k \in 0..c /\ k \in 0..n /\ k # n /\ k # p
    BY <1>1
  <2>2. CASE Special(toks, v, k)
    BY <1>3, <1>5, <2>1, <2>2
  <2>3. CASE ~ Special(toks, v, k)
    <3>1. rx[k] = rx[k + 1] /\ rv[k] = rv[k + 1] /\ k # c
      BY <1>3, <1>4, <1>5, <2>1, <2>3
    <3>2. k + 1 \in G /\ k + 1 <= c
      BY <1>1, <1>6, <2>1, <3>1
    <3> QED
      BY <3>1, <3>2
  <2> QED
    BY <2>2, <2>3
<1>7. \A k \in 0..p : k \in G
  <2>1. \A k \in 0..p : (\A j \in 0..p : k < j => j \in G) => k \in G
    BY <1>6
  <2> HIDE DEF G
  <2> QED
    BY <1>1, <2>1, BackwardInduction
<1>8. rx[i] = rv[i]
  BY <1>1, <1>7
<1>9. \A k \in 0..c : rv[k] \in k..c /\ (k # Len(v) /\ ~ Special(toks, v, k) => rv[k] > k)
  BY <1>1, <1>2, <1>4, RunBounds
<1> QED
  BY <1>3, <1>8, <1>9 DEF rv, rx

LEMMA PrefixToken ==
  ASSUME NEW A, NEW toks, Accepted(toks, A), NEW sel \in Selections,
         NEW v \in Seq(A), NEW x, NEW c, NEW p, EndsSpecial(toks, v, x, c, p), NEW i \in 0..c
  PROVE  /\ After(sel, toks, x, i) = After(sel, toks, v, i)
         /\ After(sel, toks, v, i) \in (0..c) \union {p}
         /\ Token(sel, toks, x, i) = Token(sel, toks, v, i)
<1> DEFINE av == After(sel, toks, v, i)
           ax == After(sel, toks, x, i)
<1>1. /\ p \in 1..Len(v) /\ c \in 0..p /\ c < p /\ Len(v) \in Nat /\ x \in Seq(A) /\ Len(x) = p
      /\ x = Cut(v, 0, p)
  BY PrefixEnd
<1>2. toks \in SUBSET Seq(A) /\ <<>> \notin toks
  BY DEF Accepted
<1>3. /\ Starting(toks, x, i) = Starting(toks, v, i)
      /\ \A s \in Starting(toks, v, i) : i + Len(s) \in (0..c) \union {p}
  BY PrefixStarting
<1>4. Special(toks, x, i) = Special(toks, v, i)
  BY <1>3 DEF Special
<1>5. Selected(sel, toks, x, i) = Selected(sel, toks, v, i)
  BY <1>3 DEF Selected
<1>6. i \in 0..Len(v) /\ i \in 0..Len(x)
  BY <1>1
<1>7. ax = av
  <2>1. Run(toks, x)[i] = Run(toks, v)[i]
    BY PrefixRun
  <2> QED
    BY <1>4, <1>5, <2>1 DEF After
<1>8. av \in (0..c) \union {p}
  <2>1. CASE Special(toks, v, i)
    <3>1. \E s \in Starting(toks, v, i) : Selected(sel, toks, v, i) = Len(s)
      BY <1>2, <1>6, <2>1, SelectedFacts
    <3>2. av = i + Selected(sel, toks, v, i)
      BY <2>1 DEF After
    <3> QED
      BY <1>3, <3>1, <3>2
  <2>2. CASE ~ Special(toks, v, i)
    <3>1. av = Run(toks, v)[i]
      BY <2>2 DEF After
    <3>2. Run(toks, v)[i] \in i..c
      BY PrefixRun
    <3> QED
      BY <1>1, <3>1, <3>2
  <2> QED
    BY <2>1, <2>2
<1>9. Cut(x, i, ax) = Cut(v, i, av)
  <2>1. ax \in i..p
    BY <1>1, <1>2, <1>6, AfterFacts
  <2> HIDE DEF ax, av
  <2>2. /\ 0 \in 0..Len(v) /\ p \in 0..Len(v) /\ p - 0 = p /\ i \in 0..p - 0 /\ ax \in i..p - 0
        /\ 0 + i = i /\ 0 + ax = ax
    BY <1>1, <2>1
  <2>3. Cut(Cut(v, 0, p), i, ax) = Cut(v, 0 + i, 0 + ax)
    BY <2>2, CutOfCut
  <2> QED
    BY <1>1, <1>7, <2>2, <2>3
<1>10. /\ Token(sel, toks, x, i) = <<Special(toks, x, i), Cut(x, i, ax)>>
       /\ Token(sel, toks, v, i) = <<Special(toks, v, i), Cut(v, i, av)>>
  BY DEF Token
<1> QED
  BY <1>4, <1>7, <1>8, <1>9, <1>10

TokensSplit(sel, toks, v, x, p) ==
    From(sel, toks, v)[0] = From(sel, toks, x)[0] \o From(sel, toks, v)[p]

LEMMA PrefixTokens ==
  ASSUME NEW A, NEW toks, Accepted(toks, A), NEW sel \in Selections,
         NEW v \in Seq(A), NEW x, NEW c, NEW p, EndsSpecial(toks, v, x, c, p)
  PROVE  TokensSplit(sel, toks, v, x, p)
<1> DEFINE n == Len(v)
           V == Seq(Tokens(A))
           fx == From(sel, toks, x)
           fv == From(sel, toks, v)
           rest == fv[p]
           G == {k \in 0..p : k <= c \/ k = p => fv[k] = fx[k] \o rest}
<1>1. /\ p \in 1..n /\ c \in 0..p /\ c < p /\ n \in Nat /\ x \in Seq(A) /\ Len(x) = p /\ p \in Nat
  BY PrefixEnd
<1>2. toks \in SUBSET Seq(A) /\ <<>> \notin toks
  BY DEF Accepted
<1>3. IsFrom(fx, sel, toks, x, A) /\ IsFrom(fv, sel, toks, v, A)
  BY <1>1, <1>2, FromFacts
<1>4. \A k \in 0..p : After(sel, toks, x, k) \in k..p /\ (k # p => After(sel, toks, x, k) > k)
  BY <1>1, <1>2, AfterFacts
<1>5. \A k \in 0..p : Token(sel, toks, x, k) \in Tokens(A)
  BY <1>1, <1>2, AfterFacts
<1> HIDE DEF fx, fv
<1>6. /\ \A k \in 0..p : fx[k] \in V
      /\ fx[p] = <<>>
      /\ \A k \in 0..p : k # p => fx[k] = <<Token(sel, toks, x, k)>> \o fx[After(sel, toks, x, k)]
      /\ \A k \in 0..n : fv[k] \in V
      /\ \A k \in 0..n : k # n => fv[k] = <<Token(sel, toks, v, k)>> \o fv[After(sel, toks, v, k)]
  BY <1>1, <1>3 DEF IsFrom
<1>7. rest \in V
  BY <1>1, <1>6
<1> HIDE DEF V, rest
<1>8. ASSUME NEW k \in 0..p, \A j \in 0..p : k < j => j \in G
      PROVE  k \in G
  <2> SUFFICES ASSUME k <= c \/ k = p PROVE fv[k] = fx[k] \o rest
    OBVIOUS
  <2>1. CASE k = p
    <3>1. <<>> \o rest = rest
      BY <1>7 DEF V
    <3> QED
      BY <1>6, <2>1, <3>1 DEF rest
  <2>2. CASE k <= c
    <3> DEFINE j == After(sel, toks, x, k)
               h == <<Token(sel, toks, x, k)>>
    <3>1. k \in 0..c /\ k # p /\ k # n /\ k \in 0..n
      BY <1>1, <2>2
    <3>2. /\ j = After(sel, toks, v, k) /\ j \in (0..c) \union {p}
          /\ Token(sel, toks, x, k) = Token(sel, toks, v, k)
      BY <3>1, PrefixToken
    <3>3. j \in 0..p /\ k < j
      BY <1>1, <1>4, <3>1
    <3>4. fx[k] = h \o fx[j] /\ fv[k] = h \o fv[j]
      BY <1>6, <3>1, <3>2
    <3>5. h \in V
      BY <1>5 DEF V
    <3> HIDE DEF j, h
    <3>6. fv[j] = fx[j] \o rest
      BY <1>1, <1>8, <3>2, <3>3
    <3> DEFINE y == fx[j]
    <3>7. y \in V
      BY <1>6, <3>3
    <3> HIDE DEF y
    <3>8. h \o (y \o rest) = (h \o y) \o rest
      BY <1>7, <3>5, <3>7, ConcatAssociative DEF V
    <3> QED
      BY <3>4, <3>6, <3>8 DEF y
  <2> QED
    BY <2>1, <2>2
<1>9. \A k \in 0..p : k \in G
  <2>1. \A k \in 0..p : (\A j \in 0..p : k < j => j \in G) => k \in G
    BY <1>8
  <2> HIDE DEF G
  <2> QED
    BY <1>1, <2>1, BackwardInduction
<1>10. fv[0] = fx[0] \o rest
  BY <1>1, <1>9
<1> QED
  BY <1>10 DEF TokensSplit, fx, fv, rest

-----------------------------------------------------------------------------
(* What the cache relies on.                                               *)

LEMMA EncodeType ==
  ASSUME NEW A, NEW toks \in SUBSET Seq(A), <<>> \notin toks, NEW t \in Seq(A), NEW sel \in Selections
  PROVE  Encode(sel, toks, t) \in Seq(Tokens(A))
<1>1. IsFrom(From(sel, toks, t), sel, toks, t, A) /\ 0 \in 0..Len(t)
  BY FromFacts
<1> QED
  BY <1>1, EncodeIsFrom DEF IsFrom

LEMMA EncodeNotEmpty ==
  ASSUME NEW A, NEW toks \in SUBSET Seq(A), <<>> \notin toks, NEW t \in Seq(A), NEW sel \in Selections,
         Len(t) > 0
  PROVE  Encode(sel, toks, t) # <<>>
<1> DEFINE from == From(sel, toks, t)
           n == Len(t)
           h == <<Token(sel, toks, t, 0)>>
           y == from[After(sel, toks, t, 0)]
<1>1. IsFrom(from, sel, toks, t, A) /\ 0 \in 0..n /\ 0 # n /\ n \in Nat
  BY FromFacts
<1>2. After(sel, toks, t, 0) \in 0..n /\ Token(sel, toks, t, 0) \in Tokens(A)
  BY <1>1, AfterFacts
<1>3. from[0] = h \o y
  BY <1>1 DEF IsFrom
<1>4. h \in Seq(Tokens(A)) /\ Len(h) = 1
  BY <1>2
<1>5. y \in Seq(Tokens(A))
  BY <1>1, <1>2 DEF IsFrom
<1> HIDE DEF h, y, from
<1>6. Len(h \o y) = 1 + Len(y) /\ Len(y) \in Nat
  <2> DEFINE B == Tokens(A)
  <2> HIDE DEF B
  <2>1. h \in Seq(B) /\ y \in Seq(B)
    BY <1>4, <1>5 DEF B
  <2>2. Len(h \o y) = Len(h) + Len(y) /\ Len(y) \in Nat
    BY <2>1
  <2> QED
    BY <1>4, <2>2
<1>7. from[0] # <<>>
  BY <1>3, <1>6
<1> QED
  BY <1>7, EncodeIsFrom DEF from

\* Cutting a text behind a special token.
LEMMA SplitAtSpecial ==
  ASSUME NEW A, NEW toks, Accepted(toks, A), NEW sel \in Selections, NEW v \in Seq(A),
         NEW p \in 1..Len(v), NEW s \in toks, EndsWith(Cut(v, 0, p), s)
  PROVE  Encode(sel, toks, Cut(v, 0, p)) \o Encode(sel, toks, Cut(v, p, Len(v))) = Encode(sel, toks, v)
<1> DEFINE n == Len(v)
           x == Cut(v, 0, p)
           u == Cut(v, p, n)
           c == p - Len(s)
<1>1. n \in Nat /\ p \in 0..n /\ n \in p..n /\ s \in Seq(A) /\ Len(s) \in Nat
  BY DEF Accepted
<1>2. u \in Seq(A) /\ Len(u) = n - p
  BY <1>1, CutFacts
<1>3. IsRest(u, v, p)
  BY <1>1 DEF IsRest
<1>4. Len(s) <= p /\ \A k \in 1..Len(s) : s[k] = v[(p - Len(s)) + k]
  BY <1>1, EndsWithFacts
<1>5. c \in 0..p /\ c \in 0..n /\ c + Len(s) = p
  BY <1>1, <1>4
<1> HIDE DEF n, x, u, c
<1>6. StartsAt(toks, v, c, s)
  BY <1>1, <1>4, <1>5 DEF StartsAt, c, n
<1>7. s \in Starting(toks, v, c)
  BY <1>1, <1>5, <1>6, StartingFacts DEF Accepted, n
<1>8. EndsSpecial(toks, v, x, c, p)
  BY <1>5, <1>7 DEF EndsSpecial, x
<1>9. TokensSplit(sel, toks, v, x, p)
  BY <1>8, PrefixTokens
<1>10. From(sel, toks, u)[0] = From(sel, toks, v)[p + 0]
  <2>1. toks \in SUBSET Seq(A) /\ <<>> \notin toks /\ 0 \in 0..n - p
    BY <1>1 DEF Accepted
  <2>2. \A k \in 0..Len(u) : From(sel, toks, u)[k] = From(sel, toks, v)[p + k]
    BY <1>2, <1>3, <2>1, SuffixTokens
  <2> QED
    BY <1>2, <2>1, <2>2
<1>11. p + 0 = p
  BY <1>1
<1> QED
  BY <1>9, <1>10, <1>11, EncodeIsFrom DEF TokensSplit, x, u, n

\* Where no special tokens can share letters, every cut at a boundary is safe,
\* whatever the tokenizer selects: what boundaries_with relies on once
\* first_unsafe_overlap has accepted the special tokens.
THEOREM AcceptedCutsAreSafe ==
  ASSUME NEW A, NEW toks \in SUBSET Seq(A), <<>> \notin toks, ~ UnsafeOverlap(toks),
         NEW t \in Seq(A), NEW sel \in Selections
  PROVE  CutsAreSafe(sel, toks, t)
<1> DEFINE n == Len(t)
           ends == Boundaries(toks, t) \union {n}
<1>1. SUFFICES ASSUME NEW p \in Boundaries(toks, t), NEW q \in ends, p < q
               PROVE  Encode(sel, toks, Cut(t, 0, p)) \o Encode(sel, toks, Cut(t, p, q))
                         = Encode(sel, toks, Cut(t, 0, q))
  BY DEF CutsAreSafe
<1>2. p \in 1..n - 1 /\ q \in 1..n /\ n \in Nat
  BY DEF Boundaries
<1>3. PICK s \in toks : EndsWith(Cut(t, 0, p), s)
  BY DEF Boundaries
<1> DEFINE v == Cut(t, 0, q)
<1>4. /\ p \in 0..n /\ q \in 0..n /\ q \in p..n /\ 0 \in 0..n /\ q \in 0..q /\ p \in 1..q /\ q - 0 = q
      /\ 0 \in 0..q - 0 /\ p \in 0..q - 0 /\ q \in p..q - 0 /\ 0 + 0 = 0 /\ 0 + p = p /\ 0 + q = q
  BY <1>1, <1>2
<1>5. v \in Seq(A) /\ Len(v) = q
  BY <1>4, PrefixFacts
<1>6. Cut(v, 0, p) = Cut(t, 0, p)
  <2>1. Cut(Cut(t, 0, q), 0, p) = Cut(t, 0 + 0, 0 + p)
    BY <1>4, CutOfCut
  <2> QED
    BY <1>4, <2>1
<1>7. Cut(v, p, q) = Cut(t, p, q)
  <2>1. Cut(Cut(t, 0, q), p, q) = Cut(t, 0 + p, 0 + q)
    BY <1>4, CutOfCut
  <2> QED
    BY <1>4, <2>1
<1> HIDE DEF v
<1>8. Encode(sel, toks, Cut(v, 0, p)) \o Encode(sel, toks, Cut(v, p, Len(v))) = Encode(sel, toks, v)
  BY <1>3, <1>4, <1>5, <1>6, SplitAtSpecial DEF Accepted
<1> QED
  BY <1>5, <1>6, <1>7, <1>8 DEF v

-----------------------------------------------------------------------------
(* The properties MCSpecialTokens checks of texts up to MaxLen letters, for *)
(* every MaxLen: the texts the cache may be asked to cut.                  *)

TextsGrown == markers \in SUBSET Seq(Letters) /\ <<>> \notin markers /\ grown \in Seq(Letters)

\* Only such texts are grown.
LEMMA AlwaysTexts == Growing => []TextsGrown
<1>1. NoLetters => TextsGrown
  <2>1. \A s \in SpecialStrings : s \in Seq(Letters) /\ s # <<>>
    <3> SUFFICES ASSUME NEW n \in 1..3, NEW s \in [1..n -> Letters]
                 PROVE  s \in Seq(Letters) /\ s # <<>>
      BY DEF SpecialStrings
    <3>1. s \in Seq(Letters)
      OBVIOUS
    <3>2. Len(s) = n /\ n # 0
      BY <3>1
    <3> QED
      BY <3>1, <3>2
  <2> QED
    BY <2>1 DEF NoLetters, TextsGrown
<1>2. TextsGrown /\ [Grow]_<<markers, grown>> => TextsGrown'
  BY DEF TextsGrown, Grow
<1> QED
  BY <1>1, <1>2, PTL DEF Growing

\* Special tokens of an accepted set never share a letter, wherever they occur.
THEOREM SpecialsNeverShareLetters == Growing => []AcceptedSetsNeverShareLetters
<1>1. TextsGrown => AcceptedSetsNeverShareLetters
  <2> SUFFICES ASSUME TextsGrown, ~ UnsafeOverlap(markers),
                      NEW i \in 0..Len(grown), NEW j \in 0..Len(grown),
                      NEW s \in Starting(markers, grown, i), NEW u \in Starting(markers, grown, j),
                      i <= j, <<i, s>> # <<j, u>>
               PROVE  i + Len(s) <= j
    BY DEF AcceptedSetsNeverShareLetters
  <2>1. markers \in SUBSET Seq(Letters) /\ <<>> \notin markers /\ grown \in Seq(Letters)
    BY DEF TextsGrown
  <2>2. j \in i..Len(grown)
    BY <2>1
  <2> QED
    BY <2>1, <2>2, NoSharedLetters
<1> QED
  BY <1>1, AlwaysTexts, PTL

\* Where first_unsafe_overlap accepts a set of special tokens, every boundary
\* boundaries_with finds is a place the inner tokenizer splits as well.
THEOREM BoundariesCutSafely == Growing => []AcceptedSetsCutSafely
<1>1. TextsGrown => AcceptedSetsCutSafely
  BY AcceptedCutsAreSafe DEF TextsGrown, AcceptedSetsCutSafely
<1> QED
  BY <1>1, AlwaysTexts, PTL
=============================================================================
