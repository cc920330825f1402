------------------------- MODULE DetokenizerProofs -------------------------
(***************************************************************************)
(* DecodeStream returns text that later tokens never change, over both     *)
(* decoders, and StopSequenceDecoder loses no text and hides its matches,  *)
(* over the one that concatenates bytes.  Both compare the text of a       *)
(* window of tokens with that of the window and what follows, so both rest *)
(* on where the text of a sequence of tokens is that of its pieces: the    *)
(* lemmas about Lossy, FallbackText and Decode come first.                 *)
(***************************************************************************)
EXTENDS DecodeStream, StopDecoder, RankedRecursion, SequenceTheorems, TLAPS

-----------------------------------------------------------------------------
(* Sequences mapped and joined.                                            *)

\* What f makes of each element, joined.
Flat(f, s) == FlattenSeq([i \in DOMAIN s |-> f[s[i]]])

\* The results for the beginnings of s.
IsJoining(w, f, s, T) ==
    /\ w \in [0..Len(s) -> Seq(T)] /\ w[0] = <<>>
    /\ \A i \in 1..Len(s) : w[i] = w[i - 1] \o f[s[i]]

\* They exist for every sequence.
LEMMA JoiningExists ==
  ASSUME NEW S, NEW T, NEW f \in [S -> Seq(T)], NEW s \in Seq(S)
  PROVE  \E w : IsJoining(w, f, s, T)
<1> DEFINE n == Len(s)
           V == Seq(T)
           e == <<>>
           step == [a \in (1..n) \X V |-> a[2] \o f[s[a[1]]]]
<1>1. n \in Nat /\ e \in V
  OBVIOUS
<1>2. \A i \in 1..n : s[i] \in S /\ f[s[i]] \in V
  OBVIOUS
<1>3. step \in [(1..n) \X V -> V]
  <2>1. ASSUME NEW a \in (1..n) \X V PROVE a[2] \o f[s[a[1]]] \in V
    <3>1. a[2] \in Seq(T) /\ f[s[a[1]]] \in Seq(T)
      BY <1>2
    <3> QED
      BY <3>1
  <2> QED
    BY <2>1
<1> HIDE DEF n, step, e, V
<1>4. PICK g : Iterated(g, n, V, e, step)
  BY <1>1, <1>3, ForwardRecursion
<1>5. g \in [0..n -> V] /\ g[0] = e /\ \A i \in 1..n : g[i] = step[<<i, g[i - 1]>>]
  BY <1>4 DEF Iterated
<1>6. ASSUME NEW i \in 1..n PROVE g[i] = g[i - 1] \o f[s[i]]
  <2>1. i - 1 \in 0..n /\ g[i - 1] \in V
    BY <1>1, <1>5
  <2>2. <<i, g[i - 1]>> \in (1..n) \X V
    BY <2>1
  <2>3. step[<<i, g[i - 1]>>] = g[i - 1] \o f[s[i]]
    BY <2>2 DEF step
  <2> QED
    BY <1>5, <2>3
<1> QED
  BY <1>5, <1>6 DEF IsJoining, n, e, V

\* The equation by which FlattenSeq joins.
FlattenEquation(flatten, seqs) ==
    flatten = [i \in 1..Len(seqs) |-> IF i = 1 THEN seqs[i] ELSE flatten[i - 1] \o seqs[i]]

Flatten(seqs) == CHOOSE flatten : FlattenEquation(flatten, seqs)

\* FlattenSeq, its recursive function named.
LEMMA FlattenSeqIs ==
  ASSUME NEW seqs
  PROVE  FlattenSeq(seqs) = IF Len(seqs) = 0 THEN seqs ELSE Flatten(seqs)[Len(seqs)]
BY Zenon DEF FlattenSeq, Flatten, FlattenEquation

\* Flat is the last of them.
LEMMA FlatIs ==
  ASSUME NEW S, NEW T, NEW f \in [S -> Seq(T)], NEW s \in Seq(S), NEW w, IsJoining(w, f, s, T)
  PROVE  Flat(f, s) = w[Len(s)]
<1> DEFINE n == Len(s)
           parts == [i \in DOMAIN s |-> f[s[i]]]
           h == Flatten(parts)
<1>1. n \in Nat /\ DOMAIN s = 1..n
  OBVIOUS
<1>2. \A i \in 1..n : f[s[i]] \in Seq(T)
  OBVIOUS
<1>3. parts = [i \in 1..n |-> f[s[i]]]
  BY <1>1
<1>4. parts \in Seq(Seq(T)) /\ Len(parts) = n /\ \A i \in 1..n : parts[i] = f[s[i]]
  BY <1>1, <1>2, <1>3
<1>5. Flat(f, s) = IF n = 0 THEN parts ELSE h[n]
  BY <1>4, FlattenSeqIs DEF Flat
<1>6. w \in [0..n -> Seq(T)] /\ w[0] = <<>> /\ \A i \in 1..n : w[i] = w[i - 1] \o f[s[i]]
  BY DEF IsJoining
<1>7. CASE n = 0
  <2>1. parts = <<>>
    BY <1>4, <1>7
  <2> QED
    BY <1>5, <1>6, <1>7, <2>1
<1>8. CASE n # 0
  <2> DEFINE g == [i \in 1..n |-> w[i]]
  <2>0. 1 \in 1..n /\ 1 - 1 = 0
    BY <1>1, <1>8
  <2>1. w[1] = parts[1]
    <3>1. w[1] = w[1 - 1] \o f[s[1]] /\ parts[1] = f[s[1]]
      BY <1>4, <1>6, <2>0
    <3>2. w[1] = <<>> \o f[s[1]]
      BY <1>6, <2>0, <3>1
    <3>3. <<>> \o f[s[1]] = f[s[1]]
      BY <1>2, <2>0
    <3> QED
      BY <3>1, <3>2, <3>3
  <2>2. g = [i \in 1..n |-> IF i = 1 THEN parts[i] ELSE g[i - 1] \o parts[i]]
    <3>1. ASSUME NEW i \in 1..n PROVE w[i] = IF i = 1 THEN parts[i] ELSE g[i - 1] \o parts[i]
      <4>1. CASE i = 1
        BY <2>1, <4>1
      <4>2. CASE i # 1
        <5>1. i - 1 \in 1..n
          BY <1>1, <4>2
        <5> QED
          BY <1>4, <1>6, <4>2, <5>1
      <4> QED
        BY <4>1, <4>2
    <3> QED
      BY <3>1
  <2> HIDE DEF g
  <2>3. FlattenEquation(g, parts)
    BY <1>4, <2>2 DEF FlattenEquation
  <2> HIDE DEF parts
  <2>4. FlattenEquation(h, parts)
    BY <2>3 DEF Flatten
  <2> HIDE DEF h
  <2>5. h = [i \in 1..n |-> IF i = 1 THEN parts[i] ELSE h[i - 1] \o parts[i]]
    BY <1>4, <2>4 DEF FlattenEquation
  <2> DEFINE G == {m \in 0..n : m = 0 \/ h[m] = w[m]}
  <2>6. 0 \in G
    BY <1>1
  <2>7. ASSUME NEW m \in 0..n, m < n, m \in G PROVE m + 1 \in G
    <3>0. n \in Nat /\ m < n
      BY <1>1, <2>7
    <3>1. m + 1 \in 1..n /\ (m + 1) - 1 = m
      BY <3>0
    <3>2. w[m + 1] = w[m] \o parts[m + 1]
      BY <1>4, <1>6, <3>1
    <3>3. h[m + 1] = IF m + 1 = 1 THEN parts[m + 1] ELSE h[(m + 1) - 1] \o parts[m + 1]
      BY <2>5, <3>1
    <3>4. CASE m = 0
      <4>1. m + 1 = 1
        BY <3>4
      <4>2. h[1] = w[1]
        BY <2>1, <3>3, <4>1
      <4> QED
        BY <3>1, <4>1, <4>2
    <3>5. CASE m # 0
      <4>1. h[m + 1] = h[m] \o parts[m + 1]
        <5>1. m + 1 # 1 /\ (m + 1) - 1 = m
          BY <1>1, <3>5
        <5>2. h[(m + 1) - 1] = h[m]
          BY <5>1
        <5> QED
          BY <3>3, <5>1, <5>2, Zenon
      <4>2. h[m] = w[m]
        BY <2>7, <3>5
      <4>3. h[m + 1] = w[m + 1]
        BY <3>2, <4>1, <4>2
      <4> QED
        BY <3>1, <4>3
    <3> QED
      BY <3>4, <3>5
  <2> HIDE DEF G
  <2>8. \A m \in 0..n : m \in G
    BY <1>1, <2>6, <2>7, BoundedInduction
  <2>9. n \in G
    BY <1>1, <2>8
  <2>10. h[n] = w[n]
    BY <1>8, <2>9 DEF G
  <2> QED
    BY <1>5, <1>8, <2>10
<1> QED
  BY <1>7, <1>8

\* It is a sequence, and empty for the empty one.
LEMMA FlatType ==
  ASSUME NEW S, NEW T, NEW f \in [S -> Seq(T)], NEW s \in Seq(S)
  PROVE  Flat(f, s) \in Seq(T) /\ (s = <<>> => Flat(f, s) = <<>>)
<1>1. PICK w : IsJoining(w, f, s, T)
  BY JoiningExists
<1>2. w \in [0..Len(s) -> Seq(T)] /\ Len(s) \in 0..Len(s) /\ w[0] = <<>>
  BY <1>1 DEF IsJoining
<1>3. Flat(f, s) = w[Len(s)]
  BY <1>1, FlatIs
<1>4. s = <<>> => Len(s) = 0
  OBVIOUS
<1> QED
  BY <1>2, <1>3, <1>4

\* It joins what it makes of the pieces of a sequence.
LEMMA FlatConcat ==
  ASSUME NEW S, NEW T, NEW f \in [S -> Seq(T)], NEW s \in Seq(S), NEW t \in Seq(S)
  PROVE  Flat(f, s \o t) = Flat(f, s) \o Flat(f, t)
<1> DEFINE p == s \o t
           n == Len(s)
           k == Len(t)
<1>1. /\ p \in Seq(S) /\ n \in Nat /\ k \in Nat /\ Len(p) = n + k
      /\ \A i \in 1..n : p[i] = s[i]
      /\ \A i \in 1..k : p[n + i] = t[i]
  OBVIOUS
<1>2. \A i \in 1..k : f[t[i]] \in Seq(T)
  OBVIOUS
<1> HIDE DEF p
<1>3. PICK w : IsJoining(w, f, p, T)
  BY <1>1, JoiningExists
<1>4. PICK v : IsJoining(v, f, t, T)
  BY JoiningExists
<1>5. PICK u : IsJoining(u, f, s, T)
  BY JoiningExists
<1>6. /\ Flat(f, p) = w[Len(p)]
      /\ Flat(f, t) = v[k]
      /\ Flat(f, s) = u[n]
  <2>1. \A x \in Seq(S) : \A g : IsJoining(g, f, x, T) => Flat(f, x) = g[Len(x)]
    BY FlatIs, ZenonT(30)
  <2> QED
    BY <1>1, <1>3, <1>4, <1>5, <2>1
<1>7. w \in [0..n + k -> Seq(T)] /\ w[0] = <<>> /\ \A i \in 1..n + k : w[i] = w[i - 1] \o f[p[i]]
  BY <1>1, <1>3 DEF IsJoining
<1>8. v \in [0..k -> Seq(T)] /\ v[0] = <<>> /\ \A i \in 1..k : v[i] = v[i - 1] \o f[t[i]]
  BY <1>4 DEF IsJoining
<1>9. u \in [0..n -> Seq(T)] /\ u[0] = <<>> /\ \A i \in 1..n : u[i] = u[i - 1] \o f[s[i]]
  BY <1>5 DEF IsJoining
<1> HIDE DEF n, k
<1>10. \A m \in 0..n : w[m] = u[m]
  <2> DEFINE G == {m \in 0..n : w[m] = u[m]}
  <2>1. 0 \in G
    BY <1>1, <1>7, <1>9
  <2>2. ASSUME NEW m \in 0..n, m < n, m \in G PROVE m + 1 \in G
    <3>1. m + 1 \in 1..n /\ m + 1 \in 1..n + k /\ m + 1 \in 0..n /\ (m + 1) - 1 = m
      BY <1>1, <2>2
    <3>2. w[m + 1] = w[(m + 1) - 1] \o f[p[m + 1]] /\ u[m + 1] = u[(m + 1) - 1] \o f[s[m + 1]]
      BY <1>7, <1>9, <3>1
    <3>3. p[m + 1] = s[m + 1] /\ w[m] = u[m]
      BY <1>1, <2>2, <3>1
    <3>4. w[m + 1] = u[m + 1]
      BY <3>1, <3>2, <3>3
    <3> QED
      BY <3>1, <3>4
  <2> HIDE DEF G
  <2>3. \A m \in 0..n : m \in G
    BY <1>1, <2>1, <2>2, BoundedInduction
  <2> QED
    BY <2>3 DEF G
<1>11. \A m \in 0..k : w[n + m] = u[n] \o v[m]
  <2> DEFINE G == {m \in 0..k : w[n + m] = u[n] \o v[m]}
  <2>0. n \in 0..n /\ n + 0 = n /\ 0 \in 0..k
    BY <1>1
  <2>1. 0 \in G
    <3>1. u[n] \in Seq(T) /\ w[n + 0] = u[n]
      BY <1>9, <1>10, <2>0
    <3>2. u[n] \o <<>> = u[n]
      BY <3>1
    <3> QED
      BY <1>8, <2>0, <3>1, <3>2
  <2>2. ASSUME NEW m \in 0..k, m < k, m \in G PROVE m + 1 \in G
    <3>1. /\ m + 1 \in 1..k /\ m + 1 \in 0..k /\ (m + 1) - 1 = m /\ n + (m + 1) \in 1..n + k
          /\ (n + (m + 1)) - 1 = n + m
      BY <1>1, <2>2
    <3>2. /\ w[n + (m + 1)] = w[(n + (m + 1)) - 1] \o f[p[n + (m + 1)]]
          /\ v[m + 1] = v[(m + 1) - 1] \o f[t[m + 1]]
      BY <1>7, <1>8, <3>1
    <3>3. p[n + (m + 1)] = t[m + 1] /\ w[n + m] = u[n] \o v[m]
      BY <1>1, <2>2, <3>1
    <3>4. u[n] \in Seq(T) /\ v[m] \in Seq(T) /\ f[t[m + 1]] \in Seq(T)
      BY <1>2, <1>8, <1>9, <2>0, <3>1
    <3>5. (u[n] \o v[m]) \o f[t[m + 1]] = u[n] \o (v[m] \o f[t[m + 1]])
      <4>1. \A x, y, z \in Seq(T) : (x \o y) \o z = x \o (y \o z)
        BY ConcatAssociative, SMTT(30)
      <4> QED
        BY <3>4, <4>1
    <3>6. w[n + (m + 1)] = u[n] \o v[m + 1]
      BY <3>1, <3>2, <3>3, <3>5
    <3> QED
      BY <3>1, <3>6
  <2> HIDE DEF G
  <2>3. \A m \in 0..k : m \in G
    BY <1>1, <2>1, <2>2, BoundedInduction
  <2> QED
    BY <2>3 DEF G
<1>12. w[n + k] = u[n] \o v[k]
  <2>1. k \in 0..k
    BY <1>1
  <2> QED
    BY <1>11, <2>1
<1> QED
  BY <1>1, <1>6, <1>12 DEF p

\* What it makes of a single element.
LEMMA FlatOne ==
  ASSUME NEW S, NEW T, NEW f \in [S -> Seq(T)], NEW x \in S
  PROVE  Flat(f, <<x>>) = f[x]
<1> DEFINE s == <<x>>
<1>1. s \in Seq(S) /\ Len(s) = 1 /\ s[1] = x
  OBVIOUS
<1>2. f[x] \in Seq(T)
  OBVIOUS
<1> HIDE DEF s
<1>3. PICK w : IsJoining(w, f, s, T)
  BY <1>1, JoiningExists
<1>4. w[0] = <<>> /\ w[1] = w[1 - 1] \o f[s[1]] /\ 1 - 1 = 0
  BY <1>1, <1>3 DEF IsJoining
<1>5. w[1] = <<>> \o f[x]
  BY <1>1, <1>4
<1>6. <<>> \o f[x] = f[x]
  BY <1>2
<1>7. Flat(f, s) = w[1]
  BY <1>1, <1>3, FlatIs, ZenonT(30)
<1> QED
  BY <1>5, <1>6, <1>7 DEF s

-----------------------------------------------------------------------------
(* Bytes to text, from_utf8_lossy.                                         *)

Glyphs == Symbols \union {"R", "R+"}

\* What Lossy returns.
Decodings == [text : Seq(Glyphs), valid : BOOLEAN]

\* The continuation bytes a character that starts with c needs.
Need(c) == IF c \in Leads THEN Width[c] - 1 ELSE 0

\* What the decoder takes at a position, and what it writes for it.
Taken(x, i) == Following(x, i, Need(x[i]))
Whole(x, i) == Taken(x, i) = Need(x[i]) /\ x[i] # "C"
Piece(x, i) == IF Whole(x, i) THEN SubSeq(x, i, i + Taken(x, i)) ELSE Replacement

\* k is the number of continuation bytes behind position i, at most m.
IsFollowing(k, x, i, m) ==
    /\ k \in 0..m
    /\ \A j \in 1..k : i + j <= Len(x) /\ x[i + j] = "C"
    /\ k = m \/ i + k = Len(x) \/ x[i + k + 1] # "C"

\* How many bytes a character still needs behind its lead.
LEMMA NeedFacts ==
  /\ \A c : Need(c) \in 0..3
  /\ Need("C") = 0
  /\ \A c : c \in Leads => c # "C" /\ Need(c) = Width[c] - 1 /\ Need(c) # 0
  /\ \A c : c \notin Leads => Need(c) = 0
BY DEF Need, Leads, Width

\* The bytes and what a text is made of, one by one.
LEMMA SymbolFacts ==
  /\ Symbols = {"L2", "L3", "L4", "C", "a", "b", "e", "_"}
  /\ Glyphs = {"L2", "L3", "L4", "C", "a", "b", "e", "_", "R", "R+"}
  /\ Leads = {"L2", "L3", "L4"} /\ ByteTokens = {"L2", "L3", "L4", "C"}
  /\ Continuations = {"C", "R+"}
BY DEF Continuations, Symbols, Glyphs, Leads, Width, ByteTokens

\* The replacement, byte by byte.
LEMMA ReplacementFacts ==
  /\ Replacement \in Seq(Glyphs) /\ Replacement # <<>>
  /\ Len(Replacement) = 3 /\ Len(Replacement) >= 1
  /\ Replacement[1] = "R" /\ Replacement[2] = "R+" /\ Replacement[3] = "R+"
  /\ Replacement[1] \notin Continuations
<1>1. "R" \in Glyphs /\ "R+" \in Glyphs /\ "R" \notin Continuations
  BY DEF Glyphs, Continuations
<1> HIDE DEF Glyphs
<1> QED
  BY <1>1 DEF Replacement

\* A lead has one number of bytes that follow it.
LEMMA FollowingUnique ==
  ASSUME NEW S, NEW x \in Seq(S), NEW i \in 1..Len(x), NEW m \in 0..3,
         NEW k, IsFollowing(k, x, i, m), NEW h, IsFollowing(h, x, i, m)
  PROVE  k = h
<1>1. k \in 0..m /\ h \in 0..m /\ i \in Nat /\ Len(x) \in Nat /\ m \in Nat
  BY DEF IsFollowing
<1>2. ASSUME NEW p \in 0..m, NEW q \in 0..m, p < q, IsFollowing(p, x, i, m), IsFollowing(q, x, i, m)
      PROVE  FALSE
  <2>1. p + 1 \in 1..q /\ i + (p + 1) = i + p + 1 /\ p # m
    BY <1>1, <1>2
  <2>2. i + (p + 1) <= Len(x) /\ x[i + (p + 1)] = "C"
    BY <1>2, <2>1 DEF IsFollowing
  <2>3. i + p = Len(x) \/ x[i + p + 1] # "C"
    BY <1>2, <2>1 DEF IsFollowing
  <2> QED
    BY <1>1, <2>1, <2>2, <2>3
<1>3. ~ (k < h)
  BY <1>1, <1>2
<1>4. ~ (h < k)
  BY <1>1, <1>2
<1> QED
  BY <1>1, <1>3, <1>4

\* There is such a number.
LEMMA FollowingExists ==
  ASSUME NEW S, NEW x \in Seq(S), NEW i \in 1..Len(x), NEW m \in 0..3
  PROVE  \E k \in 0..m : IsFollowing(k, x, i, m)
<1> DEFINE more(j) == i + j <= Len(x) /\ x[i + j] = "C"
<1>1. i \in Nat /\ Len(x) \in Nat /\ m \in Nat /\ i <= Len(x)
  OBVIOUS
<1>2. ASSUME NEW k \in 0..m, \A j \in 1..k : more(j), k = m \/ ~ more(k + 1)
      PROVE  IsFollowing(k, x, i, m)
  <2>1. i + k <= Len(x)
    <3>1. CASE k = 0
      BY <1>1, <3>1
    <3>2. CASE k # 0
      <4>1. k \in 1..k
        BY <3>2
      <4> QED
        BY <1>2, <4>1
    <3> QED
      BY <3>1, <3>2
  <2>2. ASSUME k # m PROVE i + k = Len(x) \/ x[i + k + 1] # "C"
    <3>1. i + (k + 1) = i + k + 1 /\ ~ (i + (k + 1) <= Len(x) /\ x[i + (k + 1)] = "C")
      BY <1>1, <1>2, <2>2
    <3> QED
      BY <1>1, <2>1, <3>1
  <2> QED
    BY <1>2, <2>2 DEF IsFollowing
<1> HIDE DEF more
<1>3. CASE m = 0 \/ ~ more(1)
  <2>1. 0 \in 0..m /\ 1..0 = {} /\ 0 + 1 = 1
    BY <1>1
  <2> QED
    BY <1>2, <1>3, <2>1
<1>4. CASE m >= 1 /\ more(1) /\ (m = 1 \/ ~ more(2))
  <2>1. 1 \in 0..m /\ 1..1 = {1} /\ 1 + 1 = 2
    BY <1>1, <1>4
  <2> QED
    BY <1>2, <1>4, <2>1
<1>5. CASE m >= 2 /\ more(1) /\ more(2) /\ (m = 2 \/ ~ more(3))
  <2>1. 2 \in 0..m /\ 1..2 = {1, 2} /\ 2 + 1 = 3
    BY <1>1, <1>5
  <2> QED
    BY <1>2, <1>5, <2>1
<1>6. CASE m = 3 /\ more(1) /\ more(2) /\ more(3)
  <2>1. 3 \in 0..m /\ 1..3 = {1, 2, 3}
    BY <1>1, <1>6
  <2> QED
    BY <1>2, <1>6, <2>1
<1> QED
  BY <1>1, <1>3, <1>4, <1>5, <1>6

\* So `Following` is that number.
LEMMA FollowingIs ==
  ASSUME NEW S, NEW x \in Seq(S), NEW i \in 1..Len(x), NEW m \in 0..3
  PROVE  IsFollowing(Following(x, i, m), x, i, m)
<1> DEFINE P(k) == /\ \A j \in 1..k : i + j <= Len(x) /\ x[i + j] = "C"
                   /\ k = m \/ i + k = Len(x) \/ x[i + k + 1] # "C"
<1>1. \E k \in 0..m : P(k)
  <2>1. PICK k \in 0..m : IsFollowing(k, x, i, m)
    BY FollowingExists
  <2>2. P(k)
    BY <2>1 DEF IsFollowing
  <2> HIDE DEF P
  <2> QED
    BY <2>2
<1>2. Following(x, i, m) = CHOOSE k \in 0..m : P(k)
  BY DEF Following
<1> HIDE DEF P
<1>3. Following(x, i, m) \in 0..m /\ P(Following(x, i, m))
  BY <1>1, <1>2
<1> QED
  BY <1>3 DEF IsFollowing, P

\* What the decoder takes lies in the text.
LEMMA TakenFacts ==
  ASSUME NEW x \in Seq(Symbols), NEW i \in 1..Len(x)
  PROVE  /\ IsFollowing(Taken(x, i), x, i, Need(x[i]))
         /\ Taken(x, i) \in 0..3 /\ Taken(x, i) <= Need(x[i])
         /\ i + Taken(x, i) \in i..Len(x) /\ i + Taken(x, i) + 1 \in i + 1..Len(x) + 1
<1> DEFINE m == Need(x[i])
           k == Taken(x, i)
<1>1. m \in 0..3
  BY NeedFacts
<1>2. IsFollowing(k, x, i, m)
  BY <1>1, FollowingIs DEF Taken
<1> HIDE DEF m, k
<1>3. k \in 0..m
  BY <1>2 DEF IsFollowing
<1>4. k \in 0..3 /\ k <= m /\ k \in Nat
  BY <1>1, <1>3
<1>5. i + k <= Len(x)
  <2>1. CASE k = 0
    BY <2>1
  <2>2. CASE k # 0
    <3>1. k \in 1..k
      BY <1>4, <2>2
    <3> QED
      BY <1>2, <3>1 DEF IsFollowing
  <2> QED
    BY <2>1, <2>2
<1>6. i + k \in i..Len(x) /\ i + k + 1 \in i + 1..Len(x) + 1
  BY <1>4, <1>5
<1> QED
  BY <1>2, <1>4, <1>6 DEF m, k

\* What it writes starts a character.
LEMMA PieceFacts ==
  ASSUME NEW x \in Seq(Symbols), NEW i \in 1..Len(x)
  PROVE  /\ Piece(x, i) \in Seq(Glyphs) /\ Len(Piece(x, i)) >= 1
         /\ Piece(x, i)[1] \in {x[i], "R"} /\ Piece(x, i)[1] \notin Continuations
         /\ Whole(x, i) => Piece(x, i) \in Seq(Symbols)
         /\ ~ Whole(x, i) => Piece(x, i) = Replacement
<1> DEFINE k == Taken(x, i)
           y == SubSeq(x, i, i + k)
<1>1. k \in 0..3 /\ i + k \in i..Len(x)
  BY TakenFacts
<1>2. y \in Seq(Symbols) /\ Len(y) = k + 1 /\ y[1] = x[i]
  <2>1. i \in 1..Len(x) + 1 /\ i + k \in 0..Len(x) /\ (i + k) - i + 1 = k + 1 /\ Len(x) \in Nat
    BY <1>1
  <2> HIDE DEF k
  <2> QED
    BY <1>1, <2>1
<1>3. Symbols \subseteq Glyphs
  BY DEF Glyphs
<1>4. CASE Whole(x, i)
  <2>1. Piece(x, i) = y
    BY <1>4 DEF Piece
  <2>2. x[i] # "C" /\ x[i] \in Symbols
    BY <1>4 DEF Whole
  <2>3. x[i] \notin Continuations
    BY <2>2, SymbolFacts DEF Continuations
  <2>4. y \in Seq(Glyphs)
    BY <1>2, <1>3
  <2> HIDE DEF y, k
  <2> QED
    BY <1>1, <1>2, <1>4, <2>1, <2>3, <2>4
<1>5. CASE ~ Whole(x, i)
  <2>1. Piece(x, i) = Replacement
    BY <1>5 DEF Piece
  <2>2. Replacement \in Seq(Glyphs) /\ Len(Replacement) >= 1
    BY ReplacementFacts
  <2>3. Replacement[1] \in {x[i], "R"} /\ Replacement[1] \notin Continuations
    BY ReplacementFacts, Zenon
  <2> QED
    BY <1>5, <2>1, <2>2, <2>3
<1> QED
  BY <1>4, <1>5

-----------------------------------------------------------------------------
(* A function over the positions of a text that takes its value at one      *)
(* from that at a later one.                                               *)

\* g reads positions 1 to n from the end, each from that at a later one.
IsScan(g, n, V, e, next, step) ==
    /\ g \in [1..n + 1 -> V] /\ g[n + 1] = e
    /\ \A i \in 1..n : g[i] = step[<<i, g[next[i]]>>]

\* Such a function exists.
LEMMA ScanExists ==
  ASSUME NEW n \in Nat, NEW V, NEW e \in V, NEW next \in [1..n -> 1..n + 1],
         NEW step \in [(1..n) \X V -> V], \A i \in 1..n : i < next[i]
  PROVE  \E g : IsScan(g, n, V, e, next, step)
<1> DEFINE D == 0..n
           B == {n}
           base == [i \in D |-> e]
           later == [i \in D |-> IF i = n THEN n ELSE next[i + 1] - 1]
           total == [a \in D \X V |-> IF a[1] = n THEN a[2] ELSE step[<<a[1] + 1, a[2]>>]]
<1>1. \A i \in D : i # n => i + 1 \in 1..n /\ next[i + 1] \in i + 2..n + 1
  OBVIOUS
<1>2. B \in SUBSET D /\ base \in [D -> V]
  OBVIOUS
<1>3. later \in [D -> D]
  <2>1. ASSUME NEW i \in D PROVE (IF i = n THEN n ELSE next[i + 1] - 1) \in D
    BY <1>1
  <2> QED
    BY <2>1
<1>4. total \in [D \X V -> V]
  <2>1. ASSUME NEW a \in D \X V PROVE (IF a[1] = n THEN a[2] ELSE step[<<a[1] + 1, a[2]>>]) \in V
    <3>1. CASE a[1] = n
      BY <3>1
    <3>2. CASE a[1] # n
      <4>1. <<a[1] + 1, a[2]>> \in (1..n) \X V
        BY <1>1, <3>2
      <4> QED
        BY <3>2, <4>1
    <3> QED
      BY <3>1, <3>2
  <2> QED
    BY <2>1
<1>5. \A i \in D \ B : i < later[i]
  BY <1>1
<1>6. PICK h : Recursive(h, D, V, B, base, later, total)
  <2> HIDE DEF B, base, later, total
  <2> QED
    BY <1>2, <1>3, <1>4, <1>5, BackwardRecursion
<1>7. /\ h \in [D -> V]
      /\ \A i \in D : h[i] = IF i \in B THEN base[i] ELSE total[<<i, h[later[i]]>>]
  BY <1>6 DEF Recursive
<1> DEFINE g == [i \in 1..n + 1 |-> h[i - 1]]
<1>8. g \in [1..n + 1 -> V]
  <2>1. \A i \in 1..n + 1 : i - 1 \in D
    OBVIOUS
  <2> QED
    BY <1>7, <2>1
<1>9. g[n + 1] = e
  <2>1. n + 1 \in 1..n + 1 /\ (n + 1) - 1 = n /\ n \in D /\ n \in B
    OBVIOUS
  <2>2. h[n] = base[n] /\ base[n] = e
    BY <1>7, <2>1
  <2> QED
    BY <2>1, <2>2
<1>10. ASSUME NEW i \in 1..n PROVE g[i] = step[<<i, g[next[i]]>>]
  <2> DEFINE p == i - 1
  <2>1. p \in D /\ p # n /\ p + 1 = i /\ p \notin B /\ i \in 1..n + 1
    OBVIOUS
  <2>2. later[p] = next[i] - 1 /\ later[p] \in D /\ next[i] \in 1..n + 1
    BY <1>3, <2>1
  <2> HIDE DEF p
  <2>3. h[p] = total[<<p, h[later[p]]>>]
    BY <1>7, <2>1
  <2>4. h[later[p]] \in V
    BY <1>7, <2>2
  <2>5. total[<<p, h[later[p]]>>] = step[<<p + 1, h[later[p]]>>]
    BY <2>1, <2>4
  <2>6. g[i] = h[p] /\ g[next[i]] = h[later[p]]
    BY <2>1, <2>2 DEF p
  <2> QED
    BY <2>1, <2>3, <2>5, <2>6
<1> QED
  BY <1>8, <1>9, <1>10 DEF IsScan

\* Induction from behind the end of a text to its start.
LEMMA ScanInduction ==
  ASSUME NEW n \in Nat, NEW G,
         \A i \in 1..n + 1 : (\A j \in 1..n + 1 : i < j => j \in G) => i \in G
  PROVE  \A i \in 1..n + 1 : i \in G
<1> DEFINE H == {i \in 0..n + 1 : i = 0 \/ i \in G}
<1>1. ASSUME NEW i \in 0..n + 1, \A j \in 0..n + 1 : i < j => j \in H
      PROVE  i \in H
  <2>1. CASE i = 0
    BY <2>1
  <2>2. CASE i # 0
    <3>1. i \in 1..n + 1 /\ \A j \in 1..n + 1 : i < j => j \in G
      BY <1>1, <2>2
    <3> QED
      BY <3>1
  <2> QED
    BY <2>1, <2>2
<1>2. n + 1 \in Nat
  OBVIOUS
<1>3. \A i \in 0..n + 1 : i \in H
  <2> HIDE DEF H
  <2> QED
    BY <1>1, <1>2, BackwardInduction
<1> QED
  BY <1>3

-----------------------------------------------------------------------------
(* The text of bytes.                                                      *)

\* The equation by which Lossy decodes.
LossyEquation(from, x) ==
    from = [i \in 1..Len(x) + 1 |->
        IF i = Len(x) + 1 THEN [text |-> <<>>, valid |-> TRUE]
        ELSE [text |-> Piece(x, i) \o from[i + Taken(x, i) + 1].text,
              valid |-> Whole(x, i) /\ from[i + Taken(x, i) + 1].valid]]

\* What Lossy makes of the end of a text at each position.
On(x) == CHOOSE from : LossyEquation(from, x)

\* Lossy, its recursive function named.
LEMMA LossyIs ==
  ASSUME NEW x
  PROVE  Lossy(x) = On(x)[1]
BY Zenon DEF Lossy, On, LossyEquation, Piece, Whole, Taken, Need

\* g decodes the bytes from each position on.
IsDecoding(g, x) ==
    /\ g \in [1..Len(x) + 1 -> Decodings]
    /\ g[Len(x) + 1] = [text |-> <<>>, valid |-> TRUE]
    /\ \A i \in 1..Len(x) :
          g[i] = [text |-> Piece(x, i) \o g[i + Taken(x, i) + 1].text,
                  valid |-> Whole(x, i) /\ g[i + Taken(x, i) + 1].valid]

\* Every sequence of bytes has a decoding from each position on.
LEMMA DecodingExists ==
  ASSUME NEW x \in Seq(Symbols)
  PROVE  \E g : IsDecoding(g, x)
<1> DEFINE n == Len(x)
           V == Decodings
           e == [text |-> <<>>, valid |-> TRUE]
           next == [i \in 1..n |-> i + Taken(x, i) + 1]
           step == [a \in (1..n) \X V |->
                       [text |-> Piece(x, a[1]) \o a[2].text, valid |-> Whole(x, a[1]) /\ a[2].valid]]
<1>1. n \in Nat /\ e \in V
  <2>1. <<>> \in Seq(Glyphs)
    OBVIOUS
  <2> QED
    BY <2>1 DEF Decodings
<1>2. \A i \in 1..n : i + Taken(x, i) + 1 \in i + 1..n + 1
  BY TakenFacts
<1>3. next \in [1..n -> 1..n + 1] /\ \A i \in 1..n : i < next[i]
  <2>1. \A i \in 1..n : i + Taken(x, i) + 1 \in 1..n + 1 /\ i < i + Taken(x, i) + 1
    BY <1>2
  <2> QED
    BY <2>1
<1>4. step \in [(1..n) \X V -> V]
  <2>1. ASSUME NEW a \in (1..n) \X V
        PROVE  [text |-> Piece(x, a[1]) \o a[2].text, valid |-> Whole(x, a[1]) /\ a[2].valid] \in V
    <3>1. a[1] \in 1..n /\ a[2].text \in Seq(Glyphs)
      BY DEF Decodings
    <3>2. Piece(x, a[1]) \in Seq(Glyphs)
      BY <3>1, PieceFacts
    <3>3. Piece(x, a[1]) \o a[2].text \in Seq(Glyphs)
      BY <3>1, <3>2
    <3>4. (Whole(x, a[1]) /\ a[2].valid) \in BOOLEAN
      OBVIOUS
    <3> QED
      BY <3>3, <3>4 DEF Decodings
  <2> QED
    BY <2>1
<1>5. PICK g : IsScan(g, n, V, e, next, step)
  <2> HIDE DEF n, V, e, next, step
  <2> QED
    BY <1>1, <1>3, <1>4, ScanExists
<1>6. g \in [1..n + 1 -> V] /\ g[n + 1] = e /\ \A i \in 1..n : g[i] = step[<<i, g[next[i]]>>]
  <2> HIDE DEF n, V, e, next, step
  <2> QED
    BY <1>5 DEF IsScan
<1>7. ASSUME NEW i \in 1..n
      PROVE  g[i] = [text |-> Piece(x, i) \o g[i + Taken(x, i) + 1].text,
                     valid |-> Whole(x, i) /\ g[i + Taken(x, i) + 1].valid]
  <2> DEFINE d == g[next[i]]
  <2>1. next[i] = i + Taken(x, i) + 1 /\ d \in V
    BY <1>3, <1>6
  <2>2. g[i] = step[<<i, d>>]
    BY <1>6
  <2> HIDE DEF d, next
  <2>3. step[<<i, d>>] = [text |-> Piece(x, i) \o d.text, valid |-> Whole(x, i) /\ d.valid]
    BY <2>1
  <2> HIDE DEF step
  <2> QED
    BY <2>1, <2>2, <2>3 DEF d
<1> QED
  BY <1>6, <1>7 DEF IsDecoding

\* `Lossy` computes it.
LEMMA Decoded ==
  ASSUME NEW x \in Seq(Symbols)
  PROVE  IsDecoding(On(x), x)
<1> DEFINE n == Len(x)
           h == On(x)
<1>1. PICK g : IsDecoding(g, x)
  BY DecodingExists
<1>2. g \in [1..n + 1 -> Decodings] /\ n \in Nat
  BY <1>1 DEF IsDecoding
<1>3. LossyEquation(g, x)
  <2> DEFINE body(i) == IF i = n + 1 THEN [text |-> <<>>, valid |-> TRUE]
                        ELSE [text |-> Piece(x, i) \o g[i + Taken(x, i) + 1].text,
                              valid |-> Whole(x, i) /\ g[i + Taken(x, i) + 1].valid]
  <2>1. ASSUME NEW i \in 1..n + 1 PROVE g[i] = body(i)
    <3>1. CASE i = n + 1
      BY <1>1, <3>1 DEF IsDecoding
    <3>2. CASE i # n + 1
      <4>1. i \in 1..n
        BY <1>2, <3>2
      <4> QED
        BY <1>1, <3>2, <4>1 DEF IsDecoding
    <3> QED
      BY <3>1, <3>2
  <2>2. g = [i \in 1..n + 1 |-> g[i]]
    BY <1>2
  <2> HIDE DEF body
  <2>3. g = [i \in 1..n + 1 |-> body(i)]
    BY <2>1, <2>2
  <2> QED
    BY <2>3 DEF LossyEquation, body
<1>4. LossyEquation(h, x)
  BY <1>3 DEF On
<1> HIDE DEF h
<1>5. h = [i \in 1..n + 1 |->
        IF i = n + 1 THEN [text |-> <<>>, valid |-> TRUE]
        ELSE [text |-> Piece(x, i) \o h[i + Taken(x, i) + 1].text,
              valid |-> Whole(x, i) /\ h[i + Taken(x, i) + 1].valid]]
  BY <1>4 DEF LossyEquation
<1> DEFINE G == {i \in 1..n + 1 : h[i] = g[i]}
<1>6. ASSUME NEW i \in 1..n + 1, \A j \in 1..n + 1 : i < j => j \in G PROVE i \in G
  <2>1. CASE i = n + 1
    <3>1. g[n + 1] = [text |-> <<>>, valid |-> TRUE]
      BY <1>1 DEF IsDecoding
    <3>2. h[n + 1] = [text |-> <<>>, valid |-> TRUE]
      BY <1>5, <2>1
    <3> QED
      BY <2>1, <3>1, <3>2
  <2>2. CASE i # n + 1
    <3> DEFINE j == i + Taken(x, i) + 1
    <3>1. i \in 1..n
      BY <1>2, <2>2
    <3>2. j \in 1..n + 1 /\ i < j
      <4>1. j \in i + 1..n + 1
        BY <3>1, TakenFacts
      <4> HIDE DEF j
      <4> QED
        BY <4>1
    <3>3. h[j] = g[j]
      BY <1>6, <3>2
    <3>4. g[i] = [text |-> Piece(x, i) \o g[j].text, valid |-> Whole(x, i) /\ g[j].valid]
      BY <1>1, <3>1 DEF IsDecoding
    <3>5. h[i] = [text |-> Piece(x, i) \o h[j].text, valid |-> Whole(x, i) /\ h[j].valid]
      BY <1>5, <2>2
    <3> HIDE DEF j
    <3>6. h[i] = g[i]
      BY <3>3, <3>4, <3>5
    <3> QED
      BY <3>6
  <2> QED
    BY <2>1, <2>2
<1> HIDE DEF G
<1>7. \A i \in 1..n + 1 : i \in G
  BY <1>2, <1>6, ScanInduction
<1>8. \A i \in 1..n + 1 : h[i] = g[i]
  BY <1>7 DEF G
<1>9. h = g
  <2>1. DOMAIN h = 1..n + 1 /\ h = [i \in 1..n + 1 |-> h[i]]
    BY <1>5
  <2>2. g = [i \in 1..n + 1 |-> g[i]]
    BY <1>2
  <2> QED
    BY <1>8, <2>1, <2>2
<1> QED
  BY <1>1, <1>9 DEF h

\* No lead byte waits for bytes behind the end.
Closed(x) ==
    \A i \in 1..Len(x) :
        x[i] \in Leads /\ (\A j \in i + 1..Len(x) : x[j] = "C") => Need(x[i]) <= Len(x) - i

\* Nothing of y belongs to a character that x began.
Meets(x, y) == Closed(x) \/ y = <<>> \/ y[1] # "C"

\* The positions of x and of y in what they make together.
LEMMA JoinFacts ==
  ASSUME NEW S, NEW x \in Seq(S), NEW y \in Seq(S)
  PROVE  /\ x \o y \in Seq(S) /\ Len(x) \in Nat /\ Len(y) \in Nat /\ Len(x \o y) = Len(x) + Len(y)
         /\ \A i \in 1..Len(x) : (x \o y)[i] = x[i]
         /\ \A i \in 1..Len(y) : (x \o y)[Len(x) + i] = y[i]
OBVIOUS

\* The decoder takes in x what it takes of x alone.
LEMMA PrefixTaken ==
  ASSUME NEW x \in Seq(Symbols), NEW y \in Seq(Symbols), Meets(x, y), NEW i \in 1..Len(x)
  PROVE  Taken(x \o y, i) = Taken(x, i)
<1> DEFINE z == x \o y
           n == Len(x)
           m == Need(x[i])
           k == Taken(x, i)
<1>1. /\ z \in Seq(Symbols) /\ n \in Nat /\ Len(y) \in Nat /\ Len(z) = n + Len(y)
      /\ \A j \in 1..n : z[j] = x[j]
      /\ \A j \in 1..Len(y) : z[n + j] = y[j]
  BY JoinFacts
<1>2. i \in 1..Len(z) /\ z[i] = x[i] /\ m \in 0..3 /\ i \in 1..n
  BY <1>1, NeedFacts
<1>3. IsFollowing(k, x, i, m) /\ k \in 0..3 /\ i + k \in i..n
  BY TakenFacts
<1> HIDE DEF z, m, k, n
<1>4. k \in 0..m /\ \A j \in 1..k : i + j \in 1..n /\ x[i + j] = "C"
  BY <1>2, <1>3 DEF IsFollowing, n
<1>5. ASSUME k # m, i + k # Len(z) PROVE z[i + k + 1] # "C"
  <2>1. CASE i + k # n
    <3>1. i + k + 1 \in 1..n
      BY <1>1, <1>3, <2>1
    <3>2. x[i + k + 1] # "C"
      BY <1>3, <1>5, <2>1 DEF IsFollowing, n
    <3> QED
      BY <1>1, <3>1, <3>2
  <2>2. CASE i + k = n
    <3>1. ASSUME NEW j \in i + 1..n PROVE x[j] = "C"
      <4>1. j - i \in 1..k /\ i + (j - i) = j
        BY <1>1, <1>2, <1>3, <2>2
      <4>2. x[i + (j - i)] = "C"
        BY <1>4, <4>1
      <4> QED
        BY <4>1, <4>2
    <3>2. m # 0 /\ k < m
      BY <1>2, <1>4, <1>5
    <3>3. x[i] \in Leads
      BY <3>2, NeedFacts DEF m
    <3>4. ~ Closed(x)
      <4>1. ASSUME Closed(x) PROVE FALSE
        <5>1. m <= n - i
          BY <1>2, <3>1, <3>3, <4>1 DEF Closed, m, n
        <5> QED
          BY <1>1, <1>2, <1>3, <2>2, <3>2, <5>1
      <4> QED
        BY <4>1
    <3>5. y # <<>>
      <4>1. y = <<>> => Len(y) = 0
        OBVIOUS
      <4> QED
        BY <1>1, <1>5, <2>2, <4>1
    <3>6. y[1] # "C" /\ 1 \in 1..Len(y)
      BY <3>4, <3>5 DEF Meets
    <3>7. z[n + 1] = y[1]
      BY <1>1, <3>6
    <3> QED
      BY <2>2, <3>6, <3>7
  <2> QED
    BY <2>1, <2>2
<1>6. ASSUME NEW j \in 1..k PROVE i + j <= Len(z) /\ z[i + j] = "C"
  <2>1. i + j \in 1..n /\ x[i + j] = "C"
    BY <1>4
  <2>2. n <= Len(z)
    BY <1>1
  <2> QED
    BY <1>1, <2>1, <2>2
<1>7. IsFollowing(k, z, i, m)
  BY <1>4, <1>5, <1>6 DEF IsFollowing
<1>8. Taken(z, i) = Following(z, i, m)
  BY <1>2 DEF Taken, m
<1>9. IsFollowing(Following(z, i, m), z, i, m)
  BY <1>1, <1>2, FollowingIs
<1>10. Following(z, i, m) = k
  BY <1>1, <1>2, <1>7, <1>9, FollowingUnique
<1> QED
  BY <1>8, <1>10 DEF z, k

\* It takes in y what it takes of y alone.
LEMMA SuffixTaken ==
  ASSUME NEW x \in Seq(Symbols), NEW y \in Seq(Symbols), NEW i \in 1..Len(y)
  PROVE  Taken(x \o y, Len(x) + i) = Taken(y, i)
<1> DEFINE z == x \o y
           n == Len(x)
           m == Need(y[i])
           k == Taken(y, i)
           p == n + i
<1>1. /\ z \in Seq(Symbols) /\ n \in Nat /\ Len(y) \in Nat /\ Len(z) = n + Len(y)
      /\ \A j \in 1..Len(y) : z[n + j] = y[j]
  BY JoinFacts
<1>2. p \in 1..Len(z) /\ z[p] = y[i] /\ m \in 0..3 /\ p = n + i
  BY <1>1, NeedFacts
<1>3. IsFollowing(k, y, i, m) /\ k \in 0..3 /\ i + k \in i..Len(y)
  BY TakenFacts
<1> HIDE DEF z, m, k, n, p
<1>4. k \in 0..m /\ \A j \in 1..k : i + j \in 1..Len(y) /\ y[i + j] = "C"
  <2>1. k \in 0..m /\ \A j \in 1..k : i + j <= Len(y) /\ y[i + j] = "C"
    BY <1>3 DEF IsFollowing
  <2>2. ASSUME NEW j \in 1..k PROVE i + j \in 1..Len(y)
    <3>1. i + j <= Len(y)
      BY <2>1
    <3>2. i + j >= 1 /\ i + j \in Int
      BY <1>1, <1>3
    <3> QED
      BY <1>1, <3>1, <3>2
  <2> QED
    BY <2>1, <2>2
<1>5. ASSUME NEW j \in 1..k PROVE p + j <= Len(z) /\ z[p + j] = "C"
  <2>1. i + j \in 1..Len(y) /\ y[i + j] = "C"
    BY <1>4
  <2>2. p + j = n + (i + j) /\ n + (i + j) <= n + Len(y)
    BY <1>1, <1>2, <1>3, <2>1
  <2>3. z[n + (i + j)] = y[i + j]
    BY <1>1, <2>1
  <2> QED
    BY <1>1, <2>1, <2>2, <2>3
<1>6. ASSUME k # m, p + k # Len(z) PROVE z[p + k + 1] # "C"
  <2>1. i + k # Len(y)
    BY <1>1, <1>2, <1>3, <1>6
  <2>2. y[i + k + 1] # "C"
    BY <1>3, <1>6, <2>1 DEF IsFollowing
  <2>3. i + k + 1 \in 1..Len(y) /\ p + k + 1 = n + (i + k + 1)
    BY <1>1, <1>2, <1>3, <2>1
  <2>4. z[n + (i + k + 1)] = y[i + k + 1]
    BY <1>1, <2>3
  <2> QED
    BY <2>2, <2>3, <2>4
<1>7. IsFollowing(k, z, p, m)
  BY <1>4, <1>5, <1>6 DEF IsFollowing
<1>8. Taken(z, p) = Following(z, p, m)
  BY <1>2 DEF Taken, m
<1>9. IsFollowing(Following(z, p, m), z, p, m)
  BY <1>1, <1>2, FollowingIs
<1>10. Following(z, p, m) = k
  BY <1>1, <1>2, <1>7, <1>9, FollowingUnique
<1> QED
  BY <1>8, <1>10 DEF z, k, p, n

\* And writes the same for it.
LEMMA PrefixPiece ==
  ASSUME NEW x \in Seq(Symbols), NEW y \in Seq(Symbols), Meets(x, y), NEW i \in 1..Len(x)
  PROVE  Piece(x \o y, i) = Piece(x, i) /\ (Whole(x \o y, i) <=> Whole(x, i))
<1> DEFINE z == x \o y
           k == Taken(x, i)
<1>1. Taken(z, i) = k /\ z[i] = x[i]
  BY PrefixTaken, JoinFacts
<1>2. i + k \in 1..Len(x)
  <2>1. i + k \in i..Len(x)
    BY TakenFacts
  <2> HIDE DEF k
  <2> QED
    BY <2>1
<1>3. SubSeq(z, i, i + k) = SubSeq(x, i, i + k)
  <2> HIDE DEF k
  <2> QED
    BY <1>2, SubSeqOfConcat1
<1>4. Whole(z, i) <=> Whole(x, i)
  BY <1>1 DEF Whole
<1> QED
  BY <1>1, <1>3, <1>4 DEF Piece

\* A position of y has the same piece of text when x stands before it.
LEMMA SuffixPiece ==
  ASSUME NEW x \in Seq(Symbols), NEW y \in Seq(Symbols), NEW i \in 1..Len(y)
  PROVE  /\ Piece(x \o y, Len(x) + i) = Piece(y, i)
         /\ Whole(x \o y, Len(x) + i) <=> Whole(y, i)
<1> DEFINE z == x \o y
           n == Len(x)
           k == Taken(y, i)
           p == n + i
<1>1. Taken(z, p) = k /\ z[p] = y[i]
  BY SuffixTaken, JoinFacts
<1>2. n \in Nat /\ Len(y) \in Nat
  OBVIOUS
<1>3. k \in 0..3 /\ i + k \in i..Len(y)
  BY TakenFacts
<1>4. SubSeq(z, p, p + k) = SubSeq(y, i, i + k)
  <2> HIDE DEF k
  <2>1. /\ p \in n + 1..n + Len(y) /\ p + k \in n + 1..n + Len(y)
        /\ p - n = i /\ (p + k) - n = i + k
    BY <1>2, <1>3
  <2>2. SubSeq(z, p, p + k) = SubSeq(y, p - n, (p + k) - n)
    BY <2>1, SubSeqOfConcat2
  <2> QED
    BY <2>1, <2>2
<1>5. Whole(z, p) <=> Whole(y, i)
  BY <1>1 DEF Whole
<1> QED
  BY <1>1, <1>4, <1>5 DEF Piece

\* What On makes of each position.
LEMMA OnFacts ==
  ASSUME NEW x \in Seq(Symbols)
  PROVE  /\ Len(x) \in Nat
         /\ On(x)[Len(x) + 1].text = <<>> /\ On(x)[Len(x) + 1].valid = TRUE
         /\ \A i \in 1..Len(x) + 1 : On(x)[i].text \in Seq(Glyphs) /\ On(x)[i].valid \in BOOLEAN
         /\ \A i \in 1..Len(x) : /\ On(x)[i].text = Piece(x, i) \o On(x)[i + Taken(x, i) + 1].text
                                 /\ On(x)[i].valid <=> Whole(x, i) /\ On(x)[i + Taken(x, i) + 1].valid
<1> DEFINE g == On(x)
           n == Len(x)
<1>1. IsDecoding(g, x) /\ n \in Nat
  BY Decoded
<1> HIDE DEF g
<1>2. ASSUME NEW i \in 1..n + 1 PROVE g[i].text \in Seq(Glyphs) /\ g[i].valid \in BOOLEAN
  <2>1. g[i] \in Decodings
    BY <1>1 DEF IsDecoding
  <2> QED
    BY <2>1 DEF Decodings
<1>3. g[n + 1].text = <<>> /\ g[n + 1].valid = TRUE
  BY <1>1 DEF IsDecoding
<1>4. ASSUME NEW i \in 1..n
      PROVE  /\ g[i].text = Piece(x, i) \o g[i + Taken(x, i) + 1].text
             /\ g[i].valid <=> Whole(x, i) /\ g[i + Taken(x, i) + 1].valid
  <2>1. g[i] = [text |-> Piece(x, i) \o g[i + Taken(x, i) + 1].text,
                valid |-> Whole(x, i) /\ g[i + Taken(x, i) + 1].valid]
    BY <1>1 DEF IsDecoding
  <2> DEFINE t == Piece(x, i) \o g[i + Taken(x, i) + 1].text
             v == Whole(x, i) /\ g[i + Taken(x, i) + 1].valid
  <2>2. g[i] = [text |-> t, valid |-> v]
    BY <2>1
  <2> HIDE DEF t, v
  <2>3. g[i].text = t /\ g[i].valid = v
    BY <2>2
  <2> QED
    BY <2>3 DEF t, v
<1> QED
  BY <1>1, <1>2, <1>3, <1>4 DEF g

\* The bytes behind x are decoded as if they were alone.
LEMMA SuffixOn ==
  ASSUME NEW x \in Seq(Symbols), NEW y \in Seq(Symbols)
  PROVE  \A i \in 1..Len(y) + 1 :
            /\ On(x \o y)[Len(x) + i].text = On(y)[i].text
            /\ On(x \o y)[Len(x) + i].valid <=> On(y)[i].valid
<1> DEFINE z == x \o y
           n == Len(x)
           k == Len(y)
           same(i) == On(z)[n + i].text = On(y)[i].text /\ (On(z)[n + i].valid <=> On(y)[i].valid)
           G == {i \in 1..k + 1 : same(i)}
<1>1. z \in Seq(Symbols) /\ n \in Nat /\ k \in Nat /\ Len(z) = n + k
  BY JoinFacts
<1>2. ASSUME NEW i \in 1..k + 1, \A j \in 1..k + 1 : i < j => j \in G PROVE i \in G
  <2>1. CASE i = k + 1
    <3>1. n + i = Len(z) + 1
      BY <1>1, <2>1
    <3>2. On(z)[Len(z) + 1].text = <<>> /\ On(z)[Len(z) + 1].valid = TRUE
      BY <1>1, OnFacts
    <3>3. On(y)[i].text = <<>> /\ On(y)[i].valid = TRUE
      BY <2>1, OnFacts
    <3> QED
      BY <3>1, <3>2, <3>3
  <2>2. CASE i # k + 1
    <3> DEFINE j == i + Taken(y, i) + 1
    <3>1. i \in 1..k
      BY <1>1, <2>2
    <3>2. j \in i + 1..k + 1 /\ Taken(y, i) \in 0..3
      BY <3>1, TakenFacts
    <3>3. j \in 1..k + 1 /\ i < j
      <4> HIDE DEF j
      <4> QED
        BY <3>2
    <3>4. same(j)
      BY <1>2, <3>3
    <3>5. n + i \in 1..Len(z) /\ n + i + Taken(y, i) + 1 = n + j
      <4> DEFINE h == Taken(y, i)
      <4>1. h \in Nat
        BY <3>2
      <4> HIDE DEF h, z, n, k
      <4> QED
        BY <1>1, <3>1, <4>1 DEF h
    <3>6. /\ On(z)[n + i].text = Piece(z, n + i) \o On(z)[n + i + Taken(z, n + i) + 1].text
          /\ On(z)[n + i].valid <=> Whole(z, n + i) /\ On(z)[n + i + Taken(z, n + i) + 1].valid
      <4> DEFINE p == n + i
      <4> HIDE DEF p, z
      <4> QED
        BY <1>1, <3>5, OnFacts DEF p
    <3>7. /\ On(y)[i].text = Piece(y, i) \o On(y)[j].text
          /\ On(y)[i].valid <=> Whole(y, i) /\ On(y)[j].valid
      BY <3>1, OnFacts
    <3>8. Taken(z, n + i) = Taken(y, i) /\ Piece(z, n + i) = Piece(y, i) /\ (Whole(z, n + i) <=> Whole(y, i))
      BY <3>1, SuffixTaken, SuffixPiece
    <3> HIDE DEF j, z, n
    <3>9. /\ On(z)[n + i].text = Piece(y, i) \o On(z)[n + j].text
          /\ On(z)[n + i].valid <=> Whole(y, i) /\ On(z)[n + j].valid
      BY <3>5, <3>6, <3>8
    <3>10. same(i)
      BY <3>4, <3>7, <3>9
    <3> QED
      BY <3>10
  <2> QED
    BY <2>1, <2>2
<1> HIDE DEF G
<1>3. \A i \in 1..k + 1 : i \in G
  BY <1>1, <1>2, ScanInduction
<1> QED
  BY <1>3 DEF G

\* What precedes y is decoded as if it were alone, and y as well.
LEMMA PrefixOn ==
  ASSUME NEW x \in Seq(Symbols), NEW y \in Seq(Symbols), Meets(x, y)
  PROVE  \A i \in 1..Len(x) + 1 :
            /\ On(x \o y)[i].text = On(x)[i].text \o On(y)[1].text
            /\ On(x \o y)[i].valid <=> On(x)[i].valid /\ On(y)[1].valid
<1> DEFINE z == x \o y
           n == Len(x)
           u == On(y)[1].text
           ok == On(y)[1].valid
           same(i) == On(z)[i].text = On(x)[i].text \o u /\ (On(z)[i].valid <=> On(x)[i].valid /\ ok)
           G == {i \in 1..n + 1 : same(i)}
<1>1. z \in Seq(Symbols) /\ n \in Nat /\ Len(y) \in Nat /\ Len(z) = n + Len(y)
  BY JoinFacts
<1>2. u \in Seq(Glyphs) /\ 1 \in 1..Len(y) + 1
  <2>1. 1 \in 1..Len(y) + 1
    BY <1>1
  <2> QED
    BY <2>1, OnFacts
<1>3. ASSUME NEW i \in 1..n + 1, \A j \in 1..n + 1 : i < j => j \in G PROVE i \in G
  <2>1. CASE i = n + 1
    <3>1. On(z)[n + 1].text = u /\ (On(z)[n + 1].valid <=> ok)
      BY <1>2, SuffixOn
    <3>2. On(x)[i].text = <<>> /\ On(x)[i].valid = TRUE
      BY <2>1, OnFacts
    <3>3. <<>> \o u = u
      BY <1>2
    <3>4. same(i)
      <4> HIDE DEF z, u, ok
      <4> QED
        BY <2>1, <3>1, <3>2, <3>3
    <3> QED
      BY <3>4
  <2>2. CASE i # n + 1
    <3> DEFINE j == i + Taken(x, i) + 1
    <3>1. i \in 1..n /\ i \in 1..Len(z)
      BY <1>1, <2>2
    <3>2. j \in i + 1..n + 1
      BY <3>1, TakenFacts
    <3>3. j \in 1..n + 1 /\ i < j
      <4> HIDE DEF j
      <4> QED
        BY <3>2
    <3>4. same(j)
      BY <1>3, <3>3
    <3>5. /\ On(z)[i].text = Piece(z, i) \o On(z)[i + Taken(z, i) + 1].text
          /\ On(z)[i].valid <=> Whole(z, i) /\ On(z)[i + Taken(z, i) + 1].valid
      BY <1>1, <3>1, OnFacts
    <3>6. /\ On(x)[i].text = Piece(x, i) \o On(x)[j].text
          /\ On(x)[i].valid <=> Whole(x, i) /\ On(x)[j].valid
      BY <3>1, OnFacts
    <3>7. Taken(z, i) = Taken(x, i) /\ Piece(z, i) = Piece(x, i) /\ (Whole(z, i) <=> Whole(x, i))
      BY <3>1, PrefixTaken, PrefixPiece
    <3>8. Piece(x, i) \in Seq(Glyphs) /\ On(x)[j].text \in Seq(Glyphs)
      BY <3>1, <3>3, PieceFacts, OnFacts
    <3> HIDE DEF z, u, ok
    <3>9. /\ On(z)[i].text = Piece(x, i) \o On(z)[j].text
          /\ On(z)[i].valid <=> Whole(x, i) /\ On(z)[j].valid
      BY <3>5, <3>7
    <3> HIDE DEF j
    <3>10. Piece(x, i) \o (On(x)[j].text \o u) = (Piece(x, i) \o On(x)[j].text) \o u
      <4>1. \A a, b, c \in Seq(Glyphs) : a \o (b \o c) = (a \o b) \o c
        BY ConcatAssociative, SMTT(30)
      <4> QED
        BY <1>2, <3>8, <4>1
    <3>11. same(i)
      BY <3>4, <3>6, <3>9, <3>10
    <3> QED
      BY <3>11
  <2> QED
    BY <2>1, <2>2
<1> HIDE DEF G
<1>4. \A i \in 1..n + 1 : i \in G
  BY <1>1, <1>3, ScanInduction
<1> QED
  BY <1>4 DEF G

\* Bytes are decoded piece by piece where no character is cut.
LEMMA LossySplit ==
  ASSUME NEW x \in Seq(Symbols), NEW y \in Seq(Symbols), Meets(x, y)
  PROVE  /\ Lossy(x \o y).text = Lossy(x).text \o Lossy(y).text
         /\ Lossy(x \o y).valid <=> Lossy(x).valid /\ Lossy(y).valid
<1>1. 1 \in 1..Len(x) + 1
  OBVIOUS
<1>2. /\ On(x \o y)[1].text = On(x)[1].text \o On(y)[1].text
      /\ On(x \o y)[1].valid <=> On(x)[1].valid /\ On(y)[1].valid
  BY <1>1, PrefixOn
<1> QED
  BY <1>2, LossyIs

-----------------------------------------------------------------------------
(* How texts begin and end.                                                *)

\* The text of a nonempty sequence starts with a character.
LEMMA OnStarts ==
  ASSUME NEW x \in Seq(Symbols), NEW i \in 1..Len(x)
  PROVE  /\ Len(On(x)[i].text) >= 1
         /\ On(x)[i].text[1] \in {x[i], "R"} /\ On(x)[i].text[1] \notin Continuations
<1> DEFINE p == Piece(x, i)
           r == On(x)[i + Taken(x, i) + 1].text
<1>1. p \in Seq(Glyphs) /\ Len(p) >= 1
  BY PieceFacts
<1>2. p[1] \in {x[i], "R"} /\ p[1] \notin Continuations
  BY PieceFacts
<1>3. r \in Seq(Glyphs)
  <2> DEFINE j == i + Taken(x, i) + 1
  <2>1. j \in i + 1..Len(x) + 1
    BY TakenFacts
  <2> HIDE DEF j
  <2>2. j \in 1..Len(x) + 1
    BY <2>1
  <2> QED
    BY <2>2, OnFacts DEF j
<1>4. On(x)[i].text = p \o r
  BY OnFacts
<1> HIDE DEF p, r
<1>5. Len(p \o r) >= 1 /\ (p \o r)[1] = p[1]
  BY <1>1, <1>3
<1> QED
  BY <1>2, <1>4, <1>5

\* A valid text is made of the symbols of tokens.
LEMMA ValidOn ==
  ASSUME NEW x \in Seq(Symbols)
  PROVE  \A i \in 1..Len(x) + 1 : On(x)[i].valid => On(x)[i].text \in Seq(Symbols)
<1> DEFINE n == Len(x)
           G == {i \in 1..n + 1 : On(x)[i].valid => On(x)[i].text \in Seq(Symbols)}
<1>1. n \in Nat
  OBVIOUS
<1>2. ASSUME NEW i \in 1..n + 1, \A j \in 1..n + 1 : i < j => j \in G PROVE i \in G
  <2>1. CASE i = n + 1
    <3>1. On(x)[n + 1].text = <<>>
      BY OnFacts
    <3>2. <<>> \in Seq(Symbols)
      OBVIOUS
    <3> QED
      BY <2>1, <3>1, <3>2
  <2>2. CASE i # n + 1
    <3> DEFINE j == i + Taken(x, i) + 1
    <3>1. i \in 1..n
      BY <1>1, <2>2
    <3>2. j \in i + 1..n + 1
      BY <3>1, TakenFacts
    <3>3. j \in 1..n + 1 /\ i < j
      <4> HIDE DEF j
      <4> QED
        BY <3>2
    <3>4. j \in G
      BY <1>2, <3>3
    <3>5. On(x)[i].text = Piece(x, i) \o On(x)[j].text /\ (On(x)[i].valid <=> Whole(x, i) /\ On(x)[j].valid)
      BY <3>1, OnFacts
    <3>6. Whole(x, i) => Piece(x, i) \in Seq(Symbols)
      BY <3>1, PieceFacts
    <3> HIDE DEF j
    <3>7. On(x)[i].valid => Piece(x, i) \in Seq(Symbols) /\ On(x)[j].text \in Seq(Symbols)
      BY <3>4, <3>5, <3>6
    <3>8. On(x)[i].valid => On(x)[i].text \in Seq(Symbols)
      BY <3>5, <3>7
    <3> QED
      BY <3>8
  <2> QED
    BY <2>1, <2>2
<1> HIDE DEF G
<1>3. \A i \in 1..n + 1 : i \in G
  BY <1>1, <1>2, ScanInduction
<1> QED
  BY <1>3 DEF G

\* A prefix agrees with the sequence.
LEMMA PrefixIs ==
  ASSUME NEW S, NEW s \in Seq(S), NEW t \in Seq(S)
  PROVE  IsPrefix(s, t) <=> Len(s) <= Len(t) /\ \A i \in 1..Len(s) : s[i] = t[i]
<1> DEFINE n == Len(s)
<1>1. n \in Nat /\ Len(t) \in Nat /\ SubSeq(s, 1, n) = s
  OBVIOUS
<1>2. ASSUME n <= Len(t)
      PROVE  /\ SubSeq(t, 1, n) \in Seq(S) /\ Len(SubSeq(t, 1, n)) = n
             /\ \A i \in 1..n : SubSeq(t, 1, n)[i] = t[i]
  BY <1>1, <1>2
<1>3. ASSUME n <= Len(t), \A i \in 1..n : s[i] = t[i] PROVE SubSeq(t, 1, n) = s
  <2> DEFINE u == SubSeq(t, 1, n)
  <2>1. u \in Seq(S) /\ Len(u) = Len(s) /\ \A i \in 1..Len(u) : u[i] = s[i]
    BY <1>2, <1>3
  <2> HIDE DEF u
  <2>2. u = s
    BY <2>1, SeqEqual
  <2> QED
    BY <2>2 DEF u
<1>4. ASSUME n <= Len(t), SubSeq(t, 1, n) = s, NEW i \in 1..n PROVE s[i] = t[i]
  BY <1>2, <1>4
<1>5. IsPrefix(s, t) <=> n <= Len(t) /\ s = SubSeq(t, 1, n)
  BY <1>1 DEF IsPrefix
<1> QED
  BY <1>3, <1>4, <1>5

\* What Reverse gives.
LEMMA ReverseFacts ==
  ASSUME NEW S, NEW s \in Seq(S)
  PROVE  /\ Reverse(s) \in Seq(S) /\ Len(Reverse(s)) = Len(s)
         /\ \A i \in 1..Len(s) : Reverse(s)[i] = s[(Len(s) - i) + 1]
<1> DEFINE q == Reverse(s)
           n == Len(s)
<1>1. n \in Nat
  OBVIOUS
<1>2. q = [i \in 1..n |-> s[(n - i) + 1]]
  BY DEF Reverse
<1>3. \A i \in 1..n : s[(n - i) + 1] \in S
  <2>1. \A i \in 1..n : (n - i) + 1 \in 1..n
    OBVIOUS
  <2> QED
    BY <2>1
<1> HIDE DEF q, n
<1>4. q \in Seq(S) /\ Len(q) = n /\ \A i \in 1..n : q[i] = s[(n - i) + 1]
  BY <1>1, <1>2, <1>3
<1> QED
  BY <1>4 DEF q, n

\* When a text ends in a replacement.
LEMMA EndsIs ==
  ASSUME NEW t \in Seq(Glyphs)
  PROVE  EndsInReplacement(t) <=>
            Len(t) >= 3 /\ t[Len(t) - 2] = "R" /\ t[Len(t) - 1] = "R+" /\ t[Len(t)] = "R+"
<1> DEFINE r == Reverse(Replacement)
           q == Reverse(t)
           n == Len(t)
<1>1. n \in Nat
  OBVIOUS
<1>2. q \in Seq(Glyphs) /\ Len(q) = n /\ \A i \in 1..n : q[i] = t[(n - i) + 1]
  BY ReverseFacts
<1>3. r \in Seq(Glyphs) /\ Len(r) = 3 /\ r[1] = "R+" /\ r[2] = "R+" /\ r[3] = "R"
  <2> DEFINE c == Replacement
  <2>1. c \in Seq(Glyphs) /\ Len(c) = 3 /\ c[1] = "R" /\ c[2] = "R+" /\ c[3] = "R+"
    BY ReplacementFacts
  <2>2. r \in Seq(Glyphs) /\ Len(r) = Len(c) /\ \A i \in 1..Len(c) : r[i] = c[(Len(c) - i) + 1]
    BY <2>1, ReverseFacts
  <2> HIDE DEF r, c
  <2>3. r[1] = c[(3 - 1) + 1] /\ r[2] = c[(3 - 2) + 1] /\ r[3] = c[(3 - 3) + 1]
    <3>1. 1 \in 1..3 /\ 2 \in 1..3 /\ 3 \in 1..3
      OBVIOUS
    <3> QED
      BY <2>1, <2>2, <3>1
  <2>4. (3 - 1) + 1 = 3 /\ (3 - 2) + 1 = 2 /\ (3 - 3) + 1 = 1
    OBVIOUS
  <2> QED
    BY <2>1, <2>2, <2>3, <2>4
<1>4. EndsInReplacement(t) <=> IsPrefix(r, q)
  BY DEF EndsInReplacement, IsSuffix
<1> HIDE DEF r, q
<1>5. IsPrefix(r, q) <=> 3 <= n /\ \A i \in 1..3 : r[i] = q[i]
  <2>1. \A x, y \in Seq(Glyphs) : IsPrefix(x, y) <=> Len(x) <= Len(y) /\ \A i \in 1..Len(x) : x[i] = y[i]
    BY PrefixIs
  <2>2. IsPrefix(r, q) <=> Len(r) <= Len(q) /\ \A i \in 1..Len(r) : r[i] = q[i]
    BY <1>2, <1>3, <2>1
  <2> QED
    BY <1>2, <1>3, <2>2
<1>6. 1..3 = {1, 2, 3}
  OBVIOUS
<1>7. n >= 3 => q[1] = t[n] /\ q[2] = t[n - 1] /\ q[3] = t[n - 2]
  <2> SUFFICES ASSUME n >= 3 PROVE q[1] = t[n] /\ q[2] = t[n - 1] /\ q[3] = t[n - 2]
    OBVIOUS
  <2>1. /\ 1 \in 1..n /\ 2 \in 1..n /\ 3 \in 1..n
        /\ (n - 1) + 1 = n /\ (n - 2) + 1 = n - 1 /\ (n - 3) + 1 = n - 2
    BY <1>1
  <2>2. q[1] = t[(n - 1) + 1] /\ q[2] = t[(n - 2) + 1] /\ q[3] = t[(n - 3) + 1]
    BY <1>2, <2>1
  <2> QED
    BY <2>1, <2>2
<1> HIDE DEF n
<1>8. IsPrefix(r, q) <=> n >= 3 /\ r[1] = q[1] /\ r[2] = q[2] /\ r[3] = q[3]
  BY <1>1, <1>5, <1>6
<1>9. IsPrefix(r, q) <=> n >= 3 /\ t[n - 2] = "R" /\ t[n - 1] = "R+" /\ t[n] = "R+"
  BY <1>3, <1>7, <1>8
<1> QED
  BY <1>4, <1>9 DEF n

\* A text ends in a replacement if a part at its end does.
LEMMA EndsWithPart ==
  ASSUME NEW x \in Seq(Glyphs), NEW y \in Seq(Glyphs), EndsInReplacement(y)
  PROVE  EndsInReplacement(x \o y)
<1> DEFINE z == x \o y
           n == Len(x)
           k == Len(y)
<1>1. z \in Seq(Glyphs) /\ n \in Nat /\ k \in Nat /\ Len(z) = n + k /\ \A i \in 1..k : z[n + i] = y[i]
  BY JoinFacts
<1>2. k >= 3 /\ y[k - 2] = "R" /\ y[k - 1] = "R+" /\ y[k] = "R+"
  BY EndsIs
<1> HIDE DEF z, n, k
<1>3. /\ k - 2 \in 1..k /\ k - 1 \in 1..k /\ k \in 1..k
      /\ n + k - 2 = n + (k - 2) /\ n + k - 1 = n + (k - 1) /\ n + k >= 3
  BY <1>1, <1>2
<1>4. z[n + (k - 2)] = y[k - 2] /\ z[n + (k - 1)] = y[k - 1] /\ z[n + k] = y[k]
  BY <1>1, <1>3
<1>5. Len(z) >= 3 /\ z[Len(z) - 2] = "R" /\ z[Len(z) - 1] = "R+" /\ z[Len(z)] = "R+"
  BY <1>1, <1>2, <1>3, <1>4
<1> QED
  BY <1>1, <1>5, EndsIs DEF z

\* A part that starts with a character holds the replacement the whole ends in.
LEMMA PartEnds ==
  ASSUME NEW x \in Seq(Glyphs), NEW y \in Seq(Glyphs), EndsInReplacement(x \o y),
         Len(y) >= 1, y[1] \notin Continuations
  PROVE  EndsInReplacement(y)
<1> DEFINE z == x \o y
           n == Len(x)
           k == Len(y)
<1>1. z \in Seq(Glyphs) /\ n \in Nat /\ k \in Nat /\ Len(z) = n + k /\ \A i \in 1..k : z[n + i] = y[i]
  BY JoinFacts
<1>2. z[n + k - 2] = "R" /\ z[n + k - 1] = "R+" /\ z[n + k] = "R+"
  <2> DEFINE ends(u) == u[Len(u) - 2] = "R" /\ u[Len(u) - 1] = "R+" /\ u[Len(u)] = "R+"
  <2>1. \A u \in Seq(Glyphs) : EndsInReplacement(u) => ends(u)
    BY EndsIs
  <2>2. ends(z)
    BY <1>1, <2>1
  <2> HIDE DEF z, n, k
  <2>3. Len(z) - 2 = n + k - 2 /\ Len(z) - 1 = n + k - 1
    BY <1>1
  <2> QED
    BY <1>1, <2>2, <2>3
<1>3. k >= 1 /\ y[1] # "R+"
  BY SymbolFacts
<1> HIDE DEF z, n, k
<1>4. y[k] = "R+"
  <2>1. k \in 1..k
    BY <1>1, <1>3
  <2> QED
    BY <1>1, <1>2, <2>1
<1>5. k >= 2
  BY <1>1, <1>3, <1>4
<1>6. y[k - 1] = "R+"
  <2>1. k - 1 \in 1..k /\ n + (k - 1) = n + k - 1
    BY <1>1, <1>5
  <2> QED
    BY <1>1, <1>2, <2>1
<1>7. k >= 3
  <2>1. k = 2 => k - 1 = 1
    OBVIOUS
  <2> QED
    BY <1>1, <1>3, <1>5, <1>6, <2>1
<1>8. y[k - 2] = "R"
  <2>1. k - 2 \in 1..k /\ n + (k - 2) = n + k - 2
    BY <1>1, <1>7
  <2> QED
    BY <1>1, <1>2, <2>1
<1> QED
  BY <1>4, <1>6, <1>7, <1>8, EndsIs DEF k

\* A text of symbols does not end in a replacement.
LEMMA SymbolsEnd ==
  ASSUME NEW t \in Seq(Symbols)
  PROVE  ~ EndsInReplacement(t)
<1>1. t \in Seq(Glyphs)
  BY DEF Glyphs
<1>2. ASSUME EndsInReplacement(t) PROVE FALSE
  <2>1. Len(t) >= 3 /\ t[Len(t)] = "R+"
    BY <1>1, <1>2, EndsIs
  <2>2. t[Len(t)] \in Symbols
    BY <2>1
  <2> QED
    BY <2>1, <2>2, SymbolFacts
<1> QED
  BY <1>2

\* The replacement ends in one.
LEMMA ReplacementEnds == EndsInReplacement(Replacement)
<1> DEFINE r == Replacement
<1>1. r \in Seq(Glyphs) /\ Len(r) = 3 /\ r[1] = "R" /\ r[2] = "R+" /\ r[3] = "R+"
  BY ReplacementFacts
<1>2. 3 - 2 = 1 /\ 3 - 1 = 2
  OBVIOUS
<1> HIDE DEF r
<1>3. Len(r) >= 3 /\ r[Len(r) - 2] = "R" /\ r[Len(r) - 1] = "R+" /\ r[Len(r)] = "R+"
  BY <1>1, <1>2
<1> QED
  BY <1>1, <1>3, EndsIs DEF r

\* A text's beginning is a sequence of characters, and it is empty only if the bytes are none.
LEMMA LossyFacts ==
  ASSUME NEW x \in Seq(Symbols)
  PROVE  /\ Lossy(x).text \in Seq(Glyphs) /\ Lossy(x).valid \in BOOLEAN
         /\ x # <<>> => /\ Len(Lossy(x).text) >= 1 /\ Lossy(x).text[1] \in {x[1], "R"}
                        /\ Lossy(x).text[1] \notin Continuations
         /\ x = <<>> => Lossy(x).text = <<>>
         /\ Lossy(x).valid => Lossy(x).text \in Seq(Symbols)
<1>1. Len(x) \in Nat /\ 1 \in 1..Len(x) + 1
  OBVIOUS
<1>2. x # <<>> => 1 \in 1..Len(x)
  OBVIOUS
<1>3. x = <<>> => Len(x) + 1 = 1
  OBVIOUS
<1>4. Lossy(x) = On(x)[1]
  BY LossyIs
<1>5. On(x)[1].text \in Seq(Glyphs) /\ On(x)[1].valid \in BOOLEAN
  BY <1>1, OnFacts
<1>6. On(x)[Len(x) + 1].text = <<>>
  BY OnFacts
<1>7. \A i \in 1..Len(x) : /\ Len(On(x)[i].text) >= 1
                           /\ On(x)[i].text[1] \in {x[i], "R"} /\ On(x)[i].text[1] \notin Continuations
  BY OnStarts
<1>8. On(x)[1].valid => On(x)[1].text \in Seq(Symbols)
  BY <1>1, ValidOn
<1> QED
  BY <1>2, <1>3, <1>4, <1>5, <1>6, <1>7, <1>8

\* Before a character that is still open nothing is valid, and all that is
\* decoded ends in the replacement of that character.
LEMMA OpenOn ==
  ASSUME NEW x \in Seq(Symbols), NEW i \in 1..Len(x), x[i] \in Leads,
         \A j \in i + 1..Len(x) : x[j] = "C", Need(x[i]) > Len(x) - i
  PROVE  \A p \in 1..Len(x) + 1 : p <= i => ~ On(x)[p].valid /\ EndsInReplacement(On(x)[p].text)
<1> DEFINE n == Len(x)
           open(p) == ~ On(x)[p].valid /\ EndsInReplacement(On(x)[p].text)
           G == {p \in 1..n + 1 : p <= i => open(p)}
<1>1. n \in Nat /\ i \in 1..n
  OBVIOUS
<1>2. open(i)
  <2> DEFINE k == Taken(x, i)
             m == Need(x[i])
  <2>1. k \in 0..m /\ (k = m \/ i + k = n \/ x[i + k + 1] # "C")
    BY TakenFacts DEF IsFollowing
  <2>2. k \in 0..3 /\ i + k \in i..n /\ m \in 0..3 /\ m > n - i
    BY TakenFacts, NeedFacts
  <2>3. \A j \in i + 1..n : x[j] = "C"
    OBVIOUS
  <2> HIDE DEF k, m
  <2>4. i + k = n
    <3>1. k # m
      BY <1>1, <2>2
    <3>2. ASSUME i + k # n PROVE FALSE
      <4>1. i + k + 1 \in i + 1..n
        BY <1>1, <2>2, <3>2
      <4> QED
        BY <2>1, <2>3, <3>1, <3>2, <4>1
    <3> QED
      BY <3>2
  <2>5. i + k + 1 = n + 1 /\ k # m
    BY <1>1, <2>2, <2>4
  <2>6. ~ Whole(x, i)
    BY <2>5 DEF Whole, k, m
  <2>7. /\ On(x)[i].text = Piece(x, i) \o On(x)[i + k + 1].text
        /\ (On(x)[i].valid <=> Whole(x, i) /\ On(x)[i + k + 1].valid)
    BY OnFacts DEF k
  <2>8. Piece(x, i) = Replacement /\ On(x)[n + 1].text = <<>>
    BY <2>6, OnFacts DEF Piece
  <2>9. On(x)[i].text = Replacement \o <<>>
    BY <2>5, <2>7, <2>8
  <2>10. Replacement \o <<>> = Replacement
    <3>1. Replacement \in Seq(Glyphs)
      BY ReplacementFacts
    <3> QED
      BY <3>1
  <2> QED
    BY <2>6, <2>7, <2>9, <2>10, ReplacementEnds
<1>3. ASSUME NEW p \in 1..n + 1, \A j \in 1..n + 1 : p < j => j \in G, p < i PROVE open(p)
  <2> DEFINE k == Taken(x, p)
             m == Need(x[p])
             j == p + k + 1
  <2>1. p \in 1..n
    BY <1>1, <1>3
  <2>2. k \in 0..m /\ \A h \in 1..k : x[p + h] = "C"
    BY <2>1, TakenFacts DEF IsFollowing
  <2>3. k \in 0..3 /\ p + k \in p..n
    BY <2>1, TakenFacts
  <2>4. On(x)[p].text = Piece(x, p) \o On(x)[j].text /\ (On(x)[p].valid <=> Whole(x, p) /\ On(x)[j].valid)
    BY <2>1, OnFacts
  <2>5. Piece(x, p) \in Seq(Glyphs)
    BY <2>1, PieceFacts
  <2> HIDE DEF k, m
  <2>6. p + k < i
    <3>1. ASSUME p + k >= i PROVE FALSE
      <4>1. i - p \in 1..k /\ p + (i - p) = i
        BY <1>1, <1>3, <2>1, <2>3, <3>1
      <4>2. x[i] = "C"
        BY <2>2, <4>1
      <4> QED
        BY <4>2, NeedFacts
    <3> QED
      BY <3>1, <1>1, <2>1, <2>3
  <2>7. j \in 1..n + 1 /\ p < j /\ j <= i
    BY <1>1, <2>1, <2>3, <2>6
  <2> HIDE DEF j
  <2>8. open(j)
    BY <1>3, <2>7
  <2>9. On(x)[j].text \in Seq(Glyphs)
    BY <2>7, OnFacts
  <2>10. \A y, z \in Seq(Glyphs) : EndsInReplacement(z) => EndsInReplacement(y \o z)
    BY EndsWithPart
  <2>11. EndsInReplacement(Piece(x, p) \o On(x)[j].text)
    BY <2>5, <2>8, <2>9, <2>10
  <2> QED
    BY <2>4, <2>8, <2>11
<1>4. ASSUME NEW p \in 1..n + 1, \A j \in 1..n + 1 : p < j => j \in G PROVE p \in G
  <2>1. p < i => open(p)
    BY <1>3, <1>4
  <2>2. p <= i => p < i \/ p = i
    BY <1>1
  <2> HIDE DEF open
  <2> QED
    BY <1>2, <2>1, <2>2
<1> HIDE DEF G
<1>5. \A p \in 1..n + 1 : p \in G
  BY <1>1, <1>4, ScanInduction
<1> QED
  BY <1>5 DEF G

\* Bytes that leave a character open are not valid and end in its replacement.
LEMMA OpenEnds ==
  ASSUME NEW x \in Seq(Symbols), ~ Closed(x)
  PROVE  ~ Lossy(x).valid /\ EndsInReplacement(Lossy(x).text)
<1>1. PICK i \in 1..Len(x) : /\ x[i] \in Leads /\ \A j \in i + 1..Len(x) : x[j] = "C"
                             /\ ~ Need(x[i]) <= Len(x) - i
  BY DEF Closed
<1>2. Need(x[i]) > Len(x) - i
  <2> DEFINE m == Need(x[i])
             n == Len(x)
  <2>1. m \in 0..3 /\ n \in Nat /\ ~ m <= n - i
    BY <1>1, NeedFacts
  <2> HIDE DEF m, n
  <2>2. i \in Int /\ m > n - i
    BY <2>1
  <2> QED
    BY <2>2 DEF m, n
<1>3. 1 \in 1..Len(x) + 1 /\ 1 <= i
  OBVIOUS
<1>4. \A p \in 1..Len(x) + 1 : p <= i => ~ On(x)[p].valid /\ EndsInReplacement(On(x)[p].text)
  BY <1>1, <1>2, OpenOn
<1>5. ~ On(x)[1].valid /\ EndsInReplacement(On(x)[1].text)
  BY <1>3, <1>4
<1> QED
  BY <1>5, LossyIs

\* A text that ends in a replacement is not valid.
LEMMA EndsInvalid ==
  ASSUME NEW x \in Seq(Symbols), EndsInReplacement(Lossy(x).text)
  PROVE  ~ Lossy(x).valid
BY LossyFacts, SymbolsEnd

\* What ends a closed sequence is closed.
LEMMA ClosedEnd ==
  ASSUME NEW x \in Seq(Symbols), NEW y \in Seq(Symbols), Closed(x \o y)
  PROVE  Closed(y)
<1> DEFINE z == x \o y
           n == Len(x)
           k == Len(y)
<1>1. n \in Nat /\ k \in Nat /\ Len(z) = n + k /\ \A i \in 1..k : z[n + i] = y[i]
  BY JoinFacts
<1>2. \A i \in 1..Len(z) : z[i] \in Leads /\ (\A j \in i + 1..Len(z) : z[j] = "C") => Need(z[i]) <= Len(z) - i
  BY DEF Closed
<1> HIDE DEF z, n, k
<1>3. ASSUME NEW i \in 1..k, y[i] \in Leads, \A j \in i + 1..k : y[j] = "C" PROVE Need(y[i]) <= k - i
  <2> DEFINE p == n + i
  <2>1. p \in 1..Len(z) /\ z[p] = y[i] /\ Len(z) - p = k - i
    BY <1>1
  <2>2. ASSUME NEW j \in p + 1..Len(z) PROVE z[j] = "C"
    <3>1. j - n \in i + 1..k /\ j - n \in 1..k /\ n + (j - n) = j
      BY <1>1
    <3> QED
      BY <1>1, <1>3, <3>1
  <2> HIDE DEF p
  <2>3. Need(z[p]) <= Len(z) - p
    BY <1>2, <1>3, <2>1, <2>2
  <2> QED
    BY <2>1, <2>3
<1> QED
  BY <1>3 DEF Closed, k

\* Closed sequences make a closed sequence.
LEMMA ClosedJoin ==
  ASSUME NEW x \in Seq(Symbols), NEW y \in Seq(Symbols), Closed(x), Closed(y)
  PROVE  Closed(x \o y)
<1> DEFINE z == x \o y
           n == Len(x)
           k == Len(y)
<1>1. /\ n \in Nat /\ k \in Nat /\ Len(z) = n + k
      /\ \A i \in 1..n : z[i] = x[i]
      /\ \A i \in 1..k : z[n + i] = y[i]
  BY JoinFacts
<1>2. /\ \A i \in 1..n : x[i] \in Leads /\ (\A j \in i + 1..n : x[j] = "C") => Need(x[i]) <= n - i
      /\ \A i \in 1..k : y[i] \in Leads /\ (\A j \in i + 1..k : y[j] = "C") => Need(y[i]) <= k - i
  BY DEF Closed
<1> HIDE DEF z, n, k
<1>3. ASSUME NEW i \in 1..Len(z), z[i] \in Leads, \A j \in i + 1..Len(z) : z[j] = "C"
      PROVE  Need(z[i]) <= Len(z) - i
  <2>1. CASE i \in 1..n
    <3>1. z[i] = x[i]
      BY <1>1, <2>1
    <3>2. ASSUME NEW j \in i + 1..n PROVE x[j] = "C"
      <4>1. j \in i + 1..Len(z) /\ j \in 1..n
        BY <1>1, <2>1
      <4> QED
        BY <1>1, <1>3, <4>1
    <3>3. Need(x[i]) <= n - i
      BY <1>2, <1>3, <2>1, <3>1, <3>2
    <3> DEFINE m == Need(x[i])
    <3>4. m \in 0..3 /\ m <= n - i /\ i \in Int
      BY <3>3, NeedFacts
    <3> HIDE DEF m
    <3>5. m <= Len(z) - i
      BY <1>1, <3>4
    <3> QED
      BY <3>1, <3>5 DEF m
  <2>2. CASE i \notin 1..n
    <3> DEFINE p == i - n
    <3>1. p \in 1..k /\ n + p = i /\ Len(z) - i = k - p
      BY <1>1, <2>2
    <3>2. ASSUME NEW j \in p + 1..k PROVE y[j] = "C"
      <4>1. n + j \in i + 1..Len(z) /\ j \in 1..k
        BY <1>1, <3>1
      <4> QED
        BY <1>1, <1>3, <4>1
    <3> HIDE DEF p
    <3>3. z[i] = y[p]
      BY <1>1, <3>1
    <3>4. Need(y[p]) <= k - p
      BY <1>2, <1>3, <3>1, <3>2, <3>3
    <3> QED
      BY <3>1, <3>3, <3>4
  <2> QED
    BY <2>1, <2>2
<1> QED
  BY <1>3 DEF Closed, z

\* No bytes: no character is open.
LEMMA ClosedNothing == Closed(<<>>)
<1>1. \A i \in 1..Len(<<>>) : FALSE
  OBVIOUS
<1> QED
  BY <1>1 DEF Closed

-----------------------------------------------------------------------------
(* What ByteFallback makes of the tokens that are kept.                    *)

\* The tokens that skip_special_tokens keeps.
Spoken == TokenKinds \ {"special"}

\* The tokens that are kept, and their bytes.
LEMMA SpokenFacts ==
  /\ Spoken = {"a", "b", "end", "word"} \union ByteTokens
  /\ ByteTokens \subseteq Symbols /\ ByteTokens \subseteq Spoken
  /\ Symbols \subseteq Glyphs
  /\ \A t \in Spoken \ ByteTokens : t \in {"a", "b", "end", "word"}
BY DEF Spoken, TokenKinds, ByteTokens, Symbols, Leads, Width, WordBytes, Glyphs

\* A sequence over a set is one over every larger set.
LEMMA WiderSeq ==
  ASSUME NEW S, NEW T, S \subseteq T, NEW s \in Seq(S)
  PROVE  s \in Seq(T)
OBVIOUS

\* What two sequences make begins as the first.
LEMMA FrontOfJoin ==
  ASSUME NEW S, NEW x \in Seq(S), NEW y \in Seq(S), Len(x) >= 1
  PROVE  /\ x \o y \in Seq(S) /\ Len(x \o y) >= 1 /\ (x \o y)[1] = x[1]
         /\ Len(x) = 2 => Len(x \o y) >= 2 /\ (x \o y)[2] = x[2]
OBVIOUS

\* Sequences of one and of two elements.
LEMMA OneOrTwo ==
  ASSUME NEW S, NEW c \in S, NEW e \in S
  PROVE  /\ <<c>> \in Seq(S) /\ Len(<<c>>) = 1 /\ <<c>>[1] = c
         /\ <<c, e>> \in Seq(S) /\ Len(<<c, e>>) = 2 /\ <<c, e>>[1] = c /\ <<c, e>>[2] = e
OBVIOUS

\* The bytes of an ordinary token.
LEMMA WordFacts ==
  ASSUME NEW t \in {"a", "b", "end", "word"}
  PROVE  /\ Bytes(t) \in Seq(Symbols) /\ Len(Bytes(t)) >= 1 /\ Bytes(t)[1] \notin Continuations
         /\ Bytes(t)[1] = "_" => Len(Bytes(t)) = 2 /\ Bytes(t)[2] = "a"
         /\ t \notin ByteTokens
<1>1. t \notin ByteTokens
  BY SymbolFacts
<1>2. /\ "a" \in Symbols /\ "b" \in Symbols /\ "e" \in Symbols /\ "_" \in Symbols
      /\ {"a", "b", "e", "_"} \intersect Continuations = {}
  BY SymbolFacts
<1>3. Bytes(t) = WordBytes[t]
  BY DEF Bytes, WordBytes
<1>4. \A c, e \in Symbols :
        /\ <<c>> \in Seq(Symbols) /\ Len(<<c>>) = 1 /\ <<c>>[1] = c
        /\ <<c, e>> \in Seq(Symbols) /\ Len(<<c, e>>) = 2 /\ <<c, e>>[1] = c /\ <<c, e>>[2] = e
  BY OneOrTwo
<1> DEFINE w == Bytes(t)
           good(u) == /\ u \in Seq(Symbols) /\ Len(u) \in {1, 2}
                      /\ u[1] \in {"a", "b", "e", "_"}
                      /\ u[1] = "_" => Len(u) = 2 /\ u[2] = "a"
<1>5. good(<<"a">>) /\ good(<<"b">>) /\ good(<<"e">>) /\ good(<<"_", "a">>)
  <2>1. "a" # "_" /\ "b" # "_" /\ "e" # "_"
    OBVIOUS
  <2> QED
    BY <1>2, <1>4, <2>1
<1>6. w \in {<<"a">>, <<"b">>, <<"e">>, <<"_", "a">>}
  BY <1>3 DEF WordBytes
<1> HIDE DEF w
<1>7. good(w)
  <2> HIDE DEF good
  <2> QED
    BY <1>5, <1>6
<1>8. Len(w) >= 1
  <2> DEFINE n == Len(w)
  <2>1. n \in {1, 2}
    BY <1>7
  <2> HIDE DEF n
  <2>2. n >= 1
    BY <2>1
  <2> QED
    BY <2>2 DEF n
<1>9. w[1] \notin Continuations
  BY <1>2, <1>7
<1> QED
  BY <1>1, <1>7, <1>8, <1>9 DEF w

\* j is the end of the run that begins at i.
IsRunEnd(j, k, i) ==
    /\ j \in i..Len(k)
    /\ j = i \/ \A h \in i..j : k[h] \in ByteTokens
    /\ k[i] \notin ByteTokens \/ j = Len(k) \/ k[j + 1] \notin ByteTokens
    /\ k[i] \in ByteTokens \/ j = i

\* A run has one end.
LEMMA RunEndUnique ==
  ASSUME NEW S, NEW k \in Seq(S), NEW i \in 1..Len(k), NEW j, IsRunEnd(j, k, i), NEW h, IsRunEnd(h, k, i)
  PROVE  j = h
<1> DEFINE n == Len(k)
<1>1. n \in Nat /\ i \in 1..n /\ j \in i..n /\ h \in i..n
  BY DEF IsRunEnd
<1>2. ASSUME NEW u, IsRunEnd(u, k, i), NEW v, IsRunEnd(v, k, i), u \in i..n, v \in i..n, u < v
      PROVE  FALSE
  <2>1. u # n /\ v # i
    BY <1>1, <1>2
  <2>2. k[i] \in ByteTokens
    BY <1>2, <2>1 DEF IsRunEnd
  <2>3. k[u + 1] \notin ByteTokens
    BY <1>2, <2>1, <2>2 DEF IsRunEnd
  <2>4. \A w \in i..v : k[w] \in ByteTokens
    BY <1>2, <2>1 DEF IsRunEnd
  <2>5. u + 1 \in i..v
    BY <1>1, <1>2
  <2> QED
    BY <2>3, <2>4, <2>5
<1> HIDE DEF n
<1>3. ~ j < h /\ ~ h < j
  BY <1>1, <1>2
<1> QED
  BY <1>1, <1>3

\* Every position is in one run.
LEMMA RunEndExists ==
  ASSUME NEW S, NEW k \in Seq(S), NEW i \in 1..Len(k)
  PROVE  \E j \in i..Len(k) : IsRunEnd(j, k, i)
<1> DEFINE n == Len(k)
           ends == {j \in i..n : j = n \/ k[j + 1] \notin ByteTokens}
<1>1. n \in Nat /\ i \in 1..n /\ i \in i..n /\ n \in i..n
  OBVIOUS
<1>2. CASE k[i] \notin ByteTokens
  BY <1>1, <1>2 DEF IsRunEnd
<1>3. CASE k[i] \in ByteTokens
  <2>1. n \in ends /\ ends \in SUBSET Nat
    BY <1>1
  <2>2. PICK j \in ends : \A h \in ends : j <= h
    BY <2>1, LeastNumber
  <2>3. j \in i..n /\ (j = n \/ k[j + 1] \notin ByteTokens)
    OBVIOUS
  <2>4. ASSUME NEW h \in i..j PROVE k[h] \in ByteTokens
    <3>1. CASE h = i
      BY <1>3, <3>1
    <3>2. CASE h # i
      <4>1. h - 1 \in i..n /\ h - 1 < j /\ (h - 1) + 1 = h
        BY <1>1, <2>3, <3>2
      <4> DEFINE g == h - 1
      <4>2. g \in i..n /\ g < j /\ g + 1 = h
        BY <4>1
      <4> HIDE DEF g
      <4>3. g \notin ends
        <5>1. ASSUME g \in ends PROVE FALSE
          <6>1. j <= g
            BY <2>2, <5>1
          <6> QED
            BY <1>1, <2>3, <4>2, <6>1
        <5> QED
          BY <5>1
      <4> QED
        BY <4>2, <4>3
    <3> QED
      BY <3>1, <3>2
  <2>5. IsRunEnd(j, k, i)
    BY <1>3, <2>3, <2>4 DEF IsRunEnd
  <2> QED
    BY <2>3, <2>5
<1> QED
  BY <1>2, <1>3

\* `RunEnd` is its end.
LEMMA RunEndIs ==
  ASSUME NEW S, NEW k \in Seq(S), NEW i \in 1..Len(k)
  PROVE  IsRunEnd(RunEnd(k, i), k, i)
<1> DEFINE P(j) == /\ j = i \/ \A h \in i..j : k[h] \in ByteTokens
                   /\ k[i] \notin ByteTokens \/ j = Len(k) \/ k[j + 1] \notin ByteTokens
                   /\ k[i] \in ByteTokens \/ j = i
<1>1. PICK j \in i..Len(k) : IsRunEnd(j, k, i)
  BY RunEndExists
<1>2. P(j)
  BY <1>1 DEF IsRunEnd
<1>3. RunEnd(k, i) = CHOOSE h \in i..Len(k) : P(h)
  BY Zenon DEF RunEnd
<1> HIDE DEF P
<1>4. (CHOOSE h \in i..Len(k) : P(h)) \in i..Len(k) /\ P(CHOOSE h \in i..Len(k) : P(h))
  BY <1>2
<1>5. RunEnd(k, i) \in i..Len(k) /\ P(RunEnd(k, i))
  BY <1>3, <1>4
<1> QED
  BY <1>5 DEF P, IsRunEnd

\* The text of one run.
Burst(s) ==
    IF s[1] \notin ByteTokens THEN Bytes(s[1])
    ELSE IF Lossy(s).valid THEN Lossy(s).text ELSE FlattenSeq([h \in 1..Len(s) |-> Replacement])

\* A part of a sequence.
LEMMA SliceFacts ==
  ASSUME NEW S, NEW k \in Seq(S), NEW i \in 1..Len(k), NEW j \in i..Len(k)
  PROVE  /\ SubSeq(k, i, j) \in Seq(S) /\ Len(SubSeq(k, i, j)) = j - i + 1 /\ j - i + 1 >= 1
         /\ \A h \in 1..j - i + 1 : SubSeq(k, i, j)[h] = k[i + h - 1]
         /\ SubSeq(k, i, j)[1] = k[i]
<1> DEFINE u == SubSeq(k, i, j)
           n == Len(k)
<1>1. n \in Nat /\ i \in 1..n /\ j \in i..n /\ j - i + 1 >= 1
  OBVIOUS
<1>2. u \in Seq(S) /\ Len(u) = j - i + 1 /\ \A h \in 1..j - i + 1 : u[h] = k[i + h - 1]
  BY <1>1
<1> HIDE DEF u, n
<1>3. 1 \in 1..j - i + 1 /\ i + 1 - 1 = i
  BY <1>1
<1>4. u[1] = k[i]
  BY <1>2, <1>3
<1> QED
  BY <1>1, <1>2, <1>4 DEF u

\* The text of a run depends on its tokens alone.
LEMMA RunTextIs ==
  ASSUME NEW S, NEW k \in Seq(S), NEW i \in 1..Len(k), NEW j \in i..Len(k)
  PROVE  RunText(k, i, j) = Burst(SubSeq(k, i, j))
<1> DEFINE s == SubSeq(k, i, j)
<1>1. Len(s) = j - i + 1 /\ s[1] = k[i]
  BY SliceFacts
<1> DEFINE marks == FlattenSeq([h \in 1..j - i + 1 |-> Replacement])
<1>2. marks = FlattenSeq([h \in 1..Len(s) |-> Replacement])
  BY <1>1
<1>3. RunText(k, i, j) = IF k[i] \notin ByteTokens THEN Bytes(k[i])
                         ELSE IF Lossy(s).valid THEN Lossy(s).text ELSE marks
  BY Zenon DEF RunText
<1> HIDE DEF s, marks
<1>4. Burst(s) = IF s[1] \notin ByteTokens THEN Bytes(s[1]) ELSE IF Lossy(s).valid THEN Lossy(s).text ELSE marks
  BY <1>2, Zenon DEF Burst
<1>5. RunText(k, i, j) = Burst(s)
  BY <1>1, <1>3, <1>4
<1> QED
  BY <1>5 DEF s

\* A replacement for every byte of a nonempty run.
LEMMA MarksFacts ==
  ASSUME NEW s \in Seq(Symbols), s # <<>>
  PROVE  LET marks == FlattenSeq([h \in 1..Len(s) |-> Replacement])
         IN  marks \in Seq(Glyphs) /\ Len(marks) >= 1 /\ marks[1] = "R"
<1> DEFINE f == [c \in Symbols |-> Replacement]
           marks == FlattenSeq([h \in 1..Len(s) |-> Replacement])
           c == Head(s)
           t == Tail(s)
<1>1. f \in [Symbols -> Seq(Glyphs)] /\ \A e \in Symbols : f[e] = Replacement
  BY ReplacementFacts
<1>2. DOMAIN s = 1..Len(s) /\ \A h \in 1..Len(s) : s[h] \in Symbols
  OBVIOUS
<1>3. c \in Symbols /\ t \in Seq(Symbols) /\ <<c>> \in Seq(Symbols) /\ s = <<c>> \o t
  OBVIOUS
<1> HIDE DEF c, t
<1>4. Flat(f, s) = marks
  <2>1. [h \in DOMAIN s |-> f[s[h]]] = [h \in 1..Len(s) |-> Replacement]
    BY <1>1, <1>2
  <2> QED
    BY <2>1 DEF Flat
<1> HIDE DEF f
<1>5. \A x, y \in Seq(Symbols) : Flat(f, x \o y) = Flat(f, x) \o Flat(f, y)
  BY <1>1, FlatConcat
<1>6. \A x \in Seq(Symbols) : Flat(f, x) \in Seq(Glyphs)
  BY <1>1, FlatType
<1>7. Flat(f, <<c>>) = Replacement
  <2>1. \A e \in Symbols : Flat(f, <<e>>) = f[e]
    BY <1>1, FlatOne
  <2> QED
    BY <1>1, <1>3, <2>1
<1>8. marks = Replacement \o Flat(f, t)
  BY <1>3, <1>4, <1>5, <1>7
<1> DEFINE r == Replacement
           u == Flat(f, t)
<1>9. r \in Seq(Glyphs) /\ u \in Seq(Glyphs) /\ Len(r) >= 1 /\ r[1] = "R"
  BY <1>3, <1>6, ReplacementFacts
<1>10. marks = r \o u
  BY <1>8
<1> HIDE DEF r, u, marks
<1>11. r \o u \in Seq(Glyphs) /\ Len(r \o u) >= 1 /\ (r \o u)[1] = r[1]
  BY <1>9
<1> QED
  BY <1>9, <1>10, <1>11 DEF marks

\* What the text of a run is.
LEMMA BurstFacts ==
  ASSUME NEW s, s # <<>>, s \in Seq(ByteTokens) \/ (s \in Seq(Spoken) /\ Len(s) = 1)
  PROVE  /\ Burst(s) \in Seq(Glyphs) /\ Len(Burst(s)) >= 1 /\ Burst(s)[1] \notin Continuations
         /\ Burst(s)[1] = "_" => Len(Burst(s)) = 2 /\ Burst(s)[2] = "a"
<1> DEFINE b == Burst(s)
<1>1. CASE s[1] \notin ByteTokens
  <2>1. s[1] \in Spoken
    BY <1>1
  <2>2. s[1] \in {"a", "b", "end", "word"}
    BY <1>1, <2>1, SpokenFacts
  <2>3. b = Bytes(s[1])
    BY <1>1 DEF Burst
  <2> HIDE DEF b
  <2>4. /\ b \in Seq(Symbols) /\ Len(b) >= 1 /\ b[1] \notin Continuations
        /\ b[1] = "_" => Len(b) = 2 /\ b[2] = "a"
    BY <2>2, <2>3, WordFacts
  <2>5. b \in Seq(Glyphs)
    BY <2>4, SpokenFacts, WiderSeq
  <2> QED
    BY <2>4, <2>5 DEF b
<1>2. CASE s[1] \in ByteTokens
  <2>1. s \in Seq(ByteTokens)
    <3>1. CASE s \in Seq(Spoken) /\ Len(s) = 1
      <4>1. s \in [1..1 -> Spoken]
        BY <3>1
      <4>2. s = <<s[1]>>
        BY <3>1
      <4> DEFINE c == s[1]
      <4>3. <<c>> \in Seq(ByteTokens)
        BY <1>2
      <4> QED
        BY <4>2, <4>3
    <3> QED
      BY <3>1
  <2>2. s \in Seq(Symbols)
    BY <2>1, SpokenFacts, WiderSeq
  <2> DEFINE marks == FlattenSeq([h \in 1..Len(s) |-> Replacement])
             d == Lossy(s).text
             ok == Lossy(s).valid
  <2>3. marks \in Seq(Glyphs) /\ Len(marks) >= 1 /\ marks[1] = "R"
    BY <2>2, MarksFacts
  <2>4. d \in Seq(Glyphs) /\ Len(d) >= 1 /\ d[1] \in {s[1], "R"} /\ d[1] \notin Continuations
    BY <2>2, LossyFacts
  <2>5. b = IF ok THEN d ELSE marks
    BY <1>2 DEF Burst
  <2> HIDE DEF b, d, marks, ok
  <2>6. "R" \notin Continuations /\ "R" # "_" /\ \A c \in ByteTokens : c # "_"
    BY SymbolFacts
  <2>7. b \in {d, marks}
    BY <2>5
  <2>8. b \in Seq(Glyphs) /\ Len(b) >= 1 /\ b[1] \notin Continuations
    BY <2>3, <2>4, <2>6, <2>7
  <2>9. b[1] # "_"
    BY <1>2, <2>3, <2>4, <2>6, <2>7
  <2> QED
    BY <2>8, <2>9 DEF b
<1> QED
  BY <1>1, <1>2

\* The run at a position is a run of bytes or one other token.
LEMMA RunFacts ==
  ASSUME NEW k \in Seq(Spoken), NEW i \in 1..Len(k)
  PROVE  LET j == RunEnd(k, i)
             s == SubSeq(k, i, j)
         IN  /\ j \in i..Len(k) /\ j + 1 \in i + 1..Len(k) + 1 /\ s # <<>>
             /\ s \in Seq(ByteTokens) \/ (s \in Seq(Spoken) /\ Len(s) = 1)
             /\ RunText(k, i, j) = Burst(s)
<1> DEFINE j == RunEnd(k, i)
           s == SubSeq(k, i, j)
<1>1. IsRunEnd(j, k, i)
  BY RunEndIs
<1>2. j \in i..Len(k) /\ (j = i \/ \A h \in i..j : k[h] \in ByteTokens)
  BY <1>1 DEF IsRunEnd
<1> HIDE DEF j
<1>3. /\ s \in Seq(Spoken) /\ Len(s) = j - i + 1 /\ j - i + 1 >= 1
      /\ \A h \in 1..j - i + 1 : s[h] = k[i + h - 1]
  BY <1>2, SliceFacts
<1>4. RunText(k, i, j) = Burst(s)
  BY <1>2, RunTextIs
<1> HIDE DEF s
<1>5. s # <<>> /\ j + 1 \in i + 1..Len(k) + 1
  BY <1>2, <1>3
<1>6. ASSUME j = i PROVE Len(s) = 1
  <2>1. Len(s) = 1
    BY <1>2, <1>3, <1>6
  <2> QED
    BY <2>1
<1>7. ASSUME \A h \in i..j : k[h] \in ByteTokens PROVE s \in Seq(ByteTokens)
  <2>1. ASSUME NEW h \in 1..Len(s) PROVE s[h] \in ByteTokens
    <3>1. h \in 1..j - i + 1 /\ i + h - 1 \in i..j
      BY <1>2, <1>3
    <3> QED
      BY <1>3, <1>7, <3>1
  <2> QED
    BY <1>3, <2>1
<1>8. s \in Seq(ByteTokens) \/ (s \in Seq(Spoken) /\ Len(s) = 1)
  BY <1>2, <1>3, <1>6, <1>7
<1> QED
  BY <1>2, <1>4, <1>5, <1>8 DEF j, s

\* The text of the run at a position, and where the next one starts.
Run(k, i) == RunText(k, i, RunEnd(k, i))
Past(k, i) == RunEnd(k, i) + 1

\* The equation by which FallbackText reads.
FallbackEquation(from, k) ==
    from = [i \in 1..Len(k) + 1 |-> IF i = Len(k) + 1 THEN <<>> ELSE Run(k, i) \o from[Past(k, i)]]

\* What the decoder makes of the end of the tokens at each position.
Runs(k) == CHOOSE from : FallbackEquation(from, k)

\* FallbackText, its recursive function named.
LEMMA FallbackIs ==
  ASSUME NEW k
  PROVE  FallbackText(k) = IF Runs(k)[1] # <<>> /\ Runs(k)[1][1] = "_" THEN Tail(Runs(k)[1]) ELSE Runs(k)[1]
BY Zenon DEF FallbackText, Runs, FallbackEquation, Run, Past

\* What a run is and where it ends.
LEMMA RunIs ==
  ASSUME NEW k \in Seq(Spoken), NEW i \in 1..Len(k)
  PROVE  /\ Run(k, i) \in Seq(Glyphs) /\ Len(Run(k, i)) >= 1 /\ Run(k, i)[1] \notin Continuations
         /\ Run(k, i)[1] = "_" => Len(Run(k, i)) = 2 /\ Run(k, i)[2] = "a"
         /\ Past(k, i) \in i + 1..Len(k) + 1
         /\ Past(k, i) \in 1..Len(k) + 1 /\ i < Past(k, i)
<1> DEFINE j == RunEnd(k, i)
           s == SubSeq(k, i, j)
<1>1. /\ j \in i..Len(k) /\ j + 1 \in i + 1..Len(k) + 1 /\ s # <<>>
      /\ s \in Seq(ByteTokens) \/ (s \in Seq(Spoken) /\ Len(s) = 1)
      /\ Run(k, i) = Burst(s)
  BY RunFacts DEF Run
<1>2. Past(k, i) = j + 1
  BY DEF Past
<1> HIDE DEF j, s
<1>3. /\ Burst(s) \in Seq(Glyphs) /\ Len(Burst(s)) >= 1 /\ Burst(s)[1] \notin Continuations
      /\ Burst(s)[1] = "_" => Len(Burst(s)) = 2 /\ Burst(s)[2] = "a"
  BY <1>1, BurstFacts
<1>4. j + 1 \in 1..Len(k) + 1 /\ i < j + 1
  BY <1>1
<1> QED
  BY <1>1, <1>2, <1>3, <1>4

\* g reads the tokens from each position on.
IsReading(g, k) ==
    /\ g \in [1..Len(k) + 1 -> Seq(Glyphs)] /\ g[Len(k) + 1] = <<>>
    /\ \A i \in 1..Len(k) : g[i] = Run(k, i) \o g[Past(k, i)]

\* Every sequence of kept tokens has a reading from each position on.
LEMMA ReadingExists ==
  ASSUME NEW k \in Seq(Spoken)
  PROVE  \E g : IsReading(g, k)
<1> DEFINE n == Len(k)
           V == Seq(Glyphs)
           e == <<>>
           next == [i \in 1..n |-> Past(k, i)]
           step == [a \in (1..n) \X V |-> Run(k, a[1]) \o a[2]]
<1>1. n \in Nat /\ e \in V
  OBVIOUS
<1>2. next \in [1..n -> 1..n + 1] /\ \A i \in 1..n : i < next[i]
  <2>1. \A i \in 1..n : Past(k, i) \in 1..n + 1 /\ i < Past(k, i)
    BY RunIs
  <2> QED
    BY <2>1
<1>3. step \in [(1..n) \X V -> V]
  <2>1. ASSUME NEW a \in (1..n) \X V PROVE Run(k, a[1]) \o a[2] \in V
    <3>1. a[1] \in 1..n /\ a[2] \in Seq(Glyphs)
      OBVIOUS
    <3>2. Run(k, a[1]) \in Seq(Glyphs)
      BY <3>1, RunIs
    <3> QED
      BY <3>1, <3>2
  <2> QED
    BY <2>1
<1>4. PICK g : IsScan(g, n, V, e, next, step)
  <2> HIDE DEF n, V, e, next, step
  <2> QED
    BY <1>1, <1>2, <1>3, ScanExists
<1>5. g \in [1..n + 1 -> V] /\ g[n + 1] = e /\ \A i \in 1..n : g[i] = step[<<i, g[next[i]]>>]
  <2> HIDE DEF n, V, e, next, step
  <2> QED
    BY <1>4 DEF IsScan
<1>6. ASSUME NEW i \in 1..n PROVE g[i] = Run(k, i) \o g[Past(k, i)]
  <2> DEFINE d == g[next[i]]
  <2>1. next[i] = Past(k, i) /\ d \in V
    BY <1>2, <1>5
  <2>2. g[i] = step[<<i, d>>]
    BY <1>5
  <2> HIDE DEF d, next
  <2>3. step[<<i, d>>] = Run(k, i) \o d
    BY <2>1
  <2> HIDE DEF step
  <2> QED
    BY <2>1, <2>2, <2>3 DEF d
<1> QED
  BY <1>5, <1>6 DEF IsReading

\* The recursion has a solution, so its name is one.
LEMMA RunsFacts ==
  ASSUME NEW k \in Seq(Spoken)
  PROVE  /\ Len(k) \in Nat /\ Runs(k)[Len(k) + 1] = <<>>
         /\ \A i \in 1..Len(k) + 1 : Runs(k)[i] \in Seq(Glyphs)
         /\ \A i \in 1..Len(k) : Runs(k)[i] = Run(k, i) \o Runs(k)[Past(k, i)]
<1> DEFINE n == Len(k)
           h == Runs(k)
<1>1. PICK g : IsReading(g, k)
  BY ReadingExists
<1>2. g \in [1..n + 1 -> Seq(Glyphs)] /\ n \in Nat
  BY <1>1 DEF IsReading
<1>3. FallbackEquation(g, k)
  <2> DEFINE body(i) == IF i = n + 1 THEN <<>> ELSE Run(k, i) \o g[Past(k, i)]
  <2>1. ASSUME NEW i \in 1..n + 1 PROVE g[i] = body(i)
    <3>1. CASE i = n + 1
      BY <1>1, <3>1 DEF IsReading
    <3>2. CASE i # n + 1
      <4>1. i \in 1..n
        BY <1>2, <3>2
      <4> QED
        BY <1>1, <3>2, <4>1 DEF IsReading
    <3> QED
      BY <3>1, <3>2
  <2>2. g = [i \in 1..n + 1 |-> g[i]]
    BY <1>2
  <2> HIDE DEF body
  <2>3. g = [i \in 1..n + 1 |-> body(i)]
    BY <2>1, <2>2
  <2> QED
    BY <2>3 DEF FallbackEquation, body
<1>4. FallbackEquation(h, k)
  BY <1>3 DEF Runs
<1> HIDE DEF h
<1>5. h = [i \in 1..n + 1 |-> IF i = n + 1 THEN <<>> ELSE Run(k, i) \o h[Past(k, i)]]
  BY <1>4 DEF FallbackEquation
<1>6. h[n + 1] = <<>> /\ \A i \in 1..n : h[i] = Run(k, i) \o h[Past(k, i)]
  <2>1. n + 1 \in 1..n + 1 /\ \A i \in 1..n : i \in 1..n + 1 /\ i # n + 1
    BY <1>2
  <2> HIDE DEF n
  <2> QED
    BY <1>5, <2>1
<1> DEFINE G == {i \in 1..n + 1 : h[i] \in Seq(Glyphs)}
<1>7. ASSUME NEW i \in 1..n + 1, \A j \in 1..n + 1 : i < j => j \in G PROVE i \in G
  <2>1. CASE i = n + 1
    <3>1. <<>> \in Seq(Glyphs)
      OBVIOUS
    <3> QED
      BY <1>6, <2>1, <3>1
  <2>2. CASE i # n + 1
    <3> DEFINE j == Past(k, i)
               r == Run(k, i)
    <3>1. i \in 1..n
      BY <1>2, <2>2
    <3>2. j \in 1..n + 1 /\ i < j /\ r \in Seq(Glyphs)
      BY <3>1, RunIs
    <3>3. h[j] \in Seq(Glyphs) /\ h[i] = r \o h[j]
      BY <1>6, <1>7, <3>1, <3>2
    <3> HIDE DEF j, r
    <3>4. r \o h[j] \in Seq(Glyphs)
      BY <3>2, <3>3
    <3> QED
      BY <3>3, <3>4
  <2> QED
    BY <2>1, <2>2
<1> HIDE DEF G
<1>8. \A i \in 1..n + 1 : i \in G
  BY <1>2, <1>7, ScanInduction
<1> QED
  BY <1>2, <1>6, <1>8 DEF G, h

\* The run at a position behind x is the one of what follows x.
LEMMA SuffixRun ==
  ASSUME NEW x \in Seq(Spoken), NEW y \in Seq(Spoken), NEW i \in 1..Len(y)
  PROVE  /\ Past(x \o y, Len(x) + i) = Len(x) + Past(y, i)
         /\ Run(x \o y, Len(x) + i) = Run(y, i)
<1> DEFINE z == x \o y
           n == Len(x)
           k == Len(y)
           p == n + i
           j == RunEnd(y, i)
           q == n + j
<1>1. z \in Seq(Spoken) /\ n \in Nat /\ k \in Nat /\ Len(z) = n + k /\ \A h \in 1..k : z[n + h] = y[h]
  BY JoinFacts
<1>2. IsRunEnd(j, y, i)
  BY RunEndIs
<1>3. j \in i..k
  BY <1>2 DEF IsRunEnd
<1> HIDE DEF j, z, n, k
<1>4. i \in 1..k
  BY DEF k
<1>5. p \in 1..Len(z) /\ q \in p..Len(z) /\ i \in 1..k /\ j \in 1..k
  BY <1>1, <1>3, <1>4
<1>6. z[p] = y[i]
  BY <1>1, <1>4
<1>7. IsRunEnd(q, z, p)
  <2>1. q \in p..Len(z)
    BY <1>5
  <2>2. q = p \/ \A h \in p..q : z[h] \in ByteTokens
    <3>1. j = i => q = p
      OBVIOUS
    <3>2. ASSUME \A h \in i..j : y[h] \in ByteTokens, NEW h \in p..q PROVE z[h] \in ByteTokens
      <4>1. h - n \in i..j /\ h - n \in 1..k /\ n + (h - n) = h
        BY <1>1, <1>3, <1>5
      <4> QED
        BY <1>1, <3>2, <4>1
    <3>3. j = i \/ \A h \in i..j : y[h] \in ByteTokens
      BY <1>2 DEF IsRunEnd
    <3> QED
      BY <3>1, <3>2, <3>3
  <2>3. z[p] \notin ByteTokens \/ q = Len(z) \/ z[q + 1] \notin ByteTokens
    <3>1. y[i] \notin ByteTokens \/ j = k \/ y[j + 1] \notin ByteTokens
      BY <1>2 DEF IsRunEnd, k
    <3>2. j = k => q = Len(z)
      BY <1>1
    <3>3. j # k => j + 1 \in 1..k /\ n + (j + 1) = q + 1
      BY <1>1, <1>3, <1>5
    <3>4. j # k => z[q + 1] = y[j + 1]
      BY <1>1, <3>3
    <3> QED
      BY <1>6, <3>1, <3>2, <3>4
  <2>4. z[p] \in ByteTokens \/ q = p
    <3>1. y[i] \in ByteTokens \/ j = i
      BY <1>2 DEF IsRunEnd
    <3> QED
      BY <1>6, <3>1
  <2> HIDE DEF p, q
  <2> QED
    BY <2>1, <2>2, <2>3, <2>4 DEF IsRunEnd
<1> HIDE DEF p, q
<1>8. RunEnd(z, p) = q
  <2>1. IsRunEnd(RunEnd(z, p), z, p)
    BY <1>1, <1>5, RunEndIs
  <2> QED
    BY <1>1, <1>5, <1>7, <2>1, RunEndUnique
<1>9. SubSeq(z, p, q) = SubSeq(y, i, j)
  <2> DEFINE a == SubSeq(z, p, q)
             b == SubSeq(y, i, j)
  <2>1. a \in Seq(Spoken) /\ Len(a) = q - p + 1 /\ \A h \in 1..q - p + 1 : a[h] = z[p + h - 1]
    BY <1>1, <1>5, SliceFacts
  <2>2. b \in Seq(Spoken) /\ Len(b) = j - i + 1 /\ \A h \in 1..j - i + 1 : b[h] = y[i + h - 1]
    BY <1>3, SliceFacts DEF k
  <2> HIDE DEF a, b
  <2>3. q - p + 1 = j - i + 1
    BY <1>1, <1>3, <1>5 DEF p, q
  <2>4. ASSUME NEW h \in 1..j - i + 1 PROVE a[h] = b[h]
    <3>1. i + h - 1 \in 1..k /\ n + (i + h - 1) = p + h - 1
      BY <1>1, <1>3, <1>5 DEF p
    <3>2. z[p + h - 1] = y[i + h - 1]
      BY <1>1, <3>1
    <3> QED
      BY <2>1, <2>2, <2>3, <3>2
  <2>5. a = b
    BY <2>1, <2>2, <2>3, <2>4, SeqEqual
  <2> QED
    BY <2>5 DEF a, b
<1>10. RunText(z, p, q) = RunText(y, i, j)
  <2>1. RunText(z, p, q) = Burst(SubSeq(z, p, q))
    BY <1>1, <1>5, RunTextIs
  <2>2. RunText(y, i, j) = Burst(SubSeq(y, i, j))
    BY <1>3, RunTextIs DEF k
  <2> QED
    BY <1>9, <2>1, <2>2
<1>11. q + 1 = n + (j + 1)
  BY <1>1, <1>3, <1>5 DEF q
<1>12. Past(z, p) = n + Past(y, i) /\ Run(z, p) = Run(y, i)
  BY <1>8, <1>10, <1>11 DEF Past, Run, j
<1> QED
  BY <1>12 DEF z, p, n

\* A sequence after which no run goes on.
Steady(k) == k = <<>> \/ k[Len(k)] \notin ByteTokens

\* A run in x, where no run goes on behind x, is a run of the whole.
LEMMA PrefixRun ==
  ASSUME NEW x \in Seq(Spoken), NEW y \in Seq(Spoken), Steady(x), NEW i \in 1..Len(x)
  PROVE  /\ Past(x \o y, i) = Past(x, i)
         /\ Run(x \o y, i) = Run(x, i)
<1> DEFINE z == x \o y
           n == Len(x)
           j == RunEnd(x, i)
<1>1. /\ z \in Seq(Spoken) /\ n \in Nat /\ Len(y) \in Nat /\ Len(z) = n + Len(y)
      /\ \A h \in 1..n : z[h] = x[h]
  BY JoinFacts
<1>2. IsRunEnd(j, x, i)
  BY RunEndIs
<1>3. j \in i..n /\ i \in 1..n
  BY <1>2 DEF IsRunEnd
<1>4. x[n] \notin ByteTokens
  <2>1. x # <<>>
    BY <1>3
  <2> QED
    BY <2>1 DEF Steady
<1> HIDE DEF j, z, n
<1>5. i \in 1..Len(z) /\ j \in i..Len(z) /\ j \in 1..n
  BY <1>1, <1>3
<1>6. z[i] = x[i]
  BY <1>1, <1>3
<1>7. IsRunEnd(j, z, i)
  <2>1. j = i \/ \A h \in i..j : z[h] \in ByteTokens
    <3>1. ASSUME \A h \in i..j : x[h] \in ByteTokens, NEW h \in i..j PROVE z[h] \in ByteTokens
      <4>1. h \in 1..n
        BY <1>1, <1>3
      <4> QED
        BY <1>1, <3>1, <4>1
    <3>2. j = i \/ \A h \in i..j : x[h] \in ByteTokens
      BY <1>2 DEF IsRunEnd
    <3> QED
      BY <3>1, <3>2
  <2>2. z[i] \notin ByteTokens \/ j = Len(z) \/ z[j + 1] \notin ByteTokens
    <3>1. SUFFICES ASSUME x[i] \in ByteTokens PROVE z[j + 1] \notin ByteTokens
      BY <1>6
    <3>2. x[j] \in ByteTokens
      <4>1. j = i \/ x[j] \in ByteTokens
        BY <1>2, <1>3 DEF IsRunEnd
      <4> QED
        BY <3>1, <4>1
    <3>3. j # n
      BY <1>4, <3>2
    <3>4. x[j + 1] \notin ByteTokens
      BY <1>2, <3>1, <3>3 DEF IsRunEnd, n
    <3>5. j + 1 \in 1..n
      BY <1>1, <1>3, <3>3
    <3> QED
      BY <1>1, <3>4, <3>5
  <2>3. z[i] \in ByteTokens \/ j = i
    BY <1>2, <1>6 DEF IsRunEnd
  <2> QED
    BY <1>5, <2>1, <2>2, <2>3 DEF IsRunEnd
<1>8. RunEnd(z, i) = j
  <2>1. IsRunEnd(RunEnd(z, i), z, i)
    BY <1>1, <1>5, RunEndIs
  <2> QED
    BY <1>1, <1>5, <1>7, <2>1, RunEndUnique
<1>9. SubSeq(z, i, j) = SubSeq(x, i, j)
  <2> DEFINE a == SubSeq(z, i, j)
             b == SubSeq(x, i, j)
  <2>1. a \in Seq(Spoken) /\ Len(a) = j - i + 1 /\ \A h \in 1..j - i + 1 : a[h] = z[i + h - 1]
    BY <1>1, <1>5, SliceFacts
  <2>2. b \in Seq(Spoken) /\ Len(b) = j - i + 1 /\ \A h \in 1..j - i + 1 : b[h] = x[i + h - 1]
    BY <1>3, SliceFacts DEF n
  <2> HIDE DEF a, b
  <2>3. ASSUME NEW h \in 1..j - i + 1 PROVE a[h] = b[h]
    <3>1. i + h - 1 \in 1..n
      BY <1>1, <1>3, <1>5
    <3>2. z[i + h - 1] = x[i + h - 1]
      BY <1>1, <3>1
    <3> QED
      BY <2>1, <2>2, <3>2
  <2>4. a = b
    BY <2>1, <2>2, <2>3, SeqEqual
  <2> QED
    BY <2>4 DEF a, b
<1>10. RunText(z, i, j) = RunText(x, i, j)
  <2>1. RunText(z, i, j) = Burst(SubSeq(z, i, j))
    BY <1>1, <1>5, RunTextIs
  <2>2. RunText(x, i, j) = Burst(SubSeq(x, i, j))
    BY <1>3, RunTextIs DEF n
  <2> QED
    BY <1>9, <2>1, <2>2
<1>11. Past(z, i) = Past(x, i) /\ Run(z, i) = Run(x, i)
  BY <1>8, <1>10 DEF Past, Run, j
<1> QED
  BY <1>11 DEF z

\* The tokens behind x are read as if they were alone.
LEMMA SuffixRuns ==
  ASSUME NEW x \in Seq(Spoken), NEW y \in Seq(Spoken)
  PROVE  \A i \in 1..Len(y) + 1 : Runs(x \o y)[Len(x) + i] = Runs(y)[i]
<1> DEFINE z == x \o y
           n == Len(x)
           k == Len(y)
           G == {i \in 1..k + 1 : Runs(z)[n + i] = Runs(y)[i]}
<1>1. z \in Seq(Spoken) /\ n \in Nat /\ k \in Nat /\ Len(z) = n + k
  BY JoinFacts
<1>2. ASSUME NEW i \in 1..k + 1, \A j \in 1..k + 1 : i < j => j \in G PROVE i \in G
  <2>1. CASE i = k + 1
    <3>1. n + i = Len(z) + 1
      BY <1>1, <2>1
    <3>2. Runs(z)[Len(z) + 1] = <<>>
      BY <1>1, RunsFacts
    <3>3. Runs(y)[i] = <<>>
      BY <2>1, RunsFacts
    <3> QED
      BY <3>1, <3>2, <3>3
  <2>2. CASE i # k + 1
    <3> DEFINE j == Past(y, i)
    <3>1. i \in 1..k
      BY <1>1, <2>2
    <3>2. j \in 1..k + 1 /\ i < j
      BY <3>1, RunIs
    <3>3. Runs(z)[n + j] = Runs(y)[j]
      BY <1>2, <3>2
    <3>4. n + i \in 1..Len(z)
      <4> HIDE DEF z, n, k
      <4> QED
        BY <1>1, <3>1
    <3>5. Runs(z)[n + i] = Run(z, n + i) \o Runs(z)[Past(z, n + i)]
      <4> DEFINE p == n + i
      <4> HIDE DEF p, z
      <4> QED
        BY <1>1, <3>4, RunsFacts DEF p
    <3>6. Runs(y)[i] = Run(y, i) \o Runs(y)[j]
      BY <3>1, RunsFacts
    <3>7. Past(z, n + i) = n + j /\ Run(z, n + i) = Run(y, i)
      BY <3>1, SuffixRun
    <3> HIDE DEF j, z, n
    <3>8. Runs(z)[n + i] = Runs(y)[i]
      BY <3>3, <3>5, <3>6, <3>7
    <3> QED
      BY <3>8
  <2> QED
    BY <2>1, <2>2
<1> HIDE DEF G
<1>3. \A i \in 1..k + 1 : i \in G
  BY <1>1, <1>2, ScanInduction
<1> QED
  BY <1>3 DEF G

\* What precedes y is read as if it were alone, and y as well.
LEMMA PrefixRuns ==
  ASSUME NEW x \in Seq(Spoken), NEW y \in Seq(Spoken), Steady(x)
  PROVE  \A i \in 1..Len(x) + 1 : Runs(x \o y)[i] = Runs(x)[i] \o Runs(y)[1]
<1> DEFINE z == x \o y
           n == Len(x)
           u == Runs(y)[1]
           G == {i \in 1..n + 1 : Runs(z)[i] = Runs(x)[i] \o u}
<1>1. z \in Seq(Spoken) /\ n \in Nat /\ Len(y) \in Nat /\ Len(z) = n + Len(y)
  BY JoinFacts
<1>2. u \in Seq(Glyphs) /\ 1 \in 1..Len(y) + 1
  <2>1. 1 \in 1..Len(y) + 1
    BY <1>1
  <2> QED
    BY <2>1, RunsFacts
<1>3. ASSUME NEW i \in 1..n + 1, \A j \in 1..n + 1 : i < j => j \in G PROVE i \in G
  <2>1. CASE i = n + 1
    <3>1. Runs(z)[n + 1] = u
      BY <1>2, SuffixRuns
    <3>2. Runs(x)[i] = <<>>
      BY <2>1, RunsFacts
    <3>3. <<>> \o u = u
      BY <1>2
    <3>4. Runs(z)[i] = Runs(x)[i] \o u
      <4> HIDE DEF z, u
      <4> QED
        BY <2>1, <3>1, <3>2, <3>3
    <3> QED
      BY <3>4
  <2>2. CASE i # n + 1
    <3> DEFINE j == Past(x, i)
    <3>1. i \in 1..n /\ i \in 1..Len(z)
      BY <1>1, <2>2
    <3>2. j \in 1..n + 1 /\ i < j /\ Run(x, i) \in Seq(Glyphs)
      BY <3>1, RunIs
    <3>3. Runs(z)[j] = Runs(x)[j] \o u
      BY <1>3, <3>2
    <3>4. Runs(z)[i] = Run(z, i) \o Runs(z)[Past(z, i)]
      BY <1>1, <3>1, RunsFacts
    <3>5. Runs(x)[i] = Run(x, i) \o Runs(x)[j]
      BY <3>1, RunsFacts
    <3>6. Past(z, i) = j /\ Run(z, i) = Run(x, i)
      BY <3>1, PrefixRun
    <3>7. Runs(x)[j] \in Seq(Glyphs)
      BY <3>2, RunsFacts
    <3> HIDE DEF z, u, j
    <3>8. Run(x, i) \o (Runs(x)[j] \o u) = (Run(x, i) \o Runs(x)[j]) \o u
      <4>1. \A a, b, c \in Seq(Glyphs) : a \o (b \o c) = (a \o b) \o c
        BY ConcatAssociative, SMTT(30)
      <4> QED
        BY <1>2, <3>2, <3>7, <4>1
    <3>9. Runs(z)[i] = Runs(x)[i] \o u
      BY <3>3, <3>4, <3>5, <3>6, <3>8
    <3> QED
      BY <3>9
  <2> QED
    BY <2>1, <2>2
<1> HIDE DEF G
<1>4. \A i \in 1..n + 1 : i \in G
  BY <1>1, <1>3, ScanInduction
<1> QED
  BY <1>4 DEF G

\* The text of the runs: a sequence of characters, empty only without tokens.
\* A leading space is followed by the letter of its word.
LEMMA RunsStart ==
  ASSUME NEW k \in Seq(Spoken)
  PROVE  /\ Runs(k)[1] \in Seq(Glyphs)
         /\ k = <<>> => Runs(k)[1] = <<>>
         /\ k # <<>> => Len(Runs(k)[1]) >= 1 /\ Runs(k)[1][1] \notin Continuations
         /\ k # <<>> /\ Runs(k)[1][1] = "_" => Len(Runs(k)[1]) >= 2 /\ Runs(k)[1][2] = "a"
<1> DEFINE n == Len(k)
           r == Run(k, 1)
           j == Past(k, 1)
           t == Runs(k)[j]
<1>1. n \in Nat /\ 1 \in 1..n + 1
  OBVIOUS
<1>2. Runs(k)[1] \in Seq(Glyphs)
  BY <1>1, RunsFacts
<1>3. k = <<>> => Runs(k)[1] = <<>>
  <2>1. k = <<>> => n + 1 = 1
    OBVIOUS
  <2> QED
    BY <2>1, RunsFacts
<1>4. ASSUME k # <<>>
      PROVE  /\ Len(Runs(k)[1]) >= 1 /\ Runs(k)[1][1] \notin Continuations
             /\ Runs(k)[1][1] = "_" => Len(Runs(k)[1]) >= 2 /\ Runs(k)[1][2] = "a"
  <2>1. 1 \in 1..n
    BY <1>4
  <2>2. /\ r \in Seq(Glyphs) /\ Len(r) >= 1 /\ r[1] \notin Continuations
        /\ r[1] = "_" => Len(r) = 2 /\ r[2] = "a"
    BY <2>1, RunIs
  <2>3. j \in 1..n + 1
    BY <2>1, RunIs
  <2>4. t \in Seq(Glyphs)
    BY <2>3, RunsFacts
  <2>5. Runs(k)[1] = r \o t
    BY <2>1, RunsFacts
  <2> HIDE DEF r, t
  <2>6. Len(r \o t) >= 1 /\ (r \o t)[1] = r[1] /\ (Len(r) = 2 => Len(r \o t) >= 2 /\ (r \o t)[2] = r[2])
    <3>1. r \in Seq(Glyphs) /\ Len(r) >= 1
      BY <2>2
    <3> QED
      BY <2>4, <3>1, FrontOfJoin
  <2> QED
    BY <2>2, <2>5, <2>6
<1> QED
  BY <1>2, <1>3, <1>4

-----------------------------------------------------------------------------
(* What the decoders make of tokens.                                       *)

\* The bytes of tokens, in order.
BytesOf(ids) == FlattenSeq([i \in DOMAIN ids |-> Bytes(ids[i])])

\* Both are joinings, of the bytes of each token and of the tokens that are kept.
LEMMA CoresJoin ==
  ASSUME NEW ids \in Seq(TokenKinds)
  PROVE  /\ BytesOf(ids) = Flat([t \in TokenKinds |-> Bytes(t)], ids)
         /\ Kept(ids) = Flat([t \in TokenKinds |-> IF t = "special" THEN <<>> ELSE <<t>>], ids)
<1> DEFINE f == [t \in TokenKinds |-> Bytes(t)]
           g == [t \in TokenKinds |-> IF t = "special" THEN <<>> ELSE <<t>>]
<1>1. \A i \in DOMAIN ids : ids[i] \in TokenKinds
  OBVIOUS
<1>2. [i \in DOMAIN ids |-> Bytes(ids[i])] = [i \in DOMAIN ids |-> f[ids[i]]]
  BY <1>1
<1>3. [i \in DOMAIN ids |-> IF ids[i] = "special" THEN <<>> ELSE <<ids[i]>>] = [i \in DOMAIN ids |-> g[ids[i]]]
  BY <1>1
<1> HIDE DEF f, g
<1>4. BytesOf(ids) = Flat(f, ids)
  BY <1>2, Zenon DEF BytesOf, Flat
<1>5. Kept(ids) = Flat(g, ids)
  BY <1>3, Zenon DEF Kept, Flat
<1> QED
  BY <1>4, <1>5 DEF f, g

\* What each token contributes, as functions over the tokens.
LEMMA CoreMaps ==
  /\ [t \in TokenKinds |-> Bytes(t)] \in [TokenKinds -> Seq(Symbols)]
  /\ [t \in TokenKinds |-> IF t = "special" THEN <<>> ELSE <<t>>] \in [TokenKinds -> Seq(Spoken)]
<1>1. ASSUME NEW t \in TokenKinds PROVE Bytes(t) \in Seq(Symbols)
  <2>1. CASE t = "special"
    <3>1. t \notin DOMAIN WordBytes
      BY <2>1 DEF WordBytes
    <3>2. Bytes(t) = <<>>
      BY <2>1, <3>1 DEF Bytes
    <3>3. <<>> \in Seq(Symbols)
      OBVIOUS
    <3> QED
      BY <3>2, <3>3
  <2>2. CASE t \in {"a", "b", "end", "word"}
    BY <2>2, WordFacts
  <2>3. CASE t \in ByteTokens
    <3>1. t \notin DOMAIN WordBytes /\ t # "special"
      BY <2>3, SymbolFacts DEF WordBytes
    <3>2. Bytes(t) = <<t>>
      BY <3>1 DEF Bytes
    <3>3. t \in Symbols
      BY <2>3, SpokenFacts
    <3>4. <<t>> \in Seq(Symbols)
      BY <3>3, OneOrTwo
    <3> QED
      BY <3>2, <3>4
  <2> QED
    BY <2>1, <2>2, <2>3, SpokenFacts DEF Spoken
<1>2. ASSUME NEW t \in TokenKinds PROVE (IF t = "special" THEN <<>> ELSE <<t>>) \in Seq(Spoken)
  <2>1. CASE t = "special"
    <3>1. <<>> \in Seq(Spoken)
      OBVIOUS
    <3> QED
      BY <2>1, <3>1
  <2>2. CASE t # "special"
    <3>1. t \in Spoken
      BY <2>2 DEF Spoken
    <3>2. <<t>> \in Seq(Spoken)
      BY <3>1, OneOrTwo
    <3> QED
      BY <2>2, <3>2
  <2> QED
    BY <2>1, <2>2
<1> QED
  BY <1>1, <1>2

\* The bytes and the kept tokens of what two sequences make are theirs joined.
LEMMA CoreFacts ==
  ASSUME NEW s \in Seq(TokenKinds), NEW t \in Seq(TokenKinds)
  PROVE  /\ BytesOf(s) \in Seq(Symbols) /\ Kept(s) \in Seq(Spoken)
         /\ BytesOf(s \o t) = BytesOf(s) \o BytesOf(t) /\ Kept(s \o t) = Kept(s) \o Kept(t)
         /\ s = <<>> => BytesOf(s) = <<>> /\ Kept(s) = <<>>
<1> DEFINE f == [k \in TokenKinds |-> Bytes(k)]
           g == [k \in TokenKinds |-> IF k = "special" THEN <<>> ELSE <<k>>]
<1>1. f \in [TokenKinds -> Seq(Symbols)] /\ g \in [TokenKinds -> Seq(Spoken)]
  BY CoreMaps
<1>2. s \o t \in Seq(TokenKinds)
  OBVIOUS
<1>3. \A ids \in Seq(TokenKinds) : BytesOf(ids) = Flat(f, ids) /\ Kept(ids) = Flat(g, ids)
  BY CoresJoin
<1> HIDE DEF f, g
<1>4. \A ids \in Seq(TokenKinds) : Flat(f, ids) \in Seq(Symbols) /\ (ids = <<>> => Flat(f, ids) = <<>>)
  BY <1>1, FlatType
<1>5. \A ids \in Seq(TokenKinds) : Flat(g, ids) \in Seq(Spoken) /\ (ids = <<>> => Flat(g, ids) = <<>>)
  BY <1>1, FlatType
<1>6. Flat(f, s \o t) = Flat(f, s) \o Flat(f, t)
  <2>1. f \in [TokenKinds -> Seq(Symbols)]
    BY <1>1
  <2> QED
    BY <2>1, FlatConcat
<1>7. Flat(g, s \o t) = Flat(g, s) \o Flat(g, t)
  <2>1. g \in [TokenKinds -> Seq(Spoken)]
    BY <1>1
  <2> QED
    BY <2>1, FlatConcat
<1> QED
  BY <1>2, <1>3, <1>4, <1>5, <1>6, <1>7

\* A run that goes on behind the whole goes on behind its end, and the other way around.
LEMMA SteadyJoin ==
  ASSUME NEW x \in Seq(Spoken), NEW y \in Seq(Spoken)
  PROVE  /\ Steady(x \o y) => Steady(y)
         /\ Steady(x) /\ Steady(y) => Steady(x \o y)
<1> DEFINE z == x \o y
<1>1. CASE y = <<>>
  <2>1. z = x
    BY <1>1
  <2> QED
    BY <1>1, <2>1 DEF Steady
<1>2. CASE y # <<>>
  <2> DEFINE n == Len(x)
             k == Len(y)
  <2>1. z # <<>> /\ k \in 1..k /\ n \in Nat /\ Len(z) = n + k
    BY <1>2
  <2>2. z[n + k] = y[k]
    BY <2>1
  <2>3. z[Len(z)] = y[Len(y)]
    BY <2>1, <2>2
  <2> HIDE DEF z
  <2>4. Steady(z) <=> Steady(y)
    BY <1>2, <2>1, <2>3 DEF Steady
  <2> QED
    BY <2>4 DEF z
<1> QED
  BY <1>1, <1>2

\* The part of tokens that a decoder reads.
Core(d, ids) == IF d = "bytes" THEN BytesOf(ids) ELSE Kept(ids)

\* Its text, before a leading space is stripped from it.
Raw(d, ids) == IF d = "bytes" THEN Lossy(BytesOf(ids)).text ELSE Runs(Kept(ids))[1]

\* No later token can change the text of these.
Settled(d, ids) == IF d = "bytes" THEN Closed(BytesOf(ids)) ELSE Steady(Kept(ids))

\* The text.
Said(d, ids) == Decode(d, ids).text

\* What t adds to the text of s.
Rest(d, s, t) == IF Core(d, s) = <<>> THEN Said(d, t) ELSE Raw(d, t)

\* The text is the raw text; the fallback decoder strips its leading space.
LEMMA SaidIs ==
  ASSUME NEW d \in {"bytes", "fallback"}, NEW ids
  PROVE  /\ d = "bytes" => Said(d, ids) = Raw(d, ids)
         /\ d = "fallback" =>
               Said(d, ids) = IF Raw(d, ids) # <<>> /\ Raw(d, ids)[1] = "_" THEN Tail(Raw(d, ids)) ELSE Raw(d, ids)
<1>1. CASE d = "bytes"
  <2>1. Said(d, ids) = Lossy(BytesOf(ids)).text
    BY <1>1 DEF Said, Decode, BytesOf
  <2> QED
    BY <1>1, <2>1 DEF Raw
<1>2. CASE d = "fallback"
  <2>1. Said(d, ids) = FallbackText(Kept(ids)) /\ Raw(d, ids) = Runs(Kept(ids))[1]
    BY <1>2 DEF Said, Decode, Raw
  <2> QED
    BY <1>2, <2>1, FallbackIs
<1> QED
  BY <1>1, <1>2

\* The tail of a sequence.
LEMMA TailFacts ==
  ASSUME NEW S, NEW u \in Seq(S), NEW v \in Seq(S), Len(u) >= 1
  PROVE  /\ Tail(u) \in Seq(S) /\ Tail(u \o v) = Tail(u) \o v
         /\ Len(u) >= 2 => Len(Tail(u)) >= 1 /\ Tail(u)[1] = u[2]
<1> DEFINE w == u \o v
           a == Tail(w)
           b == Tail(u) \o v
           n == Len(u)
           k == Len(v)
<1>1. /\ Tail(u) \in Seq(S) /\ Len(Tail(u)) = n - 1 /\ n \in Nat /\ k \in Nat /\ n >= 1
      /\ \A i \in 1..n - 1 : Tail(u)[i] = u[i + 1]
  OBVIOUS
<1>2. /\ w \in Seq(S) /\ Len(w) = n + k
      /\ \A i \in 1..n : w[i] = u[i]
      /\ \A i \in 1..k : w[n + i] = v[i]
  BY JoinFacts
<1> DEFINE c == Tail(u)
<1>3. a \in Seq(S) /\ Len(a) = n + k - 1 /\ \A i \in 1..n + k - 1 : a[i] = w[i + 1]
  <2>1. w # <<>>
    BY <1>1, <1>2
  <2> HIDE DEF w
  <2> QED
    BY <1>2, <2>1
<1>4. /\ b \in Seq(S) /\ Len(b) = n - 1 + k
      /\ \A i \in 1..n - 1 : b[i] = c[i]
      /\ \A i \in 1..k : b[n - 1 + i] = v[i]
  <2>1. c \in Seq(S) /\ Len(c) = n - 1
    BY <1>1
  <2>2. /\ c \o v \in Seq(S) /\ Len(c \o v) = Len(c) + k
        /\ \A i \in 1..Len(c) : (c \o v)[i] = c[i]
        /\ \A i \in 1..k : (c \o v)[Len(c) + i] = v[i]
    <3> HIDE DEF c
    <3> QED
      BY <2>1, JoinFacts
  <2> QED
    BY <2>1, <2>2
<1> HIDE DEF a, b, c, w, n, k
<1>5. ASSUME NEW i \in 1..n + k - 1 PROVE a[i] = b[i]
  <2>1. CASE i \in 1..n - 1
    <3>1. i + 1 \in 1..n /\ a[i] = w[i + 1]
      BY <1>1, <1>3, <2>1
    <3>2. w[i + 1] = u[i + 1] /\ c[i] = u[i + 1]
      BY <1>1, <1>2, <2>1, <3>1 DEF c
    <3> QED
      BY <1>4, <2>1, <3>1, <3>2
  <2>2. CASE i \notin 1..n - 1
    <3>1. i + 1 - n \in 1..k /\ n + (i + 1 - n) = i + 1 /\ n - 1 + (i + 1 - n) = i
      BY <1>1, <2>2
    <3>2. a[i] = w[i + 1]
      BY <1>3
    <3>3. w[n + (i + 1 - n)] = v[i + 1 - n] /\ b[n - 1 + (i + 1 - n)] = v[i + 1 - n]
      BY <1>2, <1>4, <3>1
    <3> QED
      BY <3>1, <3>2, <3>3
  <2> QED
    BY <2>1, <2>2
<1>6. a = b
  <2>1. Len(a) = Len(b) /\ \A i \in 1..Len(a) : a[i] = b[i]
    BY <1>1, <1>3, <1>4, <1>5
  <2> QED
    BY <1>3, <1>4, <2>1, SeqEqual
<1>7. n >= 2 => n - 1 >= 1 /\ Tail(u)[1] = u[2]
  <2>1. n >= 2 => n - 1 >= 1 /\ 1 \in 1..n - 1 /\ 1 + 1 = 2
    BY <1>1
  <2> QED
    BY <1>1, <2>1
<1> QED
  BY <1>1, <1>6, <1>7 DEF a, b, w, n

\* What is read of tokens is of one kind for each decoder.
LEMMA CoreJoin ==
  ASSUME NEW d \in {"bytes", "fallback"}, NEW s \in Seq(TokenKinds), NEW t \in Seq(TokenKinds)
  PROVE  /\ Core(d, s \o t) = <<>> <=> Core(d, s) = <<>> /\ Core(d, t) = <<>>
         /\ s = <<>> => Core(d, s) = <<>>
<1>1. /\ BytesOf(s) \in Seq(Symbols) /\ Kept(s) \in Seq(Spoken)
      /\ BytesOf(s \o t) = BytesOf(s) \o BytesOf(t) /\ Kept(s \o t) = Kept(s) \o Kept(t)
      /\ s = <<>> => BytesOf(s) = <<>> /\ Kept(s) = <<>>
  BY CoreFacts
<1>2. BytesOf(t) \in Seq(Symbols) /\ Kept(t) \in Seq(Spoken)
  BY CoreFacts
<1> DEFINE x == Core(d, s)
           y == Core(d, t)
           S == IF d = "bytes" THEN Symbols ELSE Spoken
<1>3. x \in Seq(S) /\ y \in Seq(S) /\ Core(d, s \o t) = x \o y
  BY <1>1, <1>2 DEF Core
<1>4. s = <<>> => Core(d, s) = <<>>
  BY <1>1 DEF Core
<1> HIDE DEF x, y, S
<1>5. x \o y = <<>> <=> x = <<>> /\ y = <<>>
  BY <1>3
<1> QED
  BY <1>3, <1>4, <1>5 DEF x, y

\* A text is a sequence of characters, empty only if nothing is read.
LEMMA SaidFacts ==
  ASSUME NEW d \in {"bytes", "fallback"}, NEW s \in Seq(TokenKinds)
  PROVE  /\ Raw(d, s) \in Seq(Glyphs) /\ Said(d, s) \in Seq(Glyphs)
         /\ Core(d, s) = <<>> => Raw(d, s) = <<>> /\ Said(d, s) = <<>>
         /\ Core(d, s) # <<>> => /\ Len(Raw(d, s)) >= 1 /\ Raw(d, s)[1] \notin Continuations
                                 /\ Len(Said(d, s)) >= 1 /\ Said(d, s)[1] \notin Continuations
<1> DEFINE r == Raw(d, s)
           c == Core(d, s)
           t == Said(d, s)
<1>1. BytesOf(s) \in Seq(Symbols) /\ Kept(s) \in Seq(Spoken)
  BY CoreFacts
<1>2. CASE d = "bytes"
  <2>1. t = r
    BY <1>2, SaidIs
  <2>2. r = Lossy(BytesOf(s)).text /\ c = BytesOf(s)
    BY <1>2 DEF Raw, Core
  <2> HIDE DEF r, t, c
  <2>3. /\ r \in Seq(Glyphs) /\ (c = <<>> => r = <<>>)
        /\ c # <<>> => Len(r) >= 1 /\ r[1] \notin Continuations
    BY <1>1, <2>2, LossyFacts
  <2> QED
    BY <2>1, <2>3 DEF r, t, c
<1>3. CASE d = "fallback"
  <2>1. t = IF r # <<>> /\ r[1] = "_" THEN Tail(r) ELSE r
    BY <1>3, SaidIs
  <2>2. r = Runs(Kept(s))[1] /\ c = Kept(s)
    BY <1>3 DEF Raw, Core
  <2> HIDE DEF r, t, c
  <2>3. /\ r \in Seq(Glyphs) /\ (c = <<>> => r = <<>>)
        /\ c # <<>> => Len(r) >= 1 /\ r[1] \notin Continuations
        /\ c # <<>> /\ r[1] = "_" => Len(r) >= 2 /\ r[2] = "a"
    BY <1>1, <2>2, RunsStart
  <2>4. CASE c = <<>>
    <3>1. t = <<>> /\ r = <<>> /\ <<>> \in Seq(Glyphs)
      BY <2>1, <2>3, <2>4
    <3> QED
      BY <2>4, <3>1 DEF r, t, c
  <2>5. CASE c # <<>> /\ r[1] = "_"
    <3>1. r # <<>> /\ Len(r) >= 1 /\ Len(r) >= 2
      <4>1. r \in Seq(Glyphs) /\ Len(r) >= 1 /\ Len(r) >= 2
        BY <2>3, <2>5, Zenon
      <4>2. r # <<>>
        BY <4>1
      <4> QED
        BY <4>1, <4>2
    <3>2. t = Tail(r)
      BY <2>1, <2>5, <3>1
    <3>3. \A u, v \in Seq(Glyphs) :
            Len(u) >= 1 => Tail(u) \in Seq(Glyphs) /\ (Len(u) >= 2 => Len(Tail(u)) >= 1 /\ Tail(u)[1] = u[2])
      BY TailFacts
    <3>4. Tail(r) \in Seq(Glyphs) /\ Len(Tail(r)) >= 1 /\ Tail(r)[1] = r[2]
      BY <2>3, <3>1, <3>3
    <3>5. "a" \notin Continuations
      BY SymbolFacts
    <3>6. t \in Seq(Glyphs) /\ Len(t) >= 1 /\ t[1] \notin Continuations
      BY <2>3, <2>5, <3>2, <3>4, <3>5
    <3> QED
      BY <2>3, <2>5, <3>6 DEF r, t, c
  <2>6. CASE c # <<>> /\ r[1] # "_"
    <3>1. t = r
      BY <2>1, <2>6
    <3> QED
      BY <2>3, <2>6, <3>1 DEF r, t, c
  <2> QED
    BY <2>4, <2>5, <2>6
<1> QED
  BY <1>2, <1>3

\* Behind settled tokens the text only grows, by what the later tokens add.
LEMMA SaidSplit ==
  ASSUME NEW d \in {"bytes", "fallback"}, NEW s \in Seq(TokenKinds), NEW t \in Seq(TokenKinds), Settled(d, s)
  PROVE  Said(d, s \o t) = Said(d, s) \o Rest(d, s, t)
<1> DEFINE z == s \o t
<1>1. /\ BytesOf(s) \in Seq(Symbols) /\ Kept(s) \in Seq(Spoken)
      /\ BytesOf(z) = BytesOf(s) \o BytesOf(t) /\ Kept(z) = Kept(s) \o Kept(t)
  BY CoreFacts
<1>2. BytesOf(t) \in Seq(Symbols) /\ Kept(t) \in Seq(Spoken) /\ z \in Seq(TokenKinds)
  BY CoreFacts
<1> HIDE DEF z
<1>3. CASE d = "bytes"
  <2>1. Said(d, z) = Raw(d, z) /\ Said(d, s) = Raw(d, s) /\ Said(d, t) = Raw(d, t)
    BY <1>3, SaidIs
  <2>2. Rest(d, s, t) = Raw(d, t)
    BY <2>1 DEF Rest
  <2>3. Meets(BytesOf(s), BytesOf(t))
    BY <1>3 DEF Meets, Settled
  <2>4. Lossy(BytesOf(s) \o BytesOf(t)).text = Lossy(BytesOf(s)).text \o Lossy(BytesOf(t)).text
    BY <1>1, <1>2, <2>3, LossySplit
  <2>5. Raw(d, z) = Raw(d, s) \o Raw(d, t)
    BY <1>1, <1>3, <2>4 DEF Raw
  <2> QED
    BY <2>1, <2>2, <2>5 DEF z
<1>4. CASE d = "fallback"
  <2> DEFINE u == Raw(d, s)
             v == Raw(d, t)
             w == Raw(d, z)
             strip(a) == IF a # <<>> /\ a[1] = "_" THEN Tail(a) ELSE a
  <2>1. Said(d, z) = strip(w) /\ Said(d, s) = strip(u) /\ Said(d, t) = strip(v)
    BY <1>4, SaidIs
  <2>2. Steady(Kept(s))
    BY <1>4 DEF Settled
  <2>3. w = u \o v
    <3>1. 1 \in 1..Len(Kept(s)) + 1
      BY <1>1
    <3>2. \A i \in 1..Len(Kept(s)) + 1 : Runs(Kept(s) \o Kept(t))[i] = Runs(Kept(s))[i] \o Runs(Kept(t))[1]
      BY <1>1, <1>2, <2>2, PrefixRuns
    <3>3. Runs(Kept(s) \o Kept(t))[1] = Runs(Kept(s))[1] \o Runs(Kept(t))[1]
      BY <3>1, <3>2
    <3> QED
      BY <1>1, <1>4, <3>3 DEF Raw
  <2>4. /\ u \in Seq(Glyphs) /\ v \in Seq(Glyphs)
        /\ Core(d, s) = <<>> => u = <<>>
        /\ Core(d, s) # <<>> => Len(u) >= 1
    BY SaidFacts
  <2> HIDE DEF u, v, w
  <2>5. CASE Core(d, s) = <<>>
    <3>1. u = <<>> /\ Rest(d, s, t) = strip(v)
      BY <2>1, <2>4, <2>5 DEF Rest
    <3>2. w = v
      <4>1. <<>> \o v = v
        BY <2>4
      <4> QED
        BY <2>3, <3>1, <4>1
    <3>3. strip(u) = <<>>
      BY <3>1
    <3>4. strip(v) \in Seq(Glyphs)
      <4>1. Said(d, t) \in Seq(Glyphs)
        BY SaidFacts
      <4> QED
        BY <2>1, <4>1
    <3> HIDE DEF strip
    <3>5. <<>> \o strip(v) = strip(v)
      BY <3>4
    <3> QED
      BY <2>1, <3>1, <3>2, <3>3, <3>5 DEF z
  <2>6. CASE Core(d, s) # <<>>
    <3>1. Len(u) >= 1 /\ Rest(d, s, t) = v
      BY <2>4, <2>6 DEF Rest, v
    <3>2. Len(u \o v) >= 1 /\ (u \o v)[1] = u[1]
      BY <2>4, <3>1, FrontOfJoin
    <3>3. w # <<>> /\ u # <<>> /\ w[1] = u[1]
      <4>1. u # <<>> /\ u \o v # <<>>
        BY <2>4, <3>1
      <4> QED
        BY <2>3, <3>2, <4>1
    <3>4. Tail(u \o v) = Tail(u) \o v
      BY <2>4, <3>1, TailFacts
    <3>5. strip(w) = strip(u) \o v
      BY <2>3, <3>3, <3>4
    <3> HIDE DEF strip
    <3> QED
      BY <2>1, <3>1, <3>5 DEF z
  <2> QED
    BY <2>5, <2>6
<1> QED
  BY <1>3, <1>4

\* The end of settled tokens is settled, and settled tokens make settled ones.
LEMMA SettledJoin ==
  ASSUME NEW d \in {"bytes", "fallback"}, NEW s \in Seq(TokenKinds), NEW t \in Seq(TokenKinds)
  PROVE  /\ Settled(d, s \o t) => Settled(d, t)
         /\ Settled(d, s) /\ Settled(d, t) => Settled(d, s \o t)
<1>1. /\ BytesOf(s) \in Seq(Symbols) /\ Kept(s) \in Seq(Spoken)
      /\ BytesOf(s \o t) = BytesOf(s) \o BytesOf(t) /\ Kept(s \o t) = Kept(s) \o Kept(t)
  BY CoreFacts
<1>2. BytesOf(t) \in Seq(Symbols) /\ Kept(t) \in Seq(Spoken)
  BY CoreFacts
<1>3. CASE d = "bytes"
  <2>1. Closed(BytesOf(s) \o BytesOf(t)) => Closed(BytesOf(t))
    BY <1>1, <1>2, ClosedEnd
  <2>2. Closed(BytesOf(s)) /\ Closed(BytesOf(t)) => Closed(BytesOf(s) \o BytesOf(t))
    BY <1>1, <1>2, ClosedJoin
  <2> QED
    BY <1>1, <1>3, <2>1, <2>2 DEF Settled
<1>4. CASE d = "fallback"
  <2>1. /\ Steady(Kept(s) \o Kept(t)) => Steady(Kept(t))
        /\ Steady(Kept(s)) /\ Steady(Kept(t)) => Steady(Kept(s) \o Kept(t))
    BY <1>1, <1>2, SteadyJoin
  <2> QED
    BY <1>1, <1>4, <2>1 DEF Settled
<1> QED
  BY <1>3, <1>4

\* Bytes whose text is not partial are settled.
LEMMA WholeIsSettled ==
  ASSUME NEW s \in Seq(TokenKinds), ~ Decode("bytes", s).partial
  PROVE  Settled("bytes", s)
<1>1. Decode("bytes", s).partial = (~ Lossy(BytesOf(s)).valid /\ EndsInReplacement(Lossy(BytesOf(s)).text))
  BY DEF Decode, BytesOf
<1>2. BytesOf(s) \in Seq(Symbols)
  BY CoreFacts
<1>3. ~ Closed(BytesOf(s)) => ~ Lossy(BytesOf(s)).valid /\ EndsInReplacement(Lossy(BytesOf(s)).text)
  BY <1>2, OpenEnds
<1> QED
  BY <1>1, <1>3 DEF Settled

\* So are those whose text does not end in a replacement.
LEMMA NoReplacementIsSettled ==
  ASSUME NEW s \in Seq(TokenKinds), ~ EndsInReplacement(Said("bytes", s))
  PROVE  Settled("bytes", s)
<1>1. Said("bytes", s) = Lossy(BytesOf(s)).text
  BY DEF Said, Decode, BytesOf
<1>2. BytesOf(s) \in Seq(Symbols)
  BY CoreFacts
<1>3. ~ Closed(BytesOf(s)) => EndsInReplacement(Lossy(BytesOf(s)).text)
  BY <1>2, OpenEnds
<1> QED
  BY <1>1, <1>3 DEF Settled

\* The guard of a stream: tokens without an unstable suffix are settled.
LEMMA StableIsSettled ==
  ASSUME NEW s \in Seq(TokenKinds)
  PROVE  Settled("fallback", s) <=> ~ HasUnstableSuffix("fallback", s)
<1>1. HasUnstableSuffix("fallback", s) <=> Kept(s) # <<>> /\ Kept(s)[Len(Kept(s))] \in ByteTokens
  BY DEF HasUnstableSuffix, Last
<1> QED
  BY <1>1 DEF Settled, Steady

-----------------------------------------------------------------------------
(* The parts of a stream's tokens.                                         *)

\* Two neighbouring parts of a sequence make one.
LEMMA PartsJoin ==
  ASSUME NEW S, NEW k \in Seq(S), NEW n \in 0..Len(k), NEW r \in 0..n, NEW p \in 0..r
  PROVE  /\ SubSeq(k, p + 1, n) = SubSeq(k, p + 1, r) \o SubSeq(k, r + 1, n)
         /\ SubSeq(k, p + 1, r) \in Seq(S) /\ SubSeq(k, r + 1, n) \in Seq(S)
         /\ r = n => SubSeq(k, r + 1, n) = <<>>
<1> DEFINE a == SubSeq(k, p + 1, n)
           b == SubSeq(k, p + 1, r)
           c == SubSeq(k, r + 1, n)
<1>1. /\ a \in Seq(S) /\ Len(a) = n - p /\ \A i \in 1..n - p : a[i] = k[p + i]
      /\ b \in Seq(S) /\ Len(b) = r - p /\ \A i \in 1..r - p : b[i] = k[p + i]
      /\ c \in Seq(S) /\ Len(c) = n - r /\ \A i \in 1..n - r : c[i] = k[r + i]
  OBVIOUS
<1>2. n \in Nat /\ r \in Nat /\ p \in Nat /\ p <= r /\ r <= n
  OBVIOUS
<1>3. r = n => c = <<>>
  BY <1>1
<1> HIDE DEF a, b, c
<1>4. /\ b \o c \in Seq(S) /\ Len(b \o c) = Len(b) + Len(c)
      /\ \A i \in 1..Len(b) : (b \o c)[i] = b[i]
      /\ \A i \in 1..Len(c) : (b \o c)[Len(b) + i] = c[i]
  <2>1. b \in Seq(S) /\ c \in Seq(S)
    BY <1>1
  <2> QED
    BY <2>1, JoinFacts
<1> DEFINE d == b \o c
<1>5. /\ d \in Seq(S) /\ Len(d) = n - p
      /\ \A i \in 1..r - p : d[i] = b[i]
      /\ \A i \in 1..n - r : d[r - p + i] = c[i]
  BY <1>1, <1>2, <1>4
<1> HIDE DEF d
<1>6. ASSUME NEW i \in 1..n - p PROVE a[i] = d[i]
  <2>1. CASE i \in 1..r - p
    <3>1. a[i] = k[p + i]
      BY <1>1
    <3> QED
      BY <1>1, <1>5, <2>1, <3>1
  <2>2. CASE i \notin 1..r - p
    <3> DEFINE j == i - (r - p)
    <3>1. j \in 1..n - r /\ r - p + j = i /\ r + j = p + i
      BY <1>2, <2>2
    <3> HIDE DEF j
    <3>2. d[i] = c[j] /\ c[j] = k[r + j]
      BY <1>1, <1>5, <3>1
    <3>3. a[i] = k[p + i]
      BY <1>1
    <3> QED
      BY <3>1, <3>2, <3>3
  <2> QED
    BY <2>1, <2>2
<1>7. a = d
  <2>1. Len(a) = Len(d) /\ \A i \in 1..Len(a) : a[i] = d[i]
    BY <1>1, <1>5, <1>6
  <2> QED
    BY <1>1, <1>5, <2>1, SeqEqual
<1> QED
  BY <1>1, <1>3, <1>7 DEF a, b, c, d

\* The parts before the last element are those of the sequence before it.
LEMMA AppendParts ==
  ASSUME NEW S, NEW k \in Seq(S), NEW e \in S, NEW r \in 0..Len(k), NEW p \in 0..r
  PROVE  /\ Append(k, e) \in Seq(S) /\ Len(Append(k, e)) = Len(k) + 1
         /\ SubSeq(Append(k, e), p + 1, r) = SubSeq(k, p + 1, r)
<1> DEFINE z == Append(k, e)
           a == SubSeq(z, p + 1, r)
           b == SubSeq(k, p + 1, r)
<1>1. z \in Seq(S) /\ Len(z) = Len(k) + 1 /\ \A i \in 1..Len(k) : z[i] = k[i]
  OBVIOUS
<1>2. b \in Seq(S) /\ Len(b) = r - p /\ \A i \in 1..r - p : b[i] = k[p + i]
  OBVIOUS
<1>3. Len(k) \in Nat /\ r \in Nat /\ p \in Nat /\ p <= r /\ r <= Len(k)
  OBVIOUS
<1> HIDE DEF z
<1>4. a \in Seq(S) /\ Len(a) = r - p /\ \A i \in 1..r - p : a[i] = z[p + i]
  BY <1>1, <1>3
<1> HIDE DEF a, b
<1>5. ASSUME NEW i \in 1..r - p PROVE a[i] = b[i]
  <2>1. p + i \in 1..Len(k)
    BY <1>3
  <2> QED
    BY <1>1, <1>2, <1>4, <2>1
<1>6. a = b
  BY <1>2, <1>4, <1>5, SeqEqual
<1> QED
  BY <1>1, <1>6 DEF z, a, b

\* What later tokens add is a sequence of characters, empty only if they say nothing.
LEMMA RestFacts ==
  ASSUME NEW d \in {"bytes", "fallback"}, NEW s \in Seq(TokenKinds), NEW t \in Seq(TokenKinds)
  PROVE  /\ Rest(d, s, t) \in Seq(Glyphs)
         /\ Core(d, t) = <<>> => Rest(d, s, t) = <<>>
         /\ Core(d, t) # <<>> => Len(Rest(d, s, t)) >= 1 /\ Rest(d, s, t)[1] \notin Continuations
BY SaidFacts DEF Rest

\* The text behind a settled window: what is before it stays, and the stream
\* splits it exactly there.
LEMMA NewText ==
  ASSUME NEW d \in {"bytes", "fallback"}, NEW s \in Seq(TokenKinds), NEW t \in Seq(TokenKinds), Settled(d, s)
  PROVE  /\ IsPrefix(Said(d, s), Said(d, s \o t))
         /\ SubSeq(Said(d, s \o t), Len(Said(d, s)) + 1, Len(Said(d, s \o t))) = Rest(d, s, t)
         /\ Len(Said(d, s \o t)) > Len(Said(d, s)) <=> Core(d, t) # <<>>
         /\ Core(d, t) # <<>> => FloorCharBoundary(Said(d, s \o t), Len(Said(d, s))) = Len(Said(d, s))
<1> DEFINE u == Said(d, s)
           v == Rest(d, s, t)
           w == Said(d, s \o t)
           n == Len(u)
<1>1. w = u \o v
  BY SaidSplit
<1>2. u \in Seq(Glyphs) /\ v \in Seq(Glyphs)
  BY SaidFacts, RestFacts
<1>3. /\ Core(d, t) = <<>> => v = <<>>
      /\ Core(d, t) # <<>> => Len(v) >= 1 /\ v[1] \notin Continuations
  BY RestFacts
<1> HIDE DEF u, v, w
<1>4. /\ w \in Seq(Glyphs) /\ n \in Nat /\ Len(v) \in Nat /\ Len(w) = n + Len(v)
      /\ \A i \in 1..n : w[i] = u[i]
      /\ \A i \in 1..Len(v) : w[n + i] = v[i]
  BY <1>1, <1>2, JoinFacts
<1>5. IsPrefix(u, w)
  <2>1. n <= Len(w)
    BY <1>4
  <2> QED
    BY <1>2, <1>4, <2>1, PrefixIs
<1>6. SubSeq(w, n + 1, Len(w)) = v
  <2> DEFINE a == SubSeq(w, n + 1, Len(w))
             k == Len(w)
  <2>1. k \in Nat /\ n <= k
    BY <1>4
  <2>2. a \in Seq(Glyphs) /\ Len(a) = k - n /\ \A i \in 1..k - n : a[i] = w[n + i]
    BY <1>4, <2>1
  <2>3. k - n = Len(v)
    BY <1>4
  <2> HIDE DEF a, n, k
  <2>4. a = v
    BY <1>2, <1>4, <2>2, <2>3, SeqEqual
  <2> QED
    BY <2>4 DEF a, k
<1>7. Len(w) > n <=> Core(d, t) # <<>>
  <2>1. Len(w) > n <=> Len(v) >= 1
    BY <1>4
  <2>2. v = <<>> => ~ Len(v) >= 1
    OBVIOUS
  <2> QED
    BY <1>3, <2>1, <2>2
<1>8. ASSUME Core(d, t) # <<>> PROVE FloorCharBoundary(w, n) = n
  <2> DEFINE P(i) == /\ i = Len(w) \/ w[i + 1] \notin Continuations
                     /\ \A j \in i + 1..n : j # Len(w) /\ w[j + 1] \in Continuations
  <2>1. w[n + 1] \notin Continuations
    <3>1. 1 \in 1..Len(v)
      BY <1>3, <1>4, <1>8
    <3>2. w[n + 1] = v[1]
      BY <1>4, <3>1
    <3> QED
      BY <1>3, <1>8, <3>2
  <2>2. n \in 0..n /\ P(n)
    BY <1>4, <2>1
  <2>3. FloorCharBoundary(w, n) = CHOOSE i \in 0..n : P(i)
    BY DEF FloorCharBoundary
  <2>4. ASSUME NEW i \in 0..n, P(i) PROVE i = n
    <3>1. n \in i + 1..n => w[n + 1] \in Continuations
      BY <2>4
    <3>2. i # n => n \in i + 1..n
      BY <1>4
    <3> QED
      BY <2>1, <3>1, <3>2
  <2> HIDE DEF P
  <2> QED
    BY <2>2, <2>3, <2>4
<1> QED
  BY <1>5, <1>6, <1>7, <1>8 DEF u, v, w

\* Tokens that say nothing change no text.
LEMMA NothingSaid ==
  ASSUME NEW d \in {"bytes", "fallback"}, NEW s \in Seq(TokenKinds), NEW t \in Seq(TokenKinds), Core(d, t) = <<>>
  PROVE  Said(d, s \o t) = Said(d, s)
<1> DEFINE z == s \o t
<1>1. /\ BytesOf(s) \in Seq(Symbols) /\ Kept(s) \in Seq(Spoken)
      /\ BytesOf(z) = BytesOf(s) \o BytesOf(t) /\ Kept(z) = Kept(s) \o Kept(t)
  BY CoreFacts
<1> HIDE DEF z
<1>2. \A S : \A x \in Seq(S) : x \o <<>> = x
  OBVIOUS
<1>3. CASE d = "bytes"
  <2>1. BytesOf(t) = <<>>
    BY <1>3 DEF Core
  <2>2. BytesOf(z) = BytesOf(s)
    BY <1>1, <1>2, <2>1
  <2>3. Raw(d, z) = Raw(d, s)
    BY <1>3, <2>2 DEF Raw
  <2> QED
    BY <1>3, <2>3, SaidIs DEF z
<1>4. CASE d = "fallback"
  <2>1. Kept(t) = <<>>
    BY <1>4 DEF Core
  <2>2. Kept(z) = Kept(s)
    BY <1>1, <1>2, <2>1
  <2>3. Raw(d, z) = Raw(d, s)
    BY <1>4, <2>2 DEF Raw
  <2> QED
    BY <1>4, <2>3, SaidIs DEF z
<1> QED
  BY <1>3, <1>4

-----------------------------------------------------------------------------
(* The invariant of the stream.                                            *)

\* The tokens whose text the stream compares with, and those it has read.
Window == SubSeq(all_token_ids, prefix_offset + 1, read_offset)
Read == SubSeq(all_token_ids, 1, read_offset)

\* The window that has returned text says something and no later token can
\* change it; what has been returned is the text of what has been read.
StreamInv ==
    /\ TypeOK
    /\ status # "error"
    /\ ~ has_emitted => prefix_offset = 0
    /\ status = "streaming" /\ has_emitted => Settled(decoder, Window) /\ Core(decoder, Window) # <<>>
    /\ WholePrompt =>
          /\ emitted \in Seq(Glyphs)
          /\ status = "streaming" =>
                /\ Settled(decoder, Read)
                /\ Said(decoder, Read) = Said(decoder, context) \o emitted
          /\ status = "finished" => Said(decoder, all_token_ids) = Said(decoder, context) \o emitted

\* The two decoders.
LEMMA Families ==
  ASSUME TypeOK
  PROVE  decoder \in {"bytes", "fallback"}
BY KnownDecoders DEF TypeOK

\* A prompt that no token can change is settled.
LEMMA PromptIsSettled ==
  ASSUME NEW d \in {"bytes", "fallback"}, NEW s \in Seq(TokenKinds),
         ~ EndsInReplacement(Said(d, s)), ~ HasUnstableSuffix(d, s)
  PROVE  Settled(d, s)
<1>1. d = "bytes" => Settled("bytes", s)
  BY NoReplacementIsSettled
<1>2. d = "fallback" => Settled("fallback", s)
  BY StableIsSettled
<1> QED
  BY <1>1, <1>2

\* A stream starts with its prompt read and nothing returned.
LEMMA StreamStarts ==
  ASSUME Init
  PROVE  StreamInv
<1>1. PICK prompt \in BoundedSeq(Tokens, MaxPrompt) :
        /\ context = KeptPrompt(prompt) /\ all_token_ids = context
        /\ prefix_offset = 0 /\ read_offset = Len(context)
        /\ has_emitted = FALSE /\ emitted = <<>> /\ status = "streaming"
  BY DEF Init
<1>2. prompt \in Seq(Tokens)
  <2>1. \E n \in Nat : prompt \in [1..n -> Tokens]
    BY DEF BoundedSeq, SeqOf
  <2> QED
    BY <2>1
<1>3. context \in Seq(Tokens)
  <2> DEFINE n == Len(prompt)
             k == n - Context + 1
  <2>1. n \in Nat /\ Context \in Nat
    BY <1>2, StreamConstants
  <2>2. ASSUME n > Context PROVE SubSeq(prompt, k, n) \in Seq(Tokens)
    <3>1. k \in 1..n + 1
      BY <2>1, <2>2
    <3> HIDE DEF k
    <3> QED
      BY <1>2, <3>1
  <2> HIDE DEF n, k
  <2>3. context = IF n > Context THEN SubSeq(prompt, k, n) ELSE prompt
    BY <1>1 DEF KeptPrompt, n, k
  <2> QED
    BY <1>2, <2>2, <2>3
<1>4. decoder \in Decoders
  BY DEF Init
<1>5. TypeOK
  <2>1. Len(context) \in Nat
    BY <1>3
  <2>2. 0 \in 0..Len(context) /\ Len(context) \in 0..Len(context)
    BY <2>1
  <2> QED
    BY <1>1, <1>3, <1>4, <2>2 DEF TypeOK
<1>6. Read = context
  BY <1>1, <1>3 DEF Read
<1>7. ASSUME WholePrompt PROVE Settled(decoder, context)
  <2>1. context \in Seq(TokenKinds)
    BY <1>3, KnownDecoders, WiderSeq
  <2>2. ~ EndsInReplacement(Said(decoder, context)) /\ ~ HasUnstableSuffix(decoder, context)
    BY <1>7 DEF WholePrompt, Text, Said
  <2> QED
    BY <1>5, <2>1, <2>2, Families, PromptIsSettled
<1>8. Said(decoder, context) \o <<>> = Said(decoder, context) /\ <<>> \in Seq(Glyphs)
  <2>1. context \in Seq(TokenKinds)
    BY <1>3, KnownDecoders, WiderSeq
  <2>2. Said(decoder, context) \in Seq(Glyphs)
    BY <1>5, <2>1, Families, SaidFacts
  <2> QED
    BY <2>2
<1> QED
  BY <1>1, <1>5, <1>6, <1>7, <1>8 DEF StreamInv

\* Decoding what is pending keeps the invariant, in a step as in finish.
LEMMA PendingInv ==
  ASSUME StreamInv, status = "streaming", UNCHANGED <<decoder, context>>,
         NEW ids \in Seq(Tokens), all_token_ids' = ids, read_offset \in 0..Len(ids),
         SubSeq(ids, 1, read_offset) = Read, SubSeq(ids, prefix_offset + 1, read_offset) = Window,
         NEW finishing \in BOOLEAN, DecodePending(ids, finishing),
         finishing \/ ~ HasUnstableSuffix(decoder, SubSeq(ids, read_offset + 1, Len(ids)))
  PROVE  StreamInv'
<1> DEFINE d == decoder
           n == Len(ids)
           W == Window
           R == Read
           P == SubSeq(ids, read_offset + 1, n)
           prefix == Said(d, W)
           text == Said(d, W \o P)
           pending == read_offset # n
           complete == ~ Decode(d, W \o P).partial \/ finishing
           rewrote == has_emitted /\ complete /\ ~ IsPrefix(prefix, text)
           split == IF has_emitted THEN Len(prefix) ELSE FloorCharBoundary(text, Len(prefix))
           emits == pending /\ ~ rewrote /\ complete /\ Len(text) > Len(prefix)
<1>1. TypeOK /\ d \in {"bytes", "fallback"} /\ prefix_offset \in 0..read_offset /\ read_offset \in 0..n /\ n \in Nat
  BY Families DEF StreamInv, TypeOK
<1>2. /\ W \in Seq(Tokens) /\ R \in Seq(Tokens) /\ P \in Seq(Tokens)
      /\ ids = R \o P /\ SubSeq(ids, prefix_offset + 1, n) = W \o P
      /\ ~ pending => P = <<>>
  <2>1. n \in 0..Len(ids) /\ 0 \in 0..read_offset
    BY <1>1
  <2>2. /\ SubSeq(ids, prefix_offset + 1, n) = SubSeq(ids, prefix_offset + 1, read_offset) \o P
        /\ SubSeq(ids, prefix_offset + 1, read_offset) \in Seq(Tokens) /\ P \in Seq(Tokens)
        /\ read_offset = n => P = <<>>
    BY <1>1, <2>1, PartsJoin, ZenonT(30)
  <2>3. /\ SubSeq(ids, 0 + 1, n) = SubSeq(ids, 0 + 1, read_offset) \o P
        /\ SubSeq(ids, 0 + 1, read_offset) \in Seq(Tokens)
    BY <1>1, <2>1, PartsJoin, ZenonT(30)
  <2>4. 0 + 1 = 1 /\ SubSeq(ids, 1, n) = ids
    OBVIOUS
  <2> HIDE DEF P, n
  <2> QED
    BY <2>2, <2>3, <2>4
<1>3. W \in Seq(TokenKinds) /\ R \in Seq(TokenKinds) /\ P \in Seq(TokenKinds) /\ W \o P \in Seq(TokenKinds)
  <2>1. W \in Seq(TokenKinds) /\ R \in Seq(TokenKinds) /\ P \in Seq(TokenKinds)
    BY <1>2, KnownDecoders, WiderSeq
  <2> HIDE DEF W, R, P
  <2> QED
    BY <2>1
<1>4. has_emitted \/ W = R
  <2>1. ~ has_emitted => prefix_offset = 0
    BY DEF StreamInv
  <2>2. 0 + 1 = 1
    OBVIOUS
  <2> QED
    BY <2>1, <2>2 DEF Window, Read
<1>5. has_emitted => Settled(d, W) /\ Core(d, W) # <<>>
  BY DEF StreamInv
<1>6. ASSUME WholePrompt
      PROVE  /\ emitted \in Seq(Glyphs) /\ Settled(d, R) /\ Said(d, R) = Said(d, context) \o emitted
             /\ Said(d, context) \in Seq(Glyphs)
  <2>1. context \in Seq(TokenKinds)
    BY <1>1, KnownDecoders, WiderSeq DEF TypeOK
  <2>2. Said(d, context) \in Seq(Glyphs)
    BY <1>1, <2>1, SaidFacts
  <2> QED
    BY <1>6, <2>2 DEF StreamInv
<1>7. /\ emits => emitted' = emitted \o SubSeq(text, split + 1, Len(text)) /\ Advance(ids)
      /\ ~ emits => UNCHANGED window
      /\ status' = IF pending /\ rewrote THEN "error" ELSE IF finishing THEN "finished" ELSE status
  <2>1. Decode(d, SubSeq(ids, prefix_offset + 1, read_offset)).text = prefix
    BY DEF Said
  <2>2. Decode(d, SubSeq(ids, prefix_offset + 1, Len(ids))) = Decode(d, W \o P) /\ Decode(d, W \o P).text = text
    BY <1>2 DEF Said
  <2> HIDE DEF W, P, prefix, text
  <2> QED
    BY <2>1, <2>2 DEF DecodePending
<1> HIDE DEF n, W, R, P
<1>8. has_emitted => IsPrefix(prefix, text)
  BY <1>1, <1>3, <1>5, NewText
<1>9. ~ rewrote
  BY <1>8
<1>10. status' = IF finishing THEN "finished" ELSE status
  BY <1>7, <1>9
<1>11. emits => Core(d, P) # <<>>
  <2>1. ASSUME emits, Core(d, P) = <<>> PROVE FALSE
    <3>1. text = prefix
      BY <1>1, <1>3, <2>1, NothingSaid
    <3>2. prefix \in Seq(Glyphs)
      BY <1>1, <1>3, SaidFacts
    <3>3. ~ Len(prefix) > Len(prefix)
      <4> HIDE DEF prefix
      <4> QED
        BY <3>2
    <3> QED
      BY <2>1, <3>1, <3>3
  <2> QED
    BY <2>1
<1>12. ASSUME emits, ~ finishing PROVE Settled(d, P)
  <2>1. CASE d = "bytes"
    <3>1. ~ Decode("bytes", W \o P).partial
      BY <1>12, <2>1
    <3>2. Settled("bytes", W \o P)
      BY <1>3, <3>1, WholeIsSettled
    <3> QED
      BY <1>1, <1>3, <2>1, <3>2, SettledJoin
  <2>2. CASE d = "fallback"
    <3>1. ~ HasUnstableSuffix("fallback", P)
      BY <1>12, <2>2 DEF P, n
    <3> QED
      BY <1>3, <2>2, <3>1, StableIsSettled
  <2> QED
    BY <1>1, <2>1, <2>2
<1>13. ASSUME WholePrompt
       PROVE  /\ Settled(d, W) /\ Rest(d, R, P) = Rest(d, W, P)
              /\ Said(d, ids) = Said(d, R) \o Rest(d, W, P)
              /\ emits => SubSeq(text, split + 1, Len(text)) = Rest(d, W, P)
              /\ Len(text) > Len(prefix) <=> Core(d, P) # <<>>
              /\ Rest(d, W, P) \in Seq(Glyphs)
              /\ Core(d, P) = <<>> => Rest(d, W, P) = <<>>
  <2>1. Settled(d, W)
    BY <1>4, <1>5, <1>6, <1>13
  <2>2. Rest(d, R, P) = Rest(d, W, P)
    <3>1. CASE W = R
      BY <3>1
    <3>2. CASE has_emitted
      <4> DEFINE X == SubSeq(ids, 1, prefix_offset)
      <4>1. R = X \o W /\ X \in Seq(Tokens)
        <5>1. 0 \in 0..prefix_offset /\ read_offset \in 0..Len(ids) /\ prefix_offset \in 0..read_offset
          BY <1>1 DEF n
        <5>2. /\ SubSeq(ids, 0 + 1, read_offset) =
                   SubSeq(ids, 0 + 1, prefix_offset) \o SubSeq(ids, prefix_offset + 1, read_offset)
              /\ SubSeq(ids, 0 + 1, prefix_offset) \in Seq(Tokens)
          BY <5>1, PartsJoin
        <5>3. 0 + 1 = 1
          OBVIOUS
        <5> QED
          BY <5>2, <5>3 DEF W, R
      <4>2. X \in Seq(TokenKinds)
        BY <4>1, KnownDecoders, WiderSeq
      <4> HIDE DEF X
      <4>3. Core(d, R) # <<>> /\ Core(d, W) # <<>>
        BY <1>1, <1>3, <1>5, <3>2, <4>1, <4>2, CoreJoin
      <4> QED
        BY <4>3 DEF Rest
    <3> QED
      BY <1>4, <3>1, <3>2
  <2>3. Said(d, ids) = Said(d, R) \o Rest(d, W, P)
    <3>1. Said(d, R \o P) = Said(d, R) \o Rest(d, R, P)
      BY <1>1, <1>3, <1>6, <1>13, SaidSplit
    <3> QED
      BY <1>2, <2>2, <3>1
  <2>4. /\ SubSeq(text, Len(prefix) + 1, Len(text)) = Rest(d, W, P)
        /\ Len(text) > Len(prefix) <=> Core(d, P) # <<>>
        /\ Core(d, P) # <<>> => FloorCharBoundary(text, Len(prefix)) = Len(prefix)
    BY <1>1, <1>3, <2>1, NewText
  <2>5. emits => split = Len(prefix)
    BY <1>11, <2>4
  <2>6. emits => SubSeq(text, split + 1, Len(text)) = Rest(d, W, P)
    <3> HIDE DEF emits, split, text, prefix
    <3> QED
      BY <2>4, <2>5
  <2>7. Rest(d, W, P) \in Seq(Glyphs) /\ (Core(d, P) = <<>> => Rest(d, W, P) = <<>>)
    BY <1>1, <1>3, RestFacts
  <2> QED
    BY <2>1, <2>2, <2>3, <2>4, <2>6, <2>7
<1>14. ~ pending => Core(d, P) = <<>>
  BY <1>1, <1>2, <1>3, CoreJoin
<1> DEFINE new == Rest(d, W, P)
<1>15. ASSUME WholePrompt, emits
       PROVE  emitted' = emitted \o new /\ emitted' \in Seq(Glyphs) /\ Said(d, ids) = Said(d, context) \o emitted'
  <2>1. emitted' = emitted \o new /\ Said(d, ids) = (Said(d, context) \o emitted) \o new
    BY <1>6, <1>7, <1>13, <1>15
  <2>2. /\ emitted \in Seq(Glyphs) /\ new \in Seq(Glyphs) /\ Said(d, context) \in Seq(Glyphs)
    BY <1>6, <1>13, <1>15
  <2> HIDE DEF new
  <2>3. (Said(d, context) \o emitted) \o new = Said(d, context) \o (emitted \o new)
    <3>1. \A a, b, c \in Seq(Glyphs) : (a \o b) \o c = a \o (b \o c)
      BY ConcatAssociative, SMTT(30)
    <3> QED
      BY <2>2, <3>1
  <2>4. emitted \o new \in Seq(Glyphs)
    BY <2>2
  <2> QED
    BY <2>1, <2>3, <2>4
<1>16. ASSUME WholePrompt, ~ emits, finishing
       PROVE  Said(d, ids) = Said(d, context) \o emitted
  <2>1. Core(d, P) = <<>>
    <3>1. complete
      BY <1>16
    <3>2. ~ pending \/ ~ Len(text) > Len(prefix)
      BY <1>9, <1>16, <3>1
    <3> QED
      BY <1>13, <1>14, <1>16, <3>2
  <2>2. Said(d, ids) = Said(d, R) \o <<>>
    BY <1>13, <1>16, <2>1
  <2>3. Said(d, R) \in Seq(Glyphs)
    BY <1>1, <1>3, SaidFacts
  <2>4. Said(d, R) \o <<>> = Said(d, R)
    BY <2>3
  <2> QED
    BY <1>6, <1>16, <2>2, <2>4
<1>17. decoder' = d /\ context' = context /\ all_token_ids' = ids /\ (WholePrompt' <=> WholePrompt)
  BY DEF WholePrompt, Text
<1>18. CASE emits
  <2>1. prefix_offset' = read_offset /\ read_offset' = n /\ has_emitted' = TRUE
    BY <1>7, <1>18 DEF Advance, n
  <2>2. TypeOK'
    <3>1. status' \in {"streaming", "finished", "error"}
      BY <1>10
    <3>2. /\ prefix_offset' \in 0..read_offset' /\ read_offset' \in 0..Len(all_token_ids')
          /\ has_emitted' \in BOOLEAN
      BY <1>1, <1>17, <2>1 DEF n
    <3>3. context' \in Seq(Tokens) /\ decoder' \in Decoders /\ all_token_ids' \in Seq(Tokens)
      BY <1>1, <1>17 DEF TypeOK
    <3> QED
      BY <3>1, <3>2, <3>3 DEF TypeOK
  <2>3. Window' = P
    BY <1>17, <2>1 DEF Window, P, n
  <2>4. Read' = ids
    <3>1. SubSeq(ids, 1, n) = ids
      BY DEF n
    <3> QED
      BY <1>17, <2>1, <3>1 DEF Read
  <2>5. ASSUME WholePrompt, status' = "streaming" PROVE Settled(d, ids)
    <3>1. ~ finishing
      BY <1>10, <2>5
    <3>2. Settled(d, P) /\ Settled(d, R)
      BY <1>6, <1>12, <1>18, <2>5, <3>1
    <3>3. Settled(d, R \o P)
      BY <1>1, <1>3, <3>2, SettledJoin
    <3> QED
      BY <1>2, <3>3
  <2>6. status' = "streaming" => Settled(d, P) /\ Core(d, P) # <<>>
    BY <1>10, <1>11, <1>12, <1>18
  <2>7. status' # "error"
    BY <1>10
  <2> HIDE DEF emits
  <2> QED
    BY <1>15, <1>17, <1>18, <2>1, <2>2, <2>3, <2>4, <2>5, <2>6, <2>7 DEF StreamInv
<1>19. CASE ~ emits
  <2>1. /\ prefix_offset' = prefix_offset /\ read_offset' = read_offset
        /\ has_emitted' = has_emitted /\ emitted' = emitted
    BY <1>7, <1>19 DEF window
  <2>2. TypeOK'
    <3>1. status' \in {"streaming", "finished", "error"}
      BY <1>10
    <3>2. /\ prefix_offset' \in 0..read_offset' /\ read_offset' \in 0..Len(all_token_ids')
          /\ has_emitted' \in BOOLEAN
      BY <1>1, <1>17, <2>1 DEF n, TypeOK
    <3>3. context' \in Seq(Tokens) /\ decoder' \in Decoders /\ all_token_ids' \in Seq(Tokens)
      BY <1>1, <1>17 DEF TypeOK
    <3> QED
      BY <3>1, <3>2, <3>3 DEF TypeOK
  <2>3. Window' = W /\ Read' = R
    BY <1>17, <2>1 DEF Window, Read, W, R
  <2>4. status' # "error" /\ (status' = "streaming" => ~ finishing) /\ (status' = "finished" => finishing)
    BY <1>10
  <2>5. ~ has_emitted => prefix_offset = 0
    BY DEF StreamInv
  <2> HIDE DEF emits
  <2> QED
    BY <1>5, <1>6, <1>16, <1>17, <1>19, <2>1, <2>2, <2>3, <2>4, <2>5 DEF StreamInv
<1> QED
  BY <1>18, <1>19

\* A token whose bytes may still become other text changes nothing else.
LEMMA WaitingInv ==
  ASSUME StreamInv, status = "streaming", NEW id \in Tokens, all_token_ids' = Append(all_token_ids, id),
         UNCHANGED <<window, status, decoder, context>>
  PROVE  StreamInv'
<1>1. /\ TypeOK /\ all_token_ids \in Seq(Tokens)
      /\ prefix_offset \in 0..read_offset /\ read_offset \in 0..Len(all_token_ids)
  BY DEF StreamInv, TypeOK
<1>2. /\ prefix_offset' = prefix_offset /\ read_offset' = read_offset /\ has_emitted' = has_emitted
      /\ emitted' = emitted /\ status' = status /\ decoder' = decoder /\ context' = context
  BY DEF window
<1>3. 0 \in 0..read_offset /\ 0 + 1 = 1
  BY <1>1
<1>4. /\ Append(all_token_ids, id) \in Seq(Tokens)
      /\ Len(Append(all_token_ids, id)) = Len(all_token_ids) + 1
      /\ SubSeq(Append(all_token_ids, id), prefix_offset + 1, read_offset) =
            SubSeq(all_token_ids, prefix_offset + 1, read_offset)
  BY <1>1, AppendParts
<1>5. SubSeq(Append(all_token_ids, id), 0 + 1, read_offset) = SubSeq(all_token_ids, 0 + 1, read_offset)
  BY <1>1, <1>3, AppendParts
<1>6. Window' = Window /\ Read' = Read
  BY <1>2, <1>3, <1>4, <1>5 DEF Window, Read
<1>7. TypeOK'
  <2>1. read_offset \in 0..Len(all_token_ids) + 1
    BY <1>1
  <2> QED
    BY <1>1, <1>2, <1>4, <2>1 DEF TypeOK
<1>8. WholePrompt' <=> WholePrompt
  BY <1>2 DEF WholePrompt, Text
<1> QED
  BY <1>2, <1>6, <1>7, <1>8 DEF StreamInv

\* A step keeps the invariant, whether it waits for a run to end or decodes.
LEMMA StepInv ==
  ASSUME StreamInv, NEW id \in Tokens, StepToken(id)
  PROVE  StreamInv'
<1> DEFINE ids == Append(all_token_ids, id)
<1>1. status = "streaming" /\ all_token_ids' = ids /\ UNCHANGED <<decoder, context>>
  BY DEF StepToken
<1>2. CASE HasUnstableSuffix(decoder, SubSeq(ids, read_offset + 1, Len(ids)))
  <2>1. UNCHANGED <<window, status>>
    BY <1>2, Zenon DEF StepToken
  <2> QED
    BY <1>1, <2>1, WaitingInv
<1>3. CASE ~ HasUnstableSuffix(decoder, SubSeq(ids, read_offset + 1, Len(ids)))
  <2>1. DecodePending(ids, FALSE)
    BY <1>3, Zenon DEF StepToken
  <2>2. /\ all_token_ids \in Seq(Tokens)
        /\ prefix_offset \in 0..read_offset /\ read_offset \in 0..Len(all_token_ids)
    BY DEF StreamInv, TypeOK
  <2>3. 0 \in 0..read_offset /\ 0 + 1 = 1
    BY <2>2
  <2>4. /\ ids \in Seq(Tokens) /\ Len(ids) = Len(all_token_ids) + 1
        /\ SubSeq(ids, prefix_offset + 1, read_offset) = SubSeq(all_token_ids, prefix_offset + 1, read_offset)
    BY <2>2, AppendParts
  <2>5. SubSeq(ids, 0 + 1, read_offset) = SubSeq(all_token_ids, 0 + 1, read_offset)
    BY <2>2, <2>3, AppendParts
  <2>6. read_offset \in 0..Len(ids)
    BY <2>2, <2>4
  <2> HIDE DEF ids
  <2>7. SubSeq(ids, 1, read_offset) = Read /\ SubSeq(ids, prefix_offset + 1, read_offset) = Window
    BY <2>3, <2>4, <2>5 DEF Read, Window
  <2> QED
    BY <1>1, <1>3, <2>1, <2>4, <2>6, <2>7, PendingInv
<1> QED
  BY <1>2, <1>3

\* finish keeps the invariant.
LEMMA FinishInv ==
  ASSUME StreamInv, Finish
  PROVE  StreamInv'
<1>1. /\ status = "streaming" /\ DecodePending(all_token_ids, TRUE)
      /\ UNCHANGED <<decoder, context, all_token_ids>>
  BY DEF Finish
<1>2. all_token_ids \in Seq(Tokens) /\ read_offset \in 0..Len(all_token_ids)
  BY DEF StreamInv, TypeOK
<1>3. /\ SubSeq(all_token_ids, 1, read_offset) = Read
      /\ SubSeq(all_token_ids, prefix_offset + 1, read_offset) = Window
  BY DEF Read, Window
<1> QED
  BY <1>1, <1>2, <1>3, PendingInv

\* The invariant holds in every state.
THEOREM StreamInvariant == Spec => []StreamInv
<1>1. Init => StreamInv
  BY StreamStarts
<1>2. StreamInv /\ [Next]_vars => StreamInv'
  <2> SUFFICES ASSUME StreamInv, [Next]_vars PROVE StreamInv'
    OBVIOUS
  <2>1. CASE Finish
    BY <2>1, FinishInv
  <2>2. CASE \E id \in Tokens : StepToken(id)
    BY <2>2, StepInv
  <2>3. CASE UNCHANGED vars
    BY <2>3 DEF vars, window, StreamInv, TypeOK, Window, Read, WholePrompt, Text
  <2> QED
    BY <2>1, <2>2, <2>3 DEF Next
<1> QED
  BY <1>1, <1>2, PTL DEF Spec

\* What a sequence begins with and what it ends in.
LEMMA JoinParts ==
  ASSUME NEW S, NEW u \in Seq(S), NEW v \in Seq(S)
  PROVE  IsPrefix(u, u \o v) /\ SubSeq(u \o v, Len(u) + 1, Len(u \o v)) = v
<1> DEFINE w == u \o v
           n == Len(u)
           k == Len(w)
           a == SubSeq(w, n + 1, k)
<1>1. /\ w \in Seq(S) /\ n \in Nat /\ Len(v) \in Nat /\ Len(w) = n + Len(v)
      /\ \A i \in 1..n : w[i] = u[i]
      /\ \A i \in 1..Len(v) : w[n + i] = v[i]
  BY JoinFacts
<1>2. IsPrefix(u, w)
  <2>1. n <= Len(w)
    BY <1>1
  <2> HIDE DEF w
  <2> QED
    BY <1>1, <2>1, PrefixIs
<1>3. k \in Nat /\ n <= k /\ k - n = Len(v)
  BY <1>1
<1>4. a \in Seq(S) /\ Len(a) = k - n /\ \A i \in 1..k - n : a[i] = w[n + i]
  <2> HIDE DEF w
  <2> QED
    BY <1>1, <1>3
<1> HIDE DEF a, n, k, w
<1>5. a = v
  BY <1>1, <1>3, <1>4, SeqEqual
<1> QED
  BY <1>2, <1>5 DEF a, k, n, w

\* What a state of the invariant says of the text of all tokens.
LEMMA GeneratedText ==
  ASSUME StreamInv, WholePrompt
  PROVE  /\ emitted \in Seq(Glyphs)
         /\ \E more \in Seq(Glyphs) : Generated = emitted \o more /\ (status = "finished" => more = <<>>)
<1> DEFINE c == Said(decoder, context)
           t == Said(decoder, all_token_ids)
<1>1. /\ decoder \in {"bytes", "fallback"} /\ TypeOK /\ emitted \in Seq(Glyphs)
      /\ status \in {"streaming", "finished"}
  BY Families DEF StreamInv, TypeOK
<1>2. all_token_ids \in Seq(TokenKinds) /\ context \in Seq(TokenKinds)
  BY <1>1, KnownDecoders, WiderSeq DEF TypeOK
<1>3. c \in Seq(Glyphs)
  BY <1>1, <1>2, SaidFacts
<1>4. PICK more \in Seq(Glyphs) : t = c \o (emitted \o more) /\ (status = "finished" => more = <<>>)
  <2>1. CASE status = "finished"
    <3>1. t = c \o emitted
      BY <2>1 DEF StreamInv
    <3>2. emitted \o <<>> = emitted /\ <<>> \in Seq(Glyphs)
      BY <1>1
    <3> QED
      BY <3>1, <3>2
  <2>2. CASE status = "streaming"
    <3> DEFINE n == Len(all_token_ids)
               P == SubSeq(all_token_ids, read_offset + 1, n)
               more == Rest(decoder, Read, P)
    <3>1. n \in 0..n /\ read_offset \in 0..n /\ 0 \in 0..read_offset /\ all_token_ids \in Seq(Tokens)
      BY <1>1 DEF TypeOK
    <3>2. /\ SubSeq(all_token_ids, 0 + 1, n) = SubSeq(all_token_ids, 0 + 1, read_offset) \o P
          /\ SubSeq(all_token_ids, 0 + 1, read_offset) \in Seq(Tokens) /\ P \in Seq(Tokens)
      BY <3>1, PartsJoin
    <3>3. SubSeq(all_token_ids, 1, n) = all_token_ids /\ 0 + 1 = 1
      BY <3>1
    <3>4. all_token_ids = Read \o P /\ Read \in Seq(Tokens)
      BY <3>2, <3>3 DEF Read
    <3>5. Read \in Seq(TokenKinds) /\ P \in Seq(TokenKinds)
      BY <3>2, <3>4, KnownDecoders, WiderSeq
    <3>6. Settled(decoder, Read) /\ Said(decoder, Read) = c \o emitted
      BY <2>2 DEF StreamInv
    <3> HIDE DEF P
    <3>7. t = (c \o emitted) \o more
      BY <1>1, <3>4, <3>5, <3>6, SaidSplit
    <3>8. more \in Seq(Glyphs)
      BY <1>1, <3>5, RestFacts
    <3> HIDE DEF more, c
    <3>9. (c \o emitted) \o more = c \o (emitted \o more)
      <4>1. \A x, y, z \in Seq(Glyphs) : (x \o y) \o z = x \o (y \o z)
        BY ConcatAssociative, SMTT(30)
      <4> QED
        BY <1>1, <1>3, <3>8, <4>1
    <3> QED
      BY <2>2, <3>7, <3>8, <3>9
  <2> QED
    BY <1>1, <2>1, <2>2
<1>5. Generated = SubSeq(t, Len(c) + 1, Len(t))
  BY DEF Generated, Text, Said
<1> HIDE DEF c, t
<1>6. Generated = emitted \o more
  <2> DEFINE v == emitted \o more
  <2>1. v \in Seq(Glyphs) /\ t = c \o v
    BY <1>1, <1>4
  <2> HIDE DEF v
  <2>2. SubSeq(c \o v, Len(c) + 1, Len(c \o v)) = v
    BY <1>3, <2>1, JoinParts
  <2> QED
    BY <1>5, <2>1, <2>2 DEF v
<1> QED
  BY <1>1, <1>4, <1>6

\* What a stream has returned is at every moment the beginning of the text of
\* its tokens: no later token, and no way in which bytes, characters and tokens
\* fall together, makes it take a chunk back, return it twice or skip a part.
THEOREM ReturnedStays == Spec => []ChunksAreAppendOnly
<1>1. StreamInv => ChunksAreAppendOnly
  <2> SUFFICES ASSUME StreamInv, WholePrompt PROVE IsPrefix(emitted, Generated)
    BY DEF ChunksAreAppendOnly
  <2> QED
    BY GeneratedText, JoinParts
<1> QED
  BY <1>1, StreamInvariant, PTL

\* When it finishes it has returned all of it, incomplete characters included.
THEOREM FinishReturnsAll == Spec => []FinishedIsComplete
<1>1. StreamInv => FinishedIsComplete
  <2> SUFFICES ASSUME StreamInv, WholePrompt, status = "finished" PROVE emitted = Generated
    BY DEF FinishedIsComplete
  <2>1. emitted \in Seq(Glyphs) /\ Generated = emitted \o <<>>
    BY GeneratedText
  <2>2. emitted \o <<>> = emitted
    BY <2>1
  <2> QED
    BY <2>1, <2>2
<1> QED
  BY <1>1, StreamInvariant, PTL

\* With either family of decoders the check that a chunk already returned would
\* change never fires, for whatever prompt, so no stream ends in that error.
THEOREM NothingIsRewritten == Spec => []NeverRewrites
<1>1. StreamInv => NeverRewrites
  BY DEF StreamInv, NeverRewrites
<1> QED
  BY <1>1, StreamInvariant, PTL

-----------------------------------------------------------------------------
(* The decoder that holds stop sequences back, over tiktoken's decoder.    *)

\* Clean keeps every character but the replacement.
LEMMA CleanFacts ==
  ASSUME NEW t \in Seq(Glyphs), NEW u \in Seq(Glyphs)
  PROVE  /\ Clean(t) \in Seq(Glyphs)
         /\ Clean(t \o u) = Clean(t) \o Clean(u)
         /\ t = <<>> => Clean(t) = <<>>
<1> DEFINE f == [c \in Glyphs |-> IF c \in {"R", "R+"} THEN <<>> ELSE <<c>>]
<1>1. f \in [Glyphs -> Seq(Glyphs)]
  <2>1. ASSUME NEW c \in Glyphs PROVE (IF c \in {"R", "R+"} THEN <<>> ELSE <<c>>) \in Seq(Glyphs)
    <3>1. <<>> \in Seq(Glyphs) /\ <<c>> \in Seq(Glyphs)
      BY OneOrTwo
    <3> QED
      BY <3>1
  <2> QED
    BY <2>1
<1>2. ASSUME NEW v \in Seq(Glyphs) PROVE Clean(v) = Flat(f, v)
  <2>1. \A i \in DOMAIN v : v[i] \in Glyphs
    OBVIOUS
  <2>2. [i \in DOMAIN v |-> IF v[i] \in {"R", "R+"} THEN <<>> ELSE <<v[i]>>] = [i \in DOMAIN v |-> f[v[i]]]
    BY <2>1
  <2> HIDE DEF f
  <2> QED
    BY <2>2, Zenon DEF Clean, Flat
<1>3. t \o u \in Seq(Glyphs)
  OBVIOUS
<1> HIDE DEF f
<1>4. Flat(f, t) \in Seq(Glyphs) /\ (t = <<>> => Flat(f, t) = <<>>)
  BY <1>1, FlatType
<1>5. Flat(f, t \o u) = Flat(f, t) \o Flat(f, u)
  BY <1>1, FlatConcat
<1> QED
  BY <1>2, <1>3, <1>4, <1>5

\* Nothing is left of a replacement.
LEMMA CleanReplacement == Clean(Replacement) = <<>>
<1> DEFINE f == [c \in Glyphs |-> IF c \in {"R", "R+"} THEN <<>> ELSE <<c>>]
           r == <<"R">>
           q == <<"R+">>
<1>1. "R" \in Glyphs /\ "R+" \in Glyphs
  BY SymbolFacts
<1>2. r \in Seq(Glyphs) /\ q \in Seq(Glyphs)
  BY <1>1, OneOrTwo
<1>3. Replacement = (r \o q) \o q
  BY DEF Replacement
<1>4. ASSUME NEW c \in {"R", "R+"} PROVE Clean(<<c>>) = <<>>
  <2>1. DOMAIN <<c>> = 1..1 /\ <<c>>[1] = c
    OBVIOUS
  <2>2. [i \in DOMAIN <<c>> |-> IF <<c>>[i] \in {"R", "R+"} THEN <<>> ELSE << <<c>>[i] >>] = [i \in 1..1 |-> <<>>]
    BY <2>1
  <2>3. Clean(<<c>>) = FlattenSeq([i \in 1..1 |-> <<>>])
    BY <2>2, Zenon DEF Clean
  <2> DEFINE g == [e \in {c} |-> <<>>]
  <2>4. g \in [{c} -> Seq({c})] /\ g[c] = <<>> /\ c \in {c} /\ <<c>> \in Seq({c})
    <3>1. <<>> \in Seq({c})
      OBVIOUS
    <3> QED
      BY <3>1
  <2>5. [i \in DOMAIN <<c>> |-> g[<<c>>[i]]] = [i \in 1..1 |-> <<>>]
    BY <2>1
  <2> HIDE DEF g
  <2>6. Flat(g, <<c>>) = FlattenSeq([i \in 1..1 |-> <<>>])
    BY <2>5, Zenon DEF Flat
  <2>7. Flat(g, <<c>>) = g[c]
    BY <2>4, FlatOne
  <2> QED
    BY <2>3, <2>4, <2>6, <2>7
<1>5. Clean(r) = <<>> /\ Clean(q) = <<>>
  BY <1>4
<1> HIDE DEF r, q
<1>6. r \o q \in Seq(Glyphs)
  BY <1>2
<1>7. Clean(r \o q) = <<>> \o <<>>
  BY <1>2, <1>5, CleanFacts
<1>8. <<>> \o <<>> = <<>>
  OBVIOUS
<1> DEFINE v == r \o q
<1>9. Clean(v \o q) = <<>> \o <<>>
  <2>1. v \in Seq(Glyphs) /\ Clean(v) = <<>>
    BY <1>6, <1>7, <1>8
  <2> HIDE DEF v
  <2> QED
    BY <1>2, <1>5, <2>1, CleanFacts
<1> QED
  BY <1>3, <1>8, <1>9

\* What is decoded of a single byte.
LEMMA OneByte ==
  ASSUME NEW c \in Symbols
  PROVE  /\ <<c>> \in Seq(Symbols)
         /\ EndsInReplacement(Lossy(<<c>>).text) => Lossy(<<c>>).text = Replacement
         /\ c \notin ByteTokens => ~ EndsInReplacement(Lossy(<<c>>).text)
<1> DEFINE x == <<c>>
           k == Taken(x, 1)
<1>1. x \in Seq(Symbols) /\ Len(x) = 1 /\ x[1] = c
  BY OneOrTwo
<1> HIDE DEF x
<1>2. 1 \in 1..Len(x) /\ Len(x) + 1 = 2
  BY <1>1
<1>3. 1 + k \in 1..Len(x) /\ k \in 0..3 /\ k <= Need(x[1])
  BY <1>1, <1>2, TakenFacts
<1>4. k = 0
  BY <1>1, <1>3
<1>5. /\ On(x)[1].text = Piece(x, 1) \o On(x)[1 + k + 1].text
      /\ On(x)[1].valid <=> Whole(x, 1) /\ On(x)[1 + k + 1].valid
      /\ On(x)[Len(x) + 1].text = <<>> /\ On(x)[Len(x) + 1].valid = TRUE
  BY <1>1, <1>2, OnFacts, ZenonT(30)
<1>6. 1 + k + 1 = Len(x) + 1
  BY <1>1, <1>4
<1>7. Piece(x, 1) \in Seq(Glyphs) /\ (~ Whole(x, 1) => Piece(x, 1) = Replacement)
  BY <1>1, <1>2, PieceFacts
<1>8. Piece(x, 1) \o <<>> = Piece(x, 1)
  BY <1>7
<1>9. Lossy(x).text = Piece(x, 1) /\ (Lossy(x).valid <=> Whole(x, 1))
  BY <1>5, <1>6, <1>8, LossyIs
<1>10. EndsInReplacement(Lossy(x).text) => ~ Lossy(x).valid
  BY <1>1, EndsInvalid
<1>11. c \notin ByteTokens => Whole(x, 1)
  <2>1. c \notin ByteTokens => c \notin Leads /\ c # "C"
    BY SymbolFacts
  <2>2. c \notin Leads => Need(c) = 0
    BY NeedFacts
  <2> QED
    BY <1>1, <1>4, <2>1, <2>2 DEF Whole, k
<1> QED
  BY <1>1, <1>7, <1>9, <1>10, <1>11 DEF x

\* A character that is not complete is one replacement, however much of it is there.
LEMMA OpenPiece ==
  ASSUME NEW v \in Seq(Symbols), v # <<>>, v[1] \in Leads,
         \A j \in 2..Len(v) : v[j] = "C", Len(v) - 1 <= Need(v[1])
  PROVE  /\ Len(v) - 1 < Need(v[1]) => Lossy(v).text = Replacement
         /\ EndsInReplacement(Lossy(v).text) => Lossy(v).text = Replacement
<1> DEFINE n == Len(v)
           k == Taken(v, 1)
           m == Need(v[1])
<1>1. n \in Nat /\ n >= 1 /\ 1 \in 1..n
  OBVIOUS
<1>2. /\ k \in 0..m /\ k \in 0..3 /\ m \in 0..3 /\ 1 + k \in 1..n
      /\ k = m \/ 1 + k = n \/ v[1 + k + 1] # "C"
  BY <1>1, TakenFacts, NeedFacts DEF IsFollowing
<1>3. (\A j \in 2..n : v[j] = "C") /\ n - 1 <= m
  OBVIOUS
<1> HIDE DEF k, m
<1>4. 1 + k = n
  <2>1. ASSUME 1 + k # n PROVE FALSE
    <3>1. 1 + k + 1 \in 2..n /\ k # m
      BY <1>1, <1>2, <1>3, <2>1
    <3> QED
      BY <1>2, <1>3, <2>1, <3>1
  <2> QED
    BY <2>1
<1>5. /\ On(v)[1].text = Piece(v, 1) \o On(v)[1 + k + 1].text
      /\ On(v)[1].valid <=> Whole(v, 1) /\ On(v)[1 + k + 1].valid
      /\ On(v)[n + 1].text = <<>> /\ On(v)[n + 1].valid = TRUE
  BY <1>1, OnFacts DEF k
<1>6. 1 + k + 1 = n + 1
  BY <1>4
<1>7. Piece(v, 1) \in Seq(Glyphs) /\ (~ Whole(v, 1) => Piece(v, 1) = Replacement)
  BY <1>1, PieceFacts
<1>8. Piece(v, 1) \o <<>> = Piece(v, 1)
  BY <1>7
<1>9. Lossy(v).text = Piece(v, 1) /\ (Lossy(v).valid <=> Whole(v, 1))
  BY <1>5, <1>6, <1>8, LossyIs
<1>10. EndsInReplacement(Lossy(v).text) => ~ Lossy(v).valid
  BY EndsInvalid
<1>11. n - 1 < m => ~ Whole(v, 1)
  <2>1. n - 1 < m => k # m
    BY <1>1, <1>2, <1>4
  <2> QED
    BY <2>1 DEF Whole, k, m
<1> QED
  BY <1>7, <1>9, <1>10, <1>11 DEF m

\* A byte after which the text ends in a replacement is a part of a character; it
\* adds one replacement, or goes on with the character that ended in one.
LEMMA OneMoreByte ==
  ASSUME NEW x \in Seq(Symbols), NEW c \in Symbols, EndsInReplacement(Lossy(x \o <<c>>).text)
  PROVE  /\ c \in ByteTokens
         /\ Lossy(x \o <<c>>).text \in {Lossy(x).text, Lossy(x).text \o Replacement}
<1> DEFINE y == <<c>>
<1>1. /\ y \in Seq(Symbols) /\ y # <<>> /\ y[1] = c
      /\ EndsInReplacement(Lossy(y).text) => Lossy(y).text = Replacement
      /\ c \notin ByteTokens => ~ EndsInReplacement(Lossy(y).text)
  BY OneByte, OneOrTwo
<1> HIDE DEF y
<1>2. /\ Lossy(x).text \in Seq(Glyphs) /\ Lossy(y).text \in Seq(Glyphs)
      /\ Len(Lossy(y).text) >= 1 /\ Lossy(y).text[1] \notin Continuations
  BY <1>1, LossyFacts
<1>3. EndsInReplacement(Lossy(x \o y).text)
  BY DEF y
<1>4. CASE Meets(x, y)
  <2>1. Lossy(x \o y).text = Lossy(x).text \o Lossy(y).text
    BY <1>1, <1>4, LossySplit
  <2>2. EndsInReplacement(Lossy(y).text)
    BY <1>2, <1>3, <2>1, PartEnds
  <2>3. c \in ByteTokens /\ Lossy(y).text = Replacement
    BY <1>1, <2>2
  <2> QED
    BY <2>1, <2>3 DEF y
<1>5. CASE ~ Meets(x, y)
  <2>1. ~ Closed(x) /\ c = "C"
    BY <1>1, <1>5 DEF Meets
  <2>2. PICK i \in 1..Len(x) : /\ x[i] \in Leads /\ \A j \in i + 1..Len(x) : x[j] = "C"
                               /\ ~ Need(x[i]) <= Len(x) - i
    BY <2>1 DEF Closed
  <2> DEFINE n == Len(x)
             u == SubSeq(x, 1, i - 1)
             v == SubSeq(x, i, n)
             w == v \o y
  <2>3. n \in Nat /\ i \in 1..n
    OBVIOUS
  <2>4. x = u \o v /\ u \in Seq(Symbols) /\ v \in Seq(Symbols)
    <3> DEFINE r == i - 1
    <3>1. n \in 0..n /\ r \in 0..n /\ 0 \in 0..r /\ r + 1 = i /\ 0 + 1 = 1
      BY <2>3
    <3>2. SubSeq(x, 1, n) = x
      OBVIOUS
    <3> HIDE DEF r
    <3>3. /\ SubSeq(x, 0 + 1, n) = SubSeq(x, 0 + 1, r) \o SubSeq(x, r + 1, n)
          /\ SubSeq(x, 0 + 1, r) \in Seq(Symbols) /\ SubSeq(x, r + 1, n) \in Seq(Symbols)
      BY <3>1, PartsJoin
    <3> QED
      BY <3>1, <3>2, <3>3 DEF r
  <2>5. /\ Len(v) = n - i + 1 /\ v[1] = x[i] /\ \A h \in 1..n - i + 1 : v[h] = x[i + h - 1]
    <3>1. n \in i..n
      BY <2>3
    <3> QED
      BY <2>3, <3>1, SliceFacts
  <2> HIDE DEF u, v, n
  <2> DEFINE m == Need(v[1])
  <2>6. m \in 0..3 /\ m > n - i
    <3>1. m \in 0..3 /\ ~ m <= n - i
      BY <2>2, <2>5, NeedFacts DEF n
    <3> HIDE DEF m
    <3> QED
      BY <2>3, <3>1
  <2>7. v # <<>> /\ v[1] \in Leads /\ \A j \in 2..Len(v) : v[j] = "C"
    <3>1. v # <<>>
      BY <2>3, <2>4, <2>5
    <3>2. ASSUME NEW j \in 2..Len(v) PROVE v[j] = "C"
      <4>1. j \in 1..n - i + 1 /\ i + j - 1 \in i + 1..n
        BY <2>3, <2>5
      <4>2. v[j] = x[i + j - 1]
        BY <2>5, <4>1
      <4> QED
        BY <2>2, <4>1, <4>2 DEF n
    <3> QED
      BY <2>2, <2>5, <3>1, <3>2
  <2>8. Lossy(v).text = Replacement
    <3>1. Len(v) - 1 <= m /\ Len(v) - 1 < m
      <4> HIDE DEF m
      <4> QED
        BY <2>3, <2>5, <2>6
    <3> QED
      BY <2>4, <2>7, <3>1, OpenPiece
  <2>9. w \in Seq(Symbols) /\ w # <<>> /\ Len(w) = Len(v) + 1 /\ w[1] = v[1] /\ \A j \in 2..Len(w) : w[j] = "C"
    <3>1. /\ w \in Seq(Symbols) /\ Len(v) \in Nat /\ Len(w) = Len(v) + Len(y)
          /\ \A j \in 1..Len(v) : w[j] = v[j]
          /\ \A j \in 1..Len(y) : w[Len(v) + j] = y[j]
      BY <1>1, <2>4, JoinFacts
    <3>2. Len(y) = 1 /\ Len(v) >= 1
      <4>1. Len(y) = 1
        BY OneOrTwo DEF y
      <4> QED
        BY <2>3, <2>5, <4>1
    <3> HIDE DEF w
    <3>3. w # <<>> /\ w[1] = v[1]
      BY <3>1, <3>2
    <3>4. ASSUME NEW j \in 2..Len(w) PROVE w[j] = "C"
      <4>1. CASE j \in 2..Len(v)
        <5>1. j \in 1..Len(v)
          BY <3>1, <4>1
        <5> QED
          BY <2>7, <3>1, <4>1, <5>1
      <4>2. CASE j \notin 2..Len(v)
        <5>1. j = Len(v) + 1 /\ 1 \in 1..Len(y)
          BY <3>1, <3>2, <4>2
        <5> QED
          BY <1>1, <2>1, <3>1, <5>1
      <4> QED
        BY <4>1, <4>2
    <3> QED
      BY <3>1, <3>2, <3>3, <3>4
  <2>10. x \o y = u \o w
    <3>1. \A a, b, e \in Seq(Symbols) : (a \o b) \o e = a \o (b \o e)
      BY ConcatAssociative, SMTT(30)
    <3> QED
      BY <1>1, <2>4, <3>1
  <2> HIDE DEF w
  <2>11. Meets(u, w) /\ Meets(u, v)
    BY <2>7, <2>9, NeedFacts DEF Meets
  <2>12. Lossy(x).text = Lossy(u).text \o Lossy(v).text /\ Lossy(x \o y).text = Lossy(u).text \o Lossy(w).text
    <3>1. Lossy(u \o v).text = Lossy(u).text \o Lossy(v).text
      BY <2>4, <2>11, LossySplit
    <3>2. Lossy(u \o w).text = Lossy(u).text \o Lossy(w).text
      BY <2>4, <2>9, <2>11, LossySplit
    <3> QED
      BY <2>4, <2>10, <3>1, <3>2
  <2>13. /\ Lossy(u).text \in Seq(Glyphs) /\ Lossy(w).text \in Seq(Glyphs)
         /\ Len(Lossy(w).text) >= 1 /\ Lossy(w).text[1] \notin Continuations
    BY <2>4, <2>9, LossyFacts
  <2>14. EndsInReplacement(Lossy(w).text)
    BY <1>3, <2>12, <2>13, PartEnds
  <2>15. Lossy(w).text = Replacement
    <3>1. Len(w) - 1 <= Need(w[1])
      <4>1. Len(w) - 1 <= m
        <5> HIDE DEF m
        <5> QED
          BY <2>3, <2>5, <2>6, <2>9
      <4> QED
        BY <2>9, <4>1
    <3>2. w[1] \in Leads
      BY <2>7, <2>9
    <3> QED
      BY <2>9, <2>14, <3>1, <3>2, OpenPiece
  <2>16. c \in ByteTokens
    BY <2>1 DEF ByteTokens
  <2> QED
    BY <2>8, <2>12, <2>15, <2>16 DEF y
<1> QED
  BY <1>4, <1>5

\* One element joined to nothing, or to another.
LEMMA Singles ==
  ASSUME NEW S, NEW c \in S, NEW e \in S
  PROVE  <<>> \o <<c>> = <<c>> /\ <<e>> \o <<c>> = <<e, c>>
<1>1. <<>> \o <<c>> = <<c>>
  OBVIOUS
<1>2. <<e>> \o <<c>> = <<e, c>>
  <2> DEFINE x == <<e>>
             y == <<c>>
             z == <<e, c>>
             w == x \o y
  <2>1. x \in Seq(S) /\ Len(x) = 1 /\ x[1] = e /\ y \in Seq(S) /\ Len(y) = 1 /\ y[1] = c
    BY OneOrTwo
  <2>2. z \in Seq(S) /\ Len(z) = 2 /\ z[1] = e /\ z[2] = c
    BY OneOrTwo
  <2> HIDE DEF x, y, z
  <2>3. w \in Seq(S) /\ Len(w) = 2 /\ w[1] = e /\ w[2] = c
    BY <2>1, JoinFacts
  <2> HIDE DEF w
  <2>4. w = z
    BY <2>2, <2>3, SeqEqual
  <2> QED
    BY <2>4 DEF w, x, y, z
<1> QED
  BY <1>1, <1>2

\* The last byte of an ordinary token is no part of a split character.
LEMMA WordEnd ==
  ASSUME NEW t \in {"a", "b", "end", "word"}
  PROVE  \E w \in Seq(Symbols) : \E c \in Symbols : c \notin ByteTokens /\ Bytes(t) = w \o <<c>>
<1>1. /\ "a" \in Symbols /\ "b" \in Symbols /\ "e" \in Symbols /\ "_" \in Symbols
      /\ "a" \notin ByteTokens /\ "b" \notin ByteTokens /\ "e" \notin ByteTokens
  BY SymbolFacts
<1>2. Bytes(t) = WordBytes[t]
  BY DEF Bytes, WordBytes
<1>3. Bytes(t) \in {<<"a">>, <<"b">>, <<"e">>, <<"_", "a">>}
  BY <1>2 DEF WordBytes
<1>4. /\ \A c \in Symbols : <<>> \o <<c>> = <<c>>
      /\ <<"_">> \o <<"a">> = <<"_", "a">>
  <2>1. ASSUME NEW c \in Symbols PROVE <<>> \o <<c>> = <<c>>
    BY Singles
  <2>2. <<"_">> \o <<"a">> = <<"_", "a">>
    BY <1>1, Singles
  <2> QED
    BY <2>1, <2>2
<1>5. <<>> \in Seq(Symbols) /\ <<"_">> \in Seq(Symbols)
  <2>1. <<>> \in Seq(Symbols)
    OBVIOUS
  <2> QED
    BY <1>1, <2>1, OneOrTwo
<1> DEFINE b == Bytes(t)
<1> HIDE DEF b
<1>6. \E w \in {<<>>, <<"_">>} : \E c \in {"a", "b", "e"} : b = w \o <<c>>
  <2>1. CASE b \in {<<"a">>, <<"b">>, <<"e">>}
    BY <1>1, <1>4, <2>1
  <2>2. CASE b = <<"_", "a">>
    BY <1>4, <2>2
  <2> QED
    BY <1>3, <2>1, <2>2 DEF b
<1> QED
  BY <1>1, <1>5, <1>6 DEF b

\* A text that has no character of its own: nothing, or replacements of what is not complete.
Silent(text) == Clean(text) = <<>> /\ (text = <<>> \/ EndsInReplacement(text))

\* Silent tokens stay silent until one completes a character.
LEMMA StillSilent ==
  ASSUME NEW s \in Seq(TokenKinds), NEW id \in TokenKinds, Silent(Said("bytes", s)),
         EndsInReplacement(Said("bytes", s \o <<id>>))
  PROVE  Silent(Said("bytes", s \o <<id>>))
<1> DEFINE x == BytesOf(s)
           b == Bytes(id)
<1>1. <<id>> \in Seq(TokenKinds)
  BY OneOrTwo
<1>2. x \in Seq(Symbols) /\ BytesOf(s \o <<id>>) = x \o BytesOf(<<id>>)
  BY <1>1, CoreFacts
<1>3. BytesOf(<<id>>) = b
  <2> DEFINE f == [t \in TokenKinds |-> Bytes(t)]
  <2>1. f \in [TokenKinds -> Seq(Symbols)] /\ f[id] = b
    BY CoreMaps
  <2>2. BytesOf(<<id>>) = Flat(f, <<id>>)
    BY <1>1, CoresJoin
  <2> HIDE DEF f, b
  <2>3. Flat(f, <<id>>) = f[id]
    BY <2>1, FlatOne
  <2> QED
    BY <2>1, <2>2, <2>3
<1>4. \A t : Said("bytes", t) = Lossy(BytesOf(t)).text
  BY DEF Said, Decode, BytesOf
<1>5. Clean(Lossy(x).text) = <<>> /\ EndsInReplacement(Lossy(x \o b).text)
  BY <1>2, <1>3, <1>4 DEF Silent
<1> HIDE DEF x
<1>6. Clean(Lossy(x \o b).text) = <<>>
  <2>1. CASE id = "special"
    <3>1. b = <<>>
      BY <2>1 DEF Bytes, WordBytes
    <3>2. x \o <<>> = x
      BY <1>2
    <3> QED
      BY <1>5, <3>1, <3>2
  <2>2. CASE id \in {"a", "b", "end", "word"}
    <3>1. PICK w \in Seq(Symbols), c \in Symbols : c \notin ByteTokens /\ b = w \o <<c>>
      BY <2>2, WordEnd
    <3>2. <<c>> \in Seq(Symbols) /\ x \o w \in Seq(Symbols)
      BY <1>2, OneOrTwo
    <3>3. x \o b = (x \o w) \o <<c>>
      <4>1. \A u, v, y \in Seq(Symbols) : (u \o v) \o y = u \o (v \o y)
        BY ConcatAssociative, SMTT(30)
      <4> QED
        BY <1>2, <3>1, <3>2, <4>1
    <3>4. EndsInReplacement(Lossy((x \o w) \o <<c>>).text)
      BY <1>5, <3>3
    <3>5. c \in ByteTokens
      <4> DEFINE y == x \o w
      <4>1. y \in Seq(Symbols) /\ EndsInReplacement(Lossy(y \o <<c>>).text)
        BY <3>2, <3>4
      <4> HIDE DEF y
      <4> QED
        BY <4>1, OneMoreByte
    <3> QED
      BY <3>1, <3>5
  <2>3. CASE id \in ByteTokens
    <3>1. id \notin DOMAIN WordBytes /\ id # "special"
      BY <2>3, SymbolFacts DEF WordBytes
    <3>2. b = <<id>> /\ id \in Symbols
      BY <2>3, <3>1, SpokenFacts DEF Bytes
    <3>3. Lossy(x \o <<id>>).text \in {Lossy(x).text, Lossy(x).text \o Replacement}
      BY <1>2, <1>5, <3>2, OneMoreByte
    <3>4. Lossy(x).text \in Seq(Glyphs) /\ Replacement \in Seq(Glyphs)
      BY <1>2, LossyFacts, ReplacementFacts
    <3>5. Clean(Lossy(x).text \o Replacement) = <<>> \o <<>>
      BY <1>5, <3>4, CleanFacts, CleanReplacement
    <3>6. <<>> \o <<>> = <<>>
      OBVIOUS
    <3> QED
      BY <1>5, <3>2, <3>3, <3>5, <3>6
  <2> QED
    BY <2>1, <2>2, <2>3, SpokenFacts DEF Spoken
<1> QED
  BY <1>2, <1>3, <1>4, <1>5, <1>6 DEF Silent

\* Where the text behind a settled window is split: exactly behind the window's.
LEMMA SplitIs ==
  ASSUME NEW d \in {"bytes", "fallback"}, NEW s \in Seq(TokenKinds), NEW t \in Seq(TokenKinds), Settled(d, s),
         Core(d, t) # <<>>
  PROVE  SplitPoint(Said(d, s \o t), Len(Said(d, s))) = Len(Said(d, s))
<1> DEFINE u == Said(d, s)
           v == Rest(d, s, t)
           w == Said(d, s \o t)
           n == Len(u)
           P(i) == /\ i = 0 \/ i = Len(w) \/ (i < Len(w) /\ w[i + 1] \notin Continuations)
                   /\ \A j \in i + 1..n : j # Len(w) /\ (j > Len(w) \/ w[j + 1] \in Continuations)
<1>1. w = u \o v
  BY SaidSplit
<1>2. u \in Seq(Glyphs) /\ v \in Seq(Glyphs) /\ Len(v) >= 1 /\ v[1] \notin Continuations
  BY SaidFacts, RestFacts
<1>3. SplitPoint(w, n) = CHOOSE i \in 0..n : P(i)
  BY DEF SplitPoint
<1> HIDE DEF u, v, w
<1>4. n \in Nat /\ n < Len(w) /\ Len(w) \in Nat
  BY <1>1, <1>2
<1>5. w[n + 1] \notin Continuations
  <2>1. \A i \in 1..Len(v) : w[n + i] = v[i]
    BY <1>1, <1>2, JoinFacts
  <2>2. 1 \in 1..Len(v)
    BY <1>2
  <2>3. w[n + 1] = v[1]
    BY <2>1, <2>2
  <2> QED
    BY <1>2, <2>3
<1>6. n \in 0..n /\ P(n)
  BY <1>4, <1>5
<1>7. ASSUME NEW i \in 0..n, P(i) PROVE i = n
  <2>1. n \in i + 1..n => (n > Len(w) \/ w[n + 1] \in Continuations)
    BY <1>7
  <2>2. i # n => n \in i + 1..n
    BY <1>4
  <2>3. ~ n > Len(w)
    BY <1>4
  <2> QED
    BY <1>5, <2>1, <2>2, <2>3
<1> HIDE DEF P
<1>8. SplitPoint(w, n) = n
  BY <1>3, <1>6, <1>7
<1> QED
  BY <1>8 DEF u, w

\* What appending a token does to the tokens from a position on.
LEMMA AppendEnd ==
  ASSUME NEW S, NEW k \in Seq(S), NEW e \in S, NEW r \in 0..Len(k)
  PROVE  SubSeq(Append(k, e), r + 1, Len(k) + 1) = SubSeq(k, r + 1, Len(k)) \o <<e>>
<1> DEFINE z == Append(k, e)
           m == Len(k)
           n == m + 1
<1>1. m \in Nat /\ m \in 0..m /\ r \in 0..m /\ n \in 0..n /\ m \in 0..n /\ n \in 1..n /\ n \in n..n
      /\ n - n + 1 = 1
  OBVIOUS
<1>2. z \in Seq(S) /\ Len(z) = n /\ SubSeq(z, r + 1, m) = SubSeq(k, r + 1, m)
  BY <1>1, AppendParts
<1>3. z[n] = e
  OBVIOUS
<1> HIDE DEF z, m
<1>4. SubSeq(z, r + 1, n) = SubSeq(z, r + 1, m) \o SubSeq(z, m + 1, n)
  BY <1>1, <1>2, PartsJoin
<1>5. SubSeq(z, n, n) = <<e>>
  <2> HIDE DEF n
  <2> DEFINE u == SubSeq(z, n, n)
             v == <<e>>
  <2>1. u \in Seq(S) /\ Len(u) = 1 /\ u[1] = e
    BY <1>1, <1>2, <1>3, SliceFacts
  <2>2. v \in Seq(S) /\ Len(v) = 1 /\ v[1] = e
    BY OneOrTwo
  <2> HIDE DEF u, v
  <2>3. u = v
    BY <2>1, <2>2, SeqEqual
  <2> QED
    BY <2>3 DEF u, v
<1> QED
  BY <1>2, <1>4, <1>5 DEF z, m

\* What z adds to the text of s is complete, and that text.
Completes(s, z) ==
    Len(Said("bytes", s \o z)) > Len(Said("bytes", s)) /\ ~ Decode("bytes", s \o z).partial
Added(s, z) ==
    LET w == Said("bytes", s \o z)
    IN  SubSeq(w, SplitPoint(w, Len(Said("bytes", s))) + 1, Len(w))

\* The text behind a settled window, when a token is added to tokens that are
\* still silent: either it is complete, or they stay silent.
LEMMA TextBehind ==
  ASSUME NEW s \in Seq(TokenKinds), NEW t \in Seq(TokenKinds), NEW id \in TokenKinds,
         Settled("bytes", s), Silent(Said("bytes", t))
  PROVE  /\ Completes(s, t \o <<id>>) => /\ Settled("bytes", t \o <<id>>)
                                         /\ Added(s, t \o <<id>>) = Said("bytes", t \o <<id>>)
         /\ ~ Completes(s, t \o <<id>>) => Silent(Said("bytes", t \o <<id>>))
<1> DEFINE z == t \o <<id>>
           v == Said("bytes", z)
           w == Said("bytes", s \o z)
           n == Len(Said("bytes", s))
           whole == Completes(s, z)
<1>1. z \in Seq(TokenKinds)
  <2>1. <<id>> \in Seq(TokenKinds)
    BY OneOrTwo
  <2> QED
    BY <2>1
<1>2. /\ w = Said("bytes", s \o z) /\ n = Len(Said("bytes", s))
      /\ whole <=> Len(w) > n /\ ~ Decode("bytes", s \o z).partial
  BY DEF Completes
<1>3. EndsInReplacement(v) => Silent(v)
  BY StillSilent
<1> HIDE DEF z, w, n, whole
<1>4. Rest("bytes", s, z) = v
  <2>1. Said("bytes", z) = Raw("bytes", z)
    BY SaidIs
  <2> QED
    BY <2>1 DEF Rest
<1>5. w = Said("bytes", s) \o v
  BY <1>1, <1>2, <1>4, SaidSplit
<1>6. /\ Said("bytes", s) \in Seq(Glyphs) /\ v \in Seq(Glyphs)
      /\ Core("bytes", z) = <<>> => v = <<>>
      /\ Core("bytes", z) # <<>> => Len(v) >= 1 /\ v[1] \notin Continuations
  BY <1>1, SaidFacts
<1>7. Len(w) > n <=> Core("bytes", z) # <<>>
  BY <1>1, <1>2, NewText
<1>8. ASSUME whole PROVE Settled("bytes", z) /\ SubSeq(w, SplitPoint(w, n) + 1, Len(w)) = v
  <2>1. Core("bytes", z) # <<>> /\ ~ Decode("bytes", s \o z).partial
    BY <1>2, <1>7, <1>8
  <2>2. s \o z \in Seq(TokenKinds)
    BY <1>1
  <2>3. Settled("bytes", s \o z)
    BY <2>1, <2>2, WholeIsSettled
  <2>4. Settled("bytes", z)
    BY <1>1, <2>3, SettledJoin
  <2>5. SplitPoint(w, n) = n
    BY <1>1, <1>2, <2>1, SplitIs
  <2>6. SubSeq(w, n + 1, Len(w)) = v
    BY <1>1, <1>2, <1>4, NewText
  <2> QED
    BY <2>4, <2>5, <2>6
<1>9. ASSUME ~ whole PROVE Silent(v)
  <2>1. CASE Core("bytes", z) = <<>>
    <3>1. v = <<>> /\ Clean(v) = <<>>
      BY <1>6, <2>1, CleanFacts
    <3> QED
      BY <3>1 DEF Silent
  <2>2. CASE Core("bytes", z) # <<>>
    <3>1. Decode("bytes", s \o z).partial
      BY <1>2, <1>7, <1>9, <2>2
    <3>2. EndsInReplacement(w)
      BY <1>2, <3>1 DEF Decode, Said
    <3>3. EndsInReplacement(Said("bytes", s) \o v)
      BY <1>5, <3>2
    <3>4. EndsInReplacement(v)
      BY <1>6, <2>2, <3>3, PartEnds
    <3> QED
      BY <1>3, <3>4
  <2> QED
    BY <2>1, <2>2
<1> QED
  BY <1>8, <1>9 DEF z, w, n, whole, Added

-----------------------------------------------------------------------------
(* The invariant of the stop decoder, over decoders that concatenate bytes. *)

\* The tokens whose text has been judged, and those that wait for more.
TokensRead == SubSeq(token_ids, 1, read_offset)
TokensPending == SubSeq(token_ids, read_offset + 1, Len(token_ids))

\* Until a hidden stop token ends it, what is returned and what is in the jail are the
\* text of what has been read, no later token can change that text, and what is
\* pending has no text yet.  The jail of a response that goes on holds the beginning
\* of a stop sequence, and no more can be missing when a hidden stop token empties it.
StopInv ==
    /\ StopTypeOK
    /\ returned \in Seq(Glyphs) /\ state \in Seq(Glyphs)
    /\ ~ HiddenStop =>
          /\ Settled(decoder, TokensRead)
          /\ returned \o state = Clean(Said(decoder, TokensRead))
          /\ Silent(Said(decoder, TokensPending))
    /\ stopped = "sequence" => \E i \in DOMAIN StopSequences : state = StopSequences[i]
    /\ stopped = "no" => state \in StopBeginnings
    /\ HiddenStopDropsOnlyTheJail

\* The parts of the tokens, before and after one is appended.
LEMMA TokenParts ==
  ASSUME StopTypeOK, NEW id \in Tokens, NEW ids, ids = Append(token_ids, id)
  PROVE  /\ TokensRead \in Seq(TokenKinds) /\ TokensPending \in Seq(TokenKinds)
         /\ SubSeq(token_ids, 1, prefix_offset) \in Seq(TokenKinds)
         /\ SubSeq(ids, prefix_offset + 1, read_offset) \in Seq(TokenKinds)
         /\ TokensRead = SubSeq(token_ids, 1, prefix_offset) \o SubSeq(ids, prefix_offset + 1, read_offset)
         /\ token_ids = TokensRead \o TokensPending
         /\ SubSeq(ids, 1, read_offset) = TokensRead
         /\ SubSeq(ids, read_offset + 1, Len(ids)) = TokensPending \o <<id>>
         /\ SubSeq(ids, prefix_offset + 1, Len(ids))
              = SubSeq(ids, prefix_offset + 1, read_offset) \o (TokensPending \o <<id>>)
         /\ SubSeq(ids, 1, Len(ids)) = TokensRead \o (TokensPending \o <<id>>)
         /\ SubSeq(ids, Len(ids) + 1, Len(ids)) = <<>>
         /\ ids \in Seq(Tokens) /\ Len(ids) = Len(token_ids) + 1
<1> DEFINE k == token_ids
           m == Len(k)
           r == read_offset
           p == prefix_offset
<1>1. k \in Seq(TokenKinds) /\ id \in TokenKinds /\ k \in Seq(Tokens)
  <2>1. k \in Seq(Tokens) /\ Tokens \subseteq TokenKinds
    BY KnownDecoders DEF StopTypeOK
  <2> HIDE DEF k
  <2> QED
    BY <2>1, WiderSeq
<1>2. /\ m \in Nat /\ m \in 0..Len(k) /\ p \in 0..r /\ r \in 0..m /\ p \in 0..m /\ m \in 0..m
      /\ 0 \in 0..r /\ 0 \in 0..p /\ 0 + 1 = 1
  BY DEF StopTypeOK
<1>3. SubSeq(k, 1, m) = k
  BY <1>1
<1>4. ids = Append(k, id)
  OBVIOUS
<1>5. ids \in Seq(Tokens) /\ Len(ids) = m + 1
  BY <1>1, <1>4
<1>6. TokensRead = SubSeq(k, 1, r) /\ TokensPending = SubSeq(k, r + 1, m)
  BY DEF TokensRead, TokensPending
<1> HIDE DEF k, m, r, p
<1>7. /\ SubSeq(k, 0 + 1, m) = SubSeq(k, 0 + 1, r) \o SubSeq(k, r + 1, m)
      /\ SubSeq(k, 0 + 1, r) \in Seq(TokenKinds) /\ SubSeq(k, r + 1, m) \in Seq(TokenKinds)
  BY <1>1, <1>2, PartsJoin
<1>8. /\ SubSeq(k, 0 + 1, r) = SubSeq(k, 0 + 1, p) \o SubSeq(k, p + 1, r)
      /\ SubSeq(k, 0 + 1, p) \in Seq(TokenKinds) /\ SubSeq(k, p + 1, r) \in Seq(TokenKinds)
  BY <1>1, <1>2, PartsJoin
<1>9. /\ ids \in Seq(TokenKinds)
      /\ SubSeq(ids, p + 1, r) = SubSeq(k, p + 1, r)
  BY <1>1, <1>2, <1>4, AppendParts DEF m
<1>10. SubSeq(ids, 0 + 1, r) = SubSeq(k, 0 + 1, r)
  BY <1>1, <1>2, <1>4, AppendParts DEF m
<1>11. SubSeq(ids, r + 1, m + 1) = SubSeq(k, r + 1, m) \o <<id>>
  BY <1>1, <1>2, <1>4, AppendEnd DEF m
<1> DEFINE n == m + 1
<1>12. n \in 0..n /\ r \in 0..n /\ p \in 0..r /\ 0 \in 0..r
  BY <1>2
<1>13. Len(ids) = n
  BY <1>5
<1> HIDE DEF n
<1>14. SubSeq(ids, p + 1, n) = SubSeq(ids, p + 1, r) \o SubSeq(ids, r + 1, n)
  BY <1>9, <1>12, <1>13, PartsJoin
<1>15. SubSeq(ids, 0 + 1, n) = SubSeq(ids, 0 + 1, r) \o SubSeq(ids, r + 1, n)
  BY <1>9, <1>12, <1>13, PartsJoin
<1>16. SubSeq(ids, n + 1, n) = <<>>
  BY <1>9, <1>12, <1>13, PartsJoin
<1>17. Len(ids) = Len(token_ids) + 1 /\ ids \in Seq(Tokens)
  BY <1>5 DEF m, k
<1>18. SubSeq(ids, r + 1, n) = TokensPending \o <<id>>
  BY <1>6, <1>11 DEF n
<1>19. /\ TokensRead \in Seq(TokenKinds) /\ TokensPending \in Seq(TokenKinds)
       /\ SubSeq(k, 1, p) \in Seq(TokenKinds)
       /\ SubSeq(ids, p + 1, r) \in Seq(TokenKinds)
       /\ TokensRead = SubSeq(k, 1, p) \o SubSeq(ids, p + 1, r)
       /\ k = TokensRead \o TokensPending
       /\ SubSeq(ids, 1, r) = TokensRead
  BY <1>2, <1>3, <1>6, <1>7, <1>8, <1>9, <1>10
<1>20. /\ SubSeq(ids, p + 1, n) = SubSeq(ids, p + 1, r) \o (TokensPending \o <<id>>)
       /\ SubSeq(ids, 1, n) = TokensRead \o (TokensPending \o <<id>>)
  BY <1>2, <1>14, <1>15, <1>18, <1>19
<1> QED
  BY <1>13, <1>16, <1>17, <1>18, <1>19, <1>20 DEF k, r, p

\* What append_token_id makes of one more token.
LEMMA TokenAdded ==
  ASSUME StopInv, decoder = "bytes", ~ HiddenStop, NEW id \in Tokens,
         NEW q, q = SequenceText(Append(token_ids, id))
  PROVE  /\ q.new \in Seq(Glyphs) /\ q.advance \in BOOLEAN
         /\ q.advance => /\ Settled(decoder, TokensPending \o <<id>>)
                         /\ q.new = Clean(Said(decoder, TokensPending \o <<id>>))
         /\ ~ q.advance => q.new = <<>> /\ Silent(Said(decoder, TokensPending \o <<id>>))
<1> DEFINE ids == Append(token_ids, id)
           s == SubSeq(ids, prefix_offset + 1, read_offset)
           t == TokensPending
           z == t \o <<id>>
           all == SubSeq(ids, prefix_offset + 1, Len(ids))
           w == Decode("bytes", all).text
           n == Len(Decode("bytes", s).text)
           whole == Completes(s, z)
<1>1. /\ t \in Seq(TokenKinds) /\ s \in Seq(TokenKinds)
      /\ SubSeq(token_ids, 1, prefix_offset) \in Seq(TokenKinds)
      /\ TokensRead = SubSeq(token_ids, 1, prefix_offset) \o s
      /\ all = s \o z
  BY TokenParts DEF StopInv
<1>2. q = IF Len(w) > n /\ ~ Decode("bytes", all).partial
          THEN [new |-> Clean(SubSeq(w, SplitPoint(w, n) + 1, Len(w))), advance |-> TRUE]
          ELSE [new |-> <<>>, advance |-> FALSE]
  BY DEF SequenceText
<1>3. id \in TokenKinds
  BY KnownDecoders
<1>4. Settled("bytes", TokensRead) /\ Silent(Said("bytes", t))
  BY DEF StopInv
<1> HIDE DEF ids, s, t, all
<1>5. Settled("bytes", s)
  <2> DEFINE u == SubSeq(token_ids, 1, prefix_offset)
  <2>1. u \in Seq(TokenKinds) /\ Settled("bytes", u \o s)
    BY <1>1, <1>4
  <2> HIDE DEF u
  <2> QED
    BY <1>1, <2>1, SettledJoin
<1>6. /\ w = Said("bytes", s \o z) /\ n = Len(Said("bytes", s))
      /\ whole <=> Len(w) > n /\ ~ Decode("bytes", all).partial
  BY <1>1 DEF Said, Completes
<1>7. SubSeq(w, SplitPoint(w, n) + 1, Len(w)) = Added(s, z)
  BY <1>1 DEF Said, Added
<1>8. /\ Completes(s, t \o <<id>>) => /\ Settled("bytes", t \o <<id>>)
                                     /\ Added(s, t \o <<id>>) = Said("bytes", t \o <<id>>)
      /\ ~ Completes(s, t \o <<id>>) => Silent(Said("bytes", t \o <<id>>))
  BY <1>1, <1>3, <1>4, <1>5, TextBehind
<1> HIDE DEF z, w, n, whole
<1>9. Clean(Said("bytes", z)) \in Seq(Glyphs)
  <2>1. <<id>> \in Seq(TokenKinds)
    BY <1>3, OneOrTwo
  <2>2. z \in Seq(TokenKinds)
    BY <1>1, <2>1 DEF z
  <2>3. Said("bytes", z) \in Seq(Glyphs)
    BY <2>2, SaidFacts
  <2> QED
    BY <2>3, CleanFacts
<1>10. <<>> \in Seq(Glyphs)
  OBVIOUS
<1>11. CASE whole
  <2>1. Settled("bytes", z) /\ Added(s, z) = Said("bytes", z)
    BY <1>8, <1>11 DEF whole, z
  <2>2. q = [new |-> Clean(Said("bytes", z)), advance |-> TRUE]
    BY <1>2, <1>6, <1>7, <1>11, <2>1
  <2>3. q.new = Clean(Said("bytes", z)) /\ q.advance = TRUE
    BY <2>2
  <2> QED
    BY <1>9, <2>1, <2>3 DEF t, z
<1>12. CASE ~ whole
  <2>1. q = [new |-> <<>>, advance |-> FALSE]
    BY <1>2, <1>6, <1>12
  <2>2. q.new = <<>> /\ q.advance = FALSE
    BY <2>1
  <2>3. Silent(Said("bytes", z))
    BY <1>8, <1>12 DEF whole, z
  <2> QED
    BY <1>10, <2>2, <2>3 DEF t, z
<1> QED
  BY <1>11, <1>12

\* A match is one of the stop sequences.
LEMMA MatchIs ==
  ASSUME NEW held, Match(held) = "stop"
  PROVE  \E i \in DOMAIN StopSequences : held = StopSequences[i]
<1> DEFINE begun == {i \in DOMAIN StopSequences : IsPrefix(held, StopSequences[i])}
<1>1. begun \in SUBSET Nat
  BY StopConstants
<1>2. begun # {} /\ StopSequences[Min(begun)] = held
  BY DEF Match
<1>3. begun \subseteq DOMAIN StopSequences
  OBVIOUS
<1> HIDE DEF begun
<1>4. PICK i \in begun : \A j \in begun : i <= j
  BY <1>1, <1>2, LeastNumber
<1>5. Min(begun) \in begun
  BY <1>4 DEF Min
<1> QED
  BY <1>2, <1>3, <1>5

\* The decoder starts with nothing read and nothing pending.
LEMMA StopStarts ==
  ASSUME StopInit, Decoders \subseteq {"bytes"}
  PROVE  StopInv
<1>1. /\ decoder = "bytes" /\ decoder \in Decoders
      /\ token_ids = <<>> /\ prefix_offset = 0 /\ read_offset = 0
      /\ state = <<>> /\ stopped = "no" /\ returned = <<>>
  BY DEF StopInit
<1>2. \A S : <<>> \in Seq(S)
  OBVIOUS
<1>3. <<>> \o <<>> = <<>> /\ Len(<<>>) = 0 /\ SubSeq(<<>>, 1, 0) = <<>> /\ 0 \in 0..0 /\ 0 + 1 = 1
  OBVIOUS
<1>4. StopTypeOK
  BY <1>1, <1>2, <1>3 DEF StopTypeOK
<1>5. TokensRead = <<>> /\ TokensPending = <<>>
  BY <1>1, <1>3 DEF TokensRead, TokensPending
<1>6. Settled("bytes", <<>>)
  <2>1. BytesOf(<<>>) = <<>>
    BY <1>2, CoreFacts
  <2> QED
    BY <2>1, ClosedNothing DEF Settled
<1>7. Said("bytes", <<>>) = <<>> /\ Clean(<<>>) = <<>>
  <2>1. Core("bytes", <<>>) = <<>>
    BY <1>2, CoreJoin
  <2> QED
    BY <1>2, <2>1, SaidFacts, CleanFacts
<1>8. Silent(<<>>)
  BY <1>7 DEF Silent
<1> QED
  BY <1>1, <1>2, <1>3, <1>4, <1>5, <1>6, <1>7, <1>8
  DEF StopInv, StopBeginnings, HiddenStop, HiddenStopDropsOnlyTheJail

\* The tokens after one is appended: what is returned, in the jail and new is the
\* text of what is read then, and what is pending then is silent.
LEMMA StopTokens ==
  ASSUME StopInv, decoder = "bytes", ~ HiddenStop, NEW id \in Tokens, UNCHANGED decoder,
         NEW ids, ids = Append(token_ids, id), NEW q, q = SequenceText(ids),
         token_ids' = ids, Offsets(ids, q.advance)
  PROVE  /\ q.new \in Seq(Glyphs) /\ state \o q.new \in Seq(Glyphs)
         /\ token_ids' \in Seq(Tokens) /\ prefix_offset' \in 0..read_offset' /\ read_offset' \in 0..Len(token_ids')
         /\ Settled(decoder', TokensRead')
         /\ returned \o (state \o q.new) = Clean(Said(decoder', TokensRead'))
         /\ Silent(Said(decoder', TokensPending'))
<1> DEFINE z == TokensPending \o <<id>>
           a == TokensRead
<1>1. /\ a \in Seq(TokenKinds) /\ TokensPending \in Seq(TokenKinds)
      /\ SubSeq(ids, 1, read_offset) = a
      /\ SubSeq(ids, read_offset + 1, Len(ids)) = z
      /\ SubSeq(ids, 1, Len(ids)) = a \o z
      /\ SubSeq(ids, Len(ids) + 1, Len(ids)) = <<>>
      /\ ids \in Seq(Tokens) /\ Len(ids) = Len(token_ids) + 1
  BY TokenParts DEF StopInv
<1>2. /\ q.new \in Seq(Glyphs) /\ q.advance \in BOOLEAN
      /\ q.advance => Settled(decoder, z) /\ q.new = Clean(Said(decoder, z))
      /\ ~ q.advance => q.new = <<>> /\ Silent(Said(decoder, z))
  BY TokenAdded
<1>3. /\ returned \in Seq(Glyphs) /\ state \in Seq(Glyphs)
      /\ Settled(decoder, a) /\ returned \o state = Clean(Said(decoder, a))
  BY DEF StopInv
<1>4. prefix_offset \in 0..read_offset /\ read_offset \in 0..Len(token_ids) /\ Len(token_ids) \in Nat
  BY DEF StopInv, StopTypeOK
<1>5. z \in Seq(TokenKinds)
  <2>1. <<id>> \in Seq(TokenKinds)
    BY KnownDecoders, OneOrTwo
  <2> QED
    BY <1>1, <2>1
<1>6. decoder' = "bytes"
  OBVIOUS
<1> HIDE DEF z, a
<1>7. \A u, v, x \in Seq(Glyphs) : (u \o v) \o x = u \o (v \o x)
  BY ConcatAssociative, SMTT(30)
<1>8. state \o q.new \in Seq(Glyphs) /\ (returned \o state) \o q.new = returned \o (state \o q.new)
  <2> DEFINE new == q.new
  <2>1. new \in Seq(Glyphs)
    BY <1>2
  <2> HIDE DEF new
  <2>2. state \o new \in Seq(Glyphs)
    BY <1>3, <2>1
  <2>3. (returned \o state) \o new = returned \o (state \o new)
    BY <1>3, <1>7, <2>1
  <2> QED
    BY <2>2, <2>3 DEF new
<1>9. \A v \in Seq(Glyphs) : v \o <<>> = v
  OBVIOUS
<1>10. CASE q.advance
  <2>1. prefix_offset' = read_offset /\ read_offset' = Len(ids)
    BY <1>10 DEF Offsets
  <2>2. TokensRead' = a \o z /\ TokensPending' = <<>>
    BY <1>1, <2>1 DEF TokensRead, TokensPending
  <2>3. Settled("bytes", a) /\ Settled("bytes", z)
    BY <1>2, <1>3, <1>10
  <2>4. Settled("bytes", a \o z)
    BY <1>1, <1>5, <2>3, SettledJoin
  <2>5. Said("bytes", a \o z) = Said("bytes", a) \o Said("bytes", z)
    <3>1. Said("bytes", a \o z) = Said("bytes", a) \o Rest("bytes", a, z)
      BY <1>1, <1>5, <2>3, SaidSplit
    <3>2. Said("bytes", z) = Raw("bytes", z)
      BY SaidIs
    <3> QED
      BY <3>1, <3>2 DEF Rest
  <2>6. Clean(Said("bytes", a \o z)) = Clean(Said("bytes", a)) \o Clean(Said("bytes", z))
    <3>1. Said("bytes", a) \in Seq(Glyphs) /\ Said("bytes", z) \in Seq(Glyphs)
      BY <1>1, <1>5, SaidFacts
    <3> QED
      BY <2>5, <3>1, CleanFacts
  <2>7. returned \o (state \o q.new) = Clean(Said("bytes", a \o z))
    BY <1>2, <1>3, <1>8, <1>10, <2>6
  <2>8. Silent(Said("bytes", <<>>))
    <3>1. <<>> \in Seq(TokenKinds) /\ <<>> \in Seq(Glyphs)
      OBVIOUS
    <3>2. Core("bytes", <<>>) = <<>>
      BY <3>1, CoreJoin
    <3>3. Said("bytes", <<>>) = <<>>
      BY <3>1, <3>2, SaidFacts
    <3>4. Clean(<<>>) = <<>>
      BY <3>1, CleanFacts
    <3> QED
      BY <3>3, <3>4 DEF Silent
  <2>9. prefix_offset' \in 0..read_offset' /\ read_offset' \in 0..Len(token_ids')
    BY <1>1, <1>4, <2>1
  <2> QED
    BY <1>1, <1>2, <1>6, <1>8, <2>2, <2>4, <2>7, <2>8, <2>9
<1>11. CASE ~ q.advance
  <2>1. prefix_offset' = prefix_offset /\ read_offset' = read_offset
    BY <1>11 DEF Offsets
  <2>2. TokensRead' = a /\ TokensPending' = z
    BY <1>1, <2>1 DEF TokensRead, TokensPending
  <2>3. returned \o (state \o q.new) = Clean(Said("bytes", a))
    BY <1>2, <1>3, <1>9, <1>11
  <2>4. prefix_offset' \in 0..read_offset' /\ read_offset' \in 0..Len(token_ids')
    BY <1>1, <1>4, <2>1
  <2>5. Settled("bytes", a) /\ Silent(Said("bytes", z))
    BY <1>2, <1>3, <1>11
  <2> QED
    BY <1>1, <1>2, <1>6, <1>8, <2>2, <2>3, <2>4, <2>5
<1> QED
  BY <1>2, <1>10, <1>11

\* The text of all tokens is that of what has been read: the pending ones are silent.
LEMMA AllIsRead ==
  ASSUME StopInv, decoder = "bytes", ~ HiddenStop
  PROVE  returned \o state = AllText
<1> DEFINE a == TokensRead
           t == TokensPending
<1>1. a \in Seq(TokenKinds) /\ t \in Seq(TokenKinds) /\ token_ids = a \o t
  <2> DEFINE k == token_ids
             n == Len(k)
             r == read_offset
  <2>1. k \in Seq(TokenKinds)
    BY KnownDecoders, WiderSeq DEF StopInv, StopTypeOK
  <2>2. r \in 0..n /\ n \in 0..n /\ 0 \in 0..r /\ 0 + 1 = 1
    BY DEF StopInv, StopTypeOK
  <2>3. SubSeq(k, 1, n) = k
    BY <2>1
  <2> HIDE DEF k, r
  <2>4. /\ SubSeq(k, 0 + 1, n) = SubSeq(k, 0 + 1, r) \o SubSeq(k, r + 1, n)
        /\ SubSeq(k, 0 + 1, r) \in Seq(TokenKinds) /\ SubSeq(k, r + 1, n) \in Seq(TokenKinds)
    BY <2>1, <2>2, PartsJoin
  <2> QED
    BY <2>2, <2>3, <2>4 DEF k, r, TokensRead, TokensPending
<1>2. /\ Settled("bytes", a) /\ returned \o state = Clean(Said("bytes", a))
      /\ Clean(Said("bytes", t)) = <<>>
  BY DEF StopInv, Silent
<1>3. AllText = Clean(Said("bytes", a \o t))
  BY <1>1 DEF AllText, TextOf, Said
<1> HIDE DEF a, t
<1>4. Said("bytes", a \o t) = Said("bytes", a) \o Said("bytes", t)
  <2>1. Said("bytes", a \o t) = Said("bytes", a) \o Rest("bytes", a, t)
    BY <1>1, <1>2, SaidSplit
  <2>2. Said("bytes", t) = Raw("bytes", t)
    BY SaidIs
  <2> QED
    BY <2>1, <2>2 DEF Rest
<1>5. Said("bytes", a) \in Seq(Glyphs) /\ Said("bytes", t) \in Seq(Glyphs)
  BY <1>1, SaidFacts
<1>6. /\ Clean(Said("bytes", a \o t)) = Clean(Said("bytes", a)) \o Clean(Said("bytes", t))
      /\ Clean(Said("bytes", a)) \in Seq(Glyphs)
  BY <1>4, <1>5, CleanFacts
<1>7. \A v \in Seq(Glyphs) : v \o <<>> = v
  OBVIOUS
<1> QED
  BY <1>2, <1>3, <1>6, <1>7

\* The jail holds the beginning of a stop sequence when there is a match to wait for.
LEMMA HeldBegins ==
  ASSUME NEW held \in Seq(Glyphs), Match(held) = "held"
  PROVE  held \in StopBeginnings
<1> DEFINE begun == {i \in DOMAIN StopSequences : IsPrefix(held, StopSequences[i])}
<1>1. begun \in SUBSET Nat
  BY StopConstants
<1>2. begun # {} /\ StopSequences[Min(begun)] # held
  BY DEF Match
<1>3. \A i \in begun : i \in DOMAIN StopSequences /\ IsPrefix(held, StopSequences[i])
  OBVIOUS
<1> HIDE DEF begun
<1>4. PICK i \in begun : \A j \in begun : i <= j
  BY <1>1, <1>2, LeastNumber
<1>5. Min(begun) \in begun
  BY <1>4 DEF Min
<1>6. PICK stop : stop = StopSequences[Min(begun)]
  OBVIOUS
<1>7. stop \in Seq(Symbols) /\ stop \in Range(StopSequences) /\ IsPrefix(held, stop) /\ stop # held
  BY <1>2, <1>3, <1>5, <1>6, StopConstants DEF Range
<1>8. PICK n : n = Len(held)
  OBVIOUS
<1>9. n \in Nat /\ Len(stop) \in Nat /\ n <= Len(stop) /\ held = SubSeq(stop, 1, n)
  <2>1. SubSeq(held, 1, Len(held)) = held
    OBVIOUS
  <2> QED
    BY <1>7, <1>8, <2>1 DEF IsPrefix
<1>10. n # Len(stop)
  <2>1. SubSeq(stop, 1, Len(stop)) = stop
    BY <1>7
  <2> QED
    BY <1>7, <1>9, <2>1
<1>11. n \in 0..Len(stop) - 1
  BY <1>9, <1>10
<1> QED
  BY <1>7, <1>9, <1>11 DEF StopBeginnings

\* The last token and those before it.
LEMMA LastToken ==
  ASSUME NEW S, NEW k \in Seq(S), NEW e \in S
  PROVE  Last(Append(k, e)) = e /\ Front(Append(k, e)) = k
<1>1. Append(k, e) \in Seq(S) /\ Len(Append(k, e)) = Len(k) + 1 /\ Len(k) \in Nat
  OBVIOUS
<1>2. Append(k, e)[Len(k) + 1] = e
  OBVIOUS
<1>3. SubSeq(Append(k, e), 1, Len(k)) = k
  OBVIOUS
<1>4. (Len(k) + 1) - 1 = Len(k)
  BY <1>1
<1> QED
  BY <1>1, <1>2, <1>3, <1>4 DEF Last, Front

\* A token keeps the invariant, whether it stops the decoder or is judged.
LEMMA StopStep ==
  ASSUME StopInv, decoder = "bytes", NEW id \in Tokens, AppendTokenId(id)
  PROVE  StopInv'
<1> DEFINE ids == Append(token_ids, id)
           q == SequenceText(ids)
           held == state \o q.new
<1>1. /\ stopped = "no" /\ token_ids' = ids /\ UNCHANGED decoder /\ Offsets(ids, q.advance)
      /\ IF id \in VisibleIds \union HiddenIds THEN StopToken(id, held) ELSE Judge(held)
  BY DEF AppendTokenId
<1>2. /\ q.new \in Seq(Glyphs) /\ held \in Seq(Glyphs)
      /\ token_ids' \in Seq(Tokens) /\ prefix_offset' \in 0..read_offset' /\ read_offset' \in 0..Len(token_ids')
      /\ Settled(decoder', TokensRead')
      /\ returned \o held = Clean(Said(decoder', TokensRead'))
      /\ Silent(Said(decoder', TokensPending'))
  <2>1. ~ HiddenStop
    BY <1>1 DEF HiddenStop
  <2> QED
    BY <1>1, <2>1, StopTokens
<1>3. returned \in Seq(Glyphs) /\ decoder' \in Decoders
  BY <1>1 DEF StopInv, StopTypeOK
<1> HIDE DEF ids, q, held
<1>4. <<>> \in Seq(Glyphs) /\ returned \o held \in Seq(Glyphs) /\ \A v \in Seq(Glyphs) : v \o <<>> = v
  <2>1. held \in Seq(Glyphs)
    BY <1>2
  <2>2. returned \o held \in Seq(Glyphs)
    BY <1>3, <2>1
  <2>3. <<>> \in Seq(Glyphs) /\ \A v \in Seq(Glyphs) : v \o <<>> = v
    OBVIOUS
  <2> QED
    BY <2>2, <2>3
<1>5. /\ Last(token_ids') = id /\ Front(token_ids') = token_ids
      /\ ~ HiddenStop /\ state \in StopBeginnings
  <2>1. token_ids \in Seq(Tokens) /\ state \in StopBeginnings /\ "no" # "token"
    BY <1>1 DEF StopInv, StopTypeOK
  <2> QED
    BY <1>1, <2>1, LastToken DEF HiddenStop, ids
<1>6. CASE id \in VisibleIds \union HiddenIds
  <2>1. stopped' = "token" /\ state' = <<>> /\ returned' = IF id \in HiddenIds THEN returned ELSE returned \o held
    BY <1>1, <1>6 DEF StopToken
  <2>2. StopTypeOK'
    BY <1>2, <1>3, <2>1 DEF StopTypeOK
  <2>3. stopped' # "sequence" /\ stopped' # "no"
    BY <2>1
  <2>4. HiddenStop' <=> id \in HiddenIds
    BY <1>5, <2>1 DEF HiddenStop
  <2>5. CASE id \in HiddenIds
    <3>1. returned \o state = TextOf(token_ids)
      BY <1>5, AllIsRead DEF AllText
    <3>2. TextOf(Front(token_ids))' = TextOf(token_ids)
      BY <1>1, <1>5 DEF TextOf
    <3>3. returned' \o state = TextOf(Front(token_ids))'
      BY <2>1, <2>5, <3>1, <3>2
    <3>4. HiddenStopDropsOnlyTheJail'
      BY <1>5, <3>3 DEF HiddenStopDropsOnlyTheJail, StopBeginnings
    <3>5. returned' \in Seq(Glyphs) /\ state' \in Seq(Glyphs)
      BY <1>3, <1>4, <2>1, <2>5
    <3> QED
      BY <2>2, <2>3, <2>4, <2>5, <3>4, <3>5 DEF StopInv
  <2>6. CASE id \notin HiddenIds
    <3>1. returned' = returned \o held /\ returned' \o state' = returned \o held
      BY <1>4, <2>1, <2>6
    <3>2. HiddenStopDropsOnlyTheJail'
      BY <2>4, <2>6 DEF HiddenStopDropsOnlyTheJail
    <3> QED
      BY <1>2, <1>4, <2>1, <2>2, <2>3, <3>1, <3>2 DEF StopInv
  <2> QED
    BY <2>5, <2>6
<1>7. CASE id \notin VisibleIds \union HiddenIds
  <2>1. Judge(held)
    BY <1>1, <1>7
  <2>2. CASE Match(held) = "stop" /\ stopped' = "sequence" /\ state' = held /\ UNCHANGED returned
    <3>1. \E i \in DOMAIN StopSequences : state' = StopSequences[i]
      BY <2>2, MatchIs
    <3>2. StopTypeOK'
      BY <1>2, <1>3, <2>2 DEF StopTypeOK
    <3> QED
      BY <1>2, <1>3, <2>2, <3>1, <3>2 DEF StopInv, HiddenStop, HiddenStopDropsOnlyTheJail
  <2>3. CASE Match(held) = "held" /\ state' = held /\ UNCHANGED <<stopped, returned>>
    <3>1. StopTypeOK'
      BY <1>1, <1>2, <1>3, <2>3 DEF StopTypeOK
    <3>2. state' \in StopBeginnings'
      BY <1>2, <2>3, HeldBegins DEF StopBeginnings
    <3> QED
      BY <1>1, <1>2, <1>3, <2>3, <3>1, <3>2 DEF StopInv, HiddenStop, HiddenStopDropsOnlyTheJail
  <2>4. CASE Match(held) = "none" /\ state' = <<>> /\ returned' = returned \o held /\ UNCHANGED stopped
    <3>1. StopTypeOK'
      BY <1>1, <1>2, <1>3, <2>4 DEF StopTypeOK
    <3>2. returned' \o state' = returned \o held
      BY <1>4, <2>4
    <3>3. state' \in StopBeginnings'
      BY <2>4 DEF StopBeginnings
    <3> QED
      BY <1>1, <1>2, <1>4, <2>4, <3>1, <3>2, <3>3 DEF StopInv, HiddenStop, HiddenStopDropsOnlyTheJail
  <2> QED
    BY <2>1, <2>2, <2>3, <2>4 DEF Judge
<1> QED
  BY <1>6, <1>7

\* Over a decoder that concatenates bytes, what append_token has returned and
\* what the jail holds are the text of the tokens read, and the pending tokens
\* have none, in every reachable state.
THEOREM StopInvariant ==
  ASSUME Decoders \subseteq {"bytes"}
  PROVE  StopSpec => []StopInv
<1>1. StopInit => StopInv
  BY StopStarts
<1>2. StopInv /\ [StopNext]_stop_vars => StopInv'
  <2> SUFFICES ASSUME StopInv, [StopNext]_stop_vars PROVE StopInv'
    OBVIOUS
  <2>1. decoder = "bytes"
    BY DEF StopInv, StopTypeOK
  <2>2. ASSUME NEW id \in Tokens, AppendTokenId(id) PROVE StopInv'
    BY <2>1, <2>2, StopStep
  <2>3. CASE Close
    BY <2>3
    DEF Close, offsets, StopInv, StopTypeOK, TokensRead, TokensPending, HiddenStop, HiddenStopDropsOnlyTheJail
  <2>4. CASE UNCHANGED stop_vars
    BY <2>4
    DEF stop_vars, offsets, StopInv, StopTypeOK, TokensRead, TokensPending, HiddenStop,
        HiddenStopDropsOnlyTheJail, StopBeginnings, TextOf
  <2> QED
    BY <2>2, <2>3, <2>4 DEF StopNext
<1> QED
  BY <1>1, <1>2, PTL DEF StopSpec

\* The jail loses no character and repeats none, whatever tokens the response has and
\* wherever it stops, but for the beginning of a stop sequence that is in it when a hidden
\* stop token arrives: all other text of the tokens before that one has been returned.
THEOREM NothingIsLost ==
  ASSUME Decoders \subseteq {"bytes"}
  PROVE  StopSpec => []JailLosesNothing
<1>1. StopInv => TextIsKept
  <2>1. StopInv => decoder = "bytes"
    BY DEF StopInv, StopTypeOK
  <2> QED
    BY <2>1, AllIsRead DEF TextIsKept
<1>2. StopInv => HiddenStopDropsOnlyTheJail
  BY DEF StopInv
<1>3. StopInv => JailLosesNothing
  BY <1>1, <1>2 DEF JailLosesNothing
<1> QED
  BY <1>3, StopInvariant, PTL

\* A matched stop sequence is never returned, and all text before it has been.
THEOREM MatchesAreHidden ==
  ASSUME Decoders \subseteq {"bytes"}
  PROVE  StopSpec => []StopSequenceIsHidden
<1>1. StopInv => StopSequenceIsHidden
  <2> SUFFICES ASSUME StopInv, stopped = "sequence"
               PROVE  \E i \in DOMAIN StopSequences : returned \o StopSequences[i] = AllText
    BY DEF StopSequenceIsHidden
  <2>1. decoder = "bytes"
    BY DEF StopInv, StopTypeOK
  <2>2. returned \o state = AllText
    <3>1. ~ HiddenStop
      BY DEF HiddenStop
    <3> QED
      BY <2>1, <3>1, AllIsRead
  <2>3. PICK i \in DOMAIN StopSequences : state = StopSequences[i]
    BY DEF StopInv
  <2> QED
    BY <2>2, <2>3
<1> QED
  BY <1>1, StopInvariant, PTL
=============================================================================
