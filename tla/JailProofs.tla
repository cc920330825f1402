----------------------------- MODULE JailProofs -----------------------------
(***************************************************************************)
(* The jail for any inputs, choices and cuts into chunks.  First what the  *)
(* operators of Jail return: searches, the parser's counts, one chunk's    *)
(* state and emissions, and what delivering them makes of the output.      *)
(* Then JailInv, which says of each choice how its output, its held text   *)
(* and its finish reason go together (Live, and Done when the stream has   *)
(* ended), and the theorems it implies.  Last, LostInv: where no call lies *)
(* across, what was emitted of a choice's text meets what is held of it.   *)
(***************************************************************************)
EXTENDS Jail, RankedRecursion, SequenceTheorems, FiniteSetTheorems, TLAPS

Text == Seq(Letters)

-----------------------------------------------------------------------------
(* Texts, and the places where a marker occurs in one.                     *)

\* The community Min of places is the least of them.
LEMMA LeastPlace ==
  ASSUME NEW S \in SUBSET Nat, S # {}
  PROVE  Min(S) \in S /\ \A x \in S : Min(S) <= x
<1>1. \E x \in S : \A y \in S : x <= y
  BY LeastNumber
<1> QED
  BY <1>1 DEF Min

\* The type, length and letters of a slice.
LEMMA SliceFacts ==
  ASSUME NEW A, NEW t \in Seq(A), NEW a \in Nat \ {0}, NEW b \in Int, b <= Len(t)
  PROVE  /\ SubSeq(t, a, b) \in Seq(A)
         /\ Len(SubSeq(t, a, b)) = IF a <= b THEN b - a + 1 ELSE 0
         /\ \A i \in 1..b - a + 1 : SubSeq(t, a, b)[i] = t[a + i - 1]
<1>1. \A i \in a..b : t[i] \in A
  OBVIOUS
<1> QED
  BY <1>1, SubSeqProperties

\* Before and From cut a text in two.
LEMMA SlicesJoin ==
  ASSUME NEW A, NEW t \in Seq(A), NEW i \in 1..Len(t) + 1
  PROVE  /\ Before(t, i) \in Seq(A) /\ From(t, i) \in Seq(A)
         /\ Before(t, i) \o From(t, i) = t
         /\ Len(Before(t, i)) = i - 1 /\ Len(From(t, i)) = Len(t) + 1 - i
<1>1. Before(t, i) \in Seq(A) /\ From(t, i) \in Seq(A)
  BY SliceFacts DEF Before, From
<1>2. Len(Before(t, i)) = i - 1 /\ Len(From(t, i)) = Len(t) + 1 - i
  BY SliceFacts DEF Before, From
<1> DEFINE k == i - 1
           n == Len(t)
<1>3. k \in 0..n /\ k + 1 = i /\ 1 \in 1..n + 1 /\ k \in 1 - 1..n /\ n \in k..n
  OBVIOUS
<1>4. SubSeq(t, 1, k) \o SubSeq(t, k + 1, n) = SubSeq(t, 1, n)
  <2> HIDE DEF k
  <2> QED
    BY <1>3, ConcatAdjacentSubSeq
<1>5. SubSeq(t, 1, n) = t
  BY SubSeqFull
<1> QED
  BY <1>1, <1>2, <1>3, <1>4, <1>5 DEF Before, From

\* The markers are texts of known length.
LEMMA MarkerTypes ==
  /\ StartMarker \in Text /\ Len(StartMarker) = 3
  /\ EndMarker \in Text /\ Len(EndMarker) = 2
BY DEF StartMarker, EndMarker, Text, Letters

\* Where a pattern can occur.
LEMMA PlaceFacts ==
  ASSUME NEW t \in Text, NEW pattern \in Text, NEW from \in Nat \ {0}
  PROVE  /\ Places(t, pattern, from) \in SUBSET Nat
         /\ \A i \in Places(t, pattern, from) : from <= i /\ i + Len(pattern) <= Len(t) + 1
BY DEF Places, Text

\* What MarkerMatcher makes of a text.
IsMatch(m, t) ==
    /\ m.kind \in {"complete", "partial", "none"}
    /\ m.prefix \in Text /\ m.rest \in Text /\ m.prefix \o m.rest = t
    /\ m.kind = "partial" => IsStrictPrefix(m.rest, StartMarker) /\ m.rest # <<>>
    /\ m.kind = "none" => m.prefix = t /\ m.rest = <<>>

\* MarkerMatcher splits a text in two and holds back no more than a marker's beginning.
LEMMA MatchFacts ==
  ASSUME NEW t \in Text
  PROVE  IsMatch(Match(t), t)
<1>1. t \in Seq(Letters)
  BY DEF Text
<1>2. CASE Occurs(t, StartMarker)
  <2> DEFINE S == Places(t, StartMarker, 1)
             i == Min(S)
  <2>1. S \in SUBSET Nat /\ S # {} /\ \A k \in S : 1 <= k /\ k + 3 <= Len(t) + 1
    BY <1>2, PlaceFacts, MarkerTypes DEF Occurs
  <2>2. i \in S
    <3> HIDE DEF S
    <3> QED
      BY <2>1, LeastPlace
  <2>3. i \in 1..Len(t) + 1
    BY <1>1, <2>1, <2>2
  <2>4. Match(t) = [kind |-> "complete", prefix |-> Before(t, i), rest |-> From(t, i)]
    BY <1>2 DEF Match
  <2> HIDE DEF i
  <2>5. Before(t, i) \in Seq(Letters) /\ From(t, i) \in Seq(Letters) /\ Before(t, i) \o From(t, i) = t
    BY <1>1, <2>3, SlicesJoin
  <2> QED
    BY <2>4, <2>5 DEF IsMatch, Text
<1>3. CASE ~ Occurs(t, StartMarker) /\ PartialPlaces(t) # {}
  <2> DEFINE S == PartialPlaces(t)
             i == Min(S)
  <2>1. S \in SUBSET Nat /\ S # {} /\ S \in SUBSET (1..Len(t))
    BY <1>1, <1>3 DEF PartialPlaces
  <2>2. i \in S
    <3> HIDE DEF S
    <3> QED
      BY <2>1, LeastPlace
  <2>3. i \in 1..Len(t) /\ IsStrictPrefix(From(t, i), StartMarker) /\ i \in 1..Len(t) + 1
    BY <1>1, <2>2 DEF PartialPlaces
  <2>4. Match(t) = [kind |-> "partial", prefix |-> Before(t, i), rest |-> From(t, i)]
    BY <1>3 DEF Match
  <2> HIDE DEF i
  <2>5. /\ Before(t, i) \in Seq(Letters) /\ From(t, i) \in Seq(Letters) /\ Before(t, i) \o From(t, i) = t
        /\ Len(From(t, i)) = Len(t) + 1 - i
    BY <1>1, <2>3, SlicesJoin
  <2>6. From(t, i) # <<>>
    BY <1>1, <2>3, <2>5
  <2> QED
    BY <2>3, <2>4, <2>5, <2>6 DEF IsMatch, Text
<1>4. CASE ~ Occurs(t, StartMarker) /\ PartialPlaces(t) = {}
  <2>1. Match(t) = [kind |-> "none", prefix |-> t, rest |-> <<>>]
    BY <1>4 DEF Match
  <2>2. t \o <<>> = t /\ <<>> \in Seq(Letters)
    BY <1>1, ConcatEmptySeq
  <2> QED
    BY <1>1, <2>1, <2>2 DEF IsMatch, Text
<1> QED
  BY <1>2, <1>3, <1>4

\* The empty text has no marker and may begin one.
LEMMA NoMarkerYet ==
  IsStrictPrefix(<<>>, StartMarker)
BY DEF IsStrictPrefix, IsPrefix, StartMarker

-----------------------------------------------------------------------------
(* The family's parser, whose functions go through a text from left to     *)
(* right.                                                                  *)

\* A function that takes its value at a place from that at a later one exists.
LEMMA TextRecursion ==
  ASSUME NEW n \in Nat, NEW V, NEW B \in SUBSET (1..n + 1), NEW base \in [1..n + 1 -> V],
         NEW later \in [1..n + 1 -> 1..n + 1], NEW step \in [(1..n + 1) \X V -> V],
         \A i \in (1..n + 1) \ B : i < later[i]
  PROVE  \E g : Recursive(g, 1..n + 1, V, B, base, later, step)
<1> DEFINE D == 1..n + 1
           rank == [i \in D |-> (n + 1) - i]
<1>1. rank \in [D -> 0..n] /\ B \in SUBSET D /\ base \in [D -> V] /\ later \in [D -> D]
      /\ step \in [D \X V -> V]
  OBVIOUS
<1>2. \A i \in D \ B : rank[later[i]] < rank[i]
  OBVIOUS
<1>3. \E g : Recursive(g, D, V, B, base, later, step)
  <2> HIDE DEF D, rank
  <2> QED
    BY <1>1, <1>2, RecursionExists
<1> QED
  BY <1>3

\* The end of the first block that starts at or after a place.
NextEnd(t, i) == Min(Places(t, EndMarker, i)) + Len(EndMarker)

\* A block ends after it starts, within the text.
LEMMA NextEndFacts ==
  ASSUME NEW t \in Text, NEW i \in Nat \ {0}, Places(t, EndMarker, i) # {}
  PROVE  NextEnd(t, i) \in i + 2..Len(t) + 1
<1> DEFINE S == Places(t, EndMarker, i)
           least == Min(S)
<1>1. S \in SUBSET Nat /\ S # {} /\ \A k \in S : i <= k /\ k + 2 <= Len(t) + 1
  BY PlaceFacts, MarkerTypes
<1>2. least \in S
  <2> HIDE DEF S
  <2> QED
    BY <1>1, LeastPlace
<1>3. NextEnd(t, i) = least + 2
  BY MarkerTypes DEF NextEnd
<1>4. Len(t) \in Nat /\ least \in Nat /\ i <= least /\ least + 2 <= Len(t) + 1
  <2> HIDE DEF S, least
  <2> QED
    BY <1>1, <1>2 DEF Text
<1> HIDE DEF least
<1> QED
  BY <1>3, <1>4

\* A block starts at the place and ends somewhere.
BlockAt(t, i) == i \in Places(t, StartMarker, i) /\ Places(t, EndMarker, i) # {}

AfterEquation(after, t) ==
    after = [i \in 1..Len(t) + 1 |->
                IF i \in Places(t, StartMarker, i) /\ Places(t, EndMarker, i) # {}
                THEN after[Min(Places(t, EndMarker, i)) + Len(EndMarker)] ELSE i - 1]

After(t) == CHOOSE after : AfterEquation(after, t)

IsAfter(after, t) ==
    /\ after \in [1..Len(t) + 1 -> 0..Len(t)]
    /\ \A i \in 1..Len(t) + 1 : ~ BlockAt(t, i) => after[i] = i - 1
    /\ \A i \in 1..Len(t) + 1 : BlockAt(t, i) => after[i] = after[NextEnd(t, i)]

\* EndPosition, its recursive function named.
LEMMA EndPositionIsAfter ==
  ASSUME NEW t
  PROVE  EndPosition(t) = After(t)[NextEnd(t, 1)]
BY Zenon DEF EndPosition, After, AfterEquation, NextEnd

\* That function exists, and stays in the text.
LEMMA AfterFacts ==
  ASSUME NEW t \in Text
  PROVE  IsAfter(After(t), t)
<1> DEFINE n == Len(t)
           D == 1..n + 1
           V == 0..n
           B == {i \in D : ~ BlockAt(t, i)}
           base == [i \in D |-> i - 1]
           later == [i \in D |-> IF i \in B THEN i ELSE NextEnd(t, i)]
           step == [a \in D \X V |-> a[2]]
<1>1. n \in Nat
  BY DEF Text
<1>2. \A i \in D \ B : NextEnd(t, i) \in D /\ i < NextEnd(t, i)
  <2>1. ASSUME NEW i \in D \ B PROVE NextEnd(t, i) \in i + 2..n + 1
    BY <2>1, <1>1, NextEndFacts DEF BlockAt
  <2> QED
    BY <1>1, <2>1
<1>3. /\ B \in SUBSET (1..n + 1) /\ base \in [1..n + 1 -> V] /\ step \in [(1..n + 1) \X V -> V]
      /\ later \in [1..n + 1 -> 1..n + 1]
  BY <1>1, <1>2
<1>4. \A i \in (1..n + 1) \ B : i < later[i]
  BY <1>2
<1>5. PICK g : Recursive(g, D, V, B, base, later, step)
  <2> HIDE DEF n, V, B, base, later, step
  <2>1. \E g : Recursive(g, 1..n + 1, V, B, base, later, step)
    BY <1>1, <1>3, <1>4, TextRecursion
  <2> QED
    BY <2>1
<1>6. g \in [D -> V] /\ \A i \in D : g[i] = IF i \in B THEN base[i] ELSE step[<<i, g[later[i]]>>]
  BY <1>5 DEF Recursive
<1>7. \A i \in D : g[i] = IF BlockAt(t, i) THEN g[NextEnd(t, i)] ELSE i - 1
  <2>1. ASSUME NEW i \in D, BlockAt(t, i) PROVE g[i] = g[NextEnd(t, i)]
    <3>1. i \notin B /\ later[i] = NextEnd(t, i) /\ NextEnd(t, i) \in D
      BY <2>1, <1>2
    <3>2. g[NextEnd(t, i)] \in V
      BY <3>1, <1>6
    <3>3. step[<<i, g[NextEnd(t, i)]>>] = g[NextEnd(t, i)]
      BY <3>2
    <3> QED
      BY <1>6, <3>1, <3>3
  <2>2. ASSUME NEW i \in D, ~ BlockAt(t, i) PROVE g[i] = i - 1
    BY <2>2, <1>6
  <2> QED
    BY <2>1, <2>2
<1>8. \E after : AfterEquation(after, t)
  <2>1. g = [i \in D |-> IF BlockAt(t, i) THEN g[NextEnd(t, i)] ELSE i - 1]
    BY <1>6, <1>7
  <2> QED
    BY <2>1 DEF AfterEquation, BlockAt, NextEnd
<1>9. AfterEquation(After(t), t)
  BY <1>8 DEF After
<1> DEFINE a == After(t)
<1>10. /\ DOMAIN a = D
       /\ \A i \in D : a[i] = IF BlockAt(t, i) THEN a[NextEnd(t, i)] ELSE i - 1
  BY <1>9 DEF AfterEquation, BlockAt, NextEnd
<1>11. \A i \in D : a[i] \in V
  <2> DEFINE G == {i \in D : a[i] \in V}
             rank == [i \in D |-> (n + 1) - i]
  <2>1. rank \in [D -> Nat]
    BY <1>1
  <2>2. ASSUME NEW i \in D, \A j \in D : rank[j] < rank[i] => j \in G
        PROVE  i \in G
    <3>1. CASE BlockAt(t, i)
      <4>1. NextEnd(t, i) \in D /\ i < NextEnd(t, i)
        BY <3>1, <1>2
      <4>2. rank[NextEnd(t, i)] < rank[i]
        BY <4>1, <1>1
      <4>3. a[NextEnd(t, i)] \in V
        BY <2>2, <4>1, <4>2
      <4>4. a[i] = a[NextEnd(t, i)]
        BY <3>1, <1>10
      <4> QED
        BY <4>3, <4>4
    <3>2. CASE ~ BlockAt(t, i)
      <4>1. a[i] = i - 1
        BY <3>2, <1>10
      <4>2. i - 1 \in V
        BY <1>1
      <4> QED
        BY <4>1, <4>2
    <3> QED
      BY <3>1, <3>2
  <2>3. \A i \in D : (\A j \in D : rank[j] < rank[i] => j \in G) => i \in G
    BY <2>2
  <2>4. \A i \in D : i \in G
    <3> HIDE DEF D, G, rank
    <3> QED
      BY <2>1, <2>3, RankInduction
  <2> QED
    BY <2>4
<1> HIDE DEF a
<1>12. a \in [D -> V]
  <2>1. a = [i \in D |-> a[i]]
    BY <1>9 DEF AfterEquation, a
  <2> QED
    BY <1>11, <2>1
<1>13. IsAfter(a, t)
  BY <1>10, <1>12 DEF IsAfter
<1> QED
  BY <1>13 DEF a

\* The calls end within the text that has an end marker.
LEMMA EndPositionRange ==
  ASSUME NEW t \in Text, Places(t, EndMarker, 1) # {}
  PROVE  EndPosition(t) \in 0..Len(t)
<1>1. NextEnd(t, 1) \in 1..Len(t) + 1
  BY NextEndFacts
<1>2. After(t) \in [1..Len(t) + 1 -> 0..Len(t)]
  BY AfterFacts DEF IsAfter
<1>3. After(t)[NextEnd(t, 1)] \in 0..Len(t)
  BY <1>1, <1>2
<1> QED
  BY <1>3, EndPositionIsAfter

\* The normal text is a text.
LEMMA NormalTextType ==
  ASSUME NEW t \in Text
  PROVE  NormalText(t) \in Text
<1>1. CASE Occurs(t, StartMarker)
  <2> DEFINE S == Places(t, StartMarker, 1)
             i == Min(S)
  <2>1. S \in SUBSET Nat /\ S # {} /\ \A k \in S : 1 <= k /\ k + 3 <= Len(t) + 1
    BY <1>1, PlaceFacts, MarkerTypes DEF Occurs
  <2>2. i \in S
    <3> HIDE DEF S
    <3> QED
      BY <2>1, LeastPlace
  <2>3. NormalText(t) = Before(t, i)
    BY <1>1 DEF NormalText
  <2>4. i \in Nat /\ i - 1 \in Int /\ i - 1 <= Len(t) /\ t \in Seq(Letters) /\ 1 \in Nat \ {0}
    BY <2>1, <2>2 DEF Text
  <2> HIDE DEF i
  <2>5. SubSeq(t, 1, i - 1) \in Seq(Letters)
    BY <2>4, SliceFacts
  <2> QED
    BY <2>3, <2>5 DEF Before, Text
<1> QED
  BY <1>1 DEF NormalText

\* The next block at or after a place, if there is a whole one.
Opening(t, i) == Min(Places(t, StartMarker, i)) + Len(StartMarker)

Closed(t, i) == Places(t, StartMarker, i) # {} /\ Places(t, EndMarker, Opening(t, i)) # {}

CallsEquation(from, t) ==
    from = [i \in 1..Len(t) + 1 |->
               IF Places(t, StartMarker, i) = {} THEN 0
               ELSE IF Places(t, EndMarker, Min(Places(t, StartMarker, i)) + Len(StartMarker)) = {} THEN 0
               ELSE 1 + from[Min(Places(t, EndMarker, Min(Places(t, StartMarker, i)) + Len(StartMarker)))
                             + Len(EndMarker)]]

Calls(t) == CHOOSE from : CallsEquation(from, t)

IsCalls(from, t) ==
    /\ from \in [1..Len(t) + 1 -> Nat]
    /\ \A i \in 1..Len(t) + 1 : ~ Closed(t, i) => from[i] = 0
    /\ \A i \in 1..Len(t) + 1 : Closed(t, i) => from[i] = 1 + from[NextEnd(t, Opening(t, i))]

\* ClosedCalls, its recursive function named.
LEMMA ClosedCallsIsCalls ==
  ASSUME NEW t
  PROVE  ClosedCalls(t) = Calls(t)[1]
BY Zenon DEF ClosedCalls, Calls, CallsEquation

\* The next block opens in the text.
LEMMA OpeningFacts ==
  ASSUME NEW t \in Text, NEW i \in Nat \ {0}, Places(t, StartMarker, i) # {}
  PROVE  Opening(t, i) \in i + 3..Len(t) + 1
<1> DEFINE S == Places(t, StartMarker, i)
           least == Min(S)
<1>1. S \in SUBSET Nat /\ S # {} /\ \A k \in S : i <= k /\ k + 3 <= Len(t) + 1
  BY PlaceFacts, MarkerTypes
<1>2. least \in S
  <2> HIDE DEF S
  <2> QED
    BY <1>1, LeastPlace
<1>3. Opening(t, i) = least + 3
  BY MarkerTypes DEF Opening
<1>4. Len(t) \in Nat /\ least \in Nat /\ i <= least /\ least + 3 <= Len(t) + 1
  <2> HIDE DEF S, least
  <2> QED
    BY <1>1, <1>2 DEF Text
<1> HIDE DEF least
<1> QED
  BY <1>3, <1>4

\* A whole block ends in the text.
LEMMA ClosedFacts ==
  ASSUME NEW t \in Text, NEW i \in 1..Len(t) + 1, Closed(t, i)
  PROVE  /\ NextEnd(t, Opening(t, i)) \in 1..Len(t) + 1
         /\ i < NextEnd(t, Opening(t, i))
<1>1. Opening(t, i) \in i + 3..Len(t) + 1
  BY OpeningFacts DEF Closed
<1> DEFINE k == Opening(t, i)
<1>2. k \in Nat \ {0} /\ i < k /\ i \in Nat
  BY <1>1
<1>3. Places(t, EndMarker, k) # {}
  BY DEF Closed
<1> HIDE DEF k
<1>4. NextEnd(t, k) \in k + 2..Len(t) + 1
  BY <1>2, <1>3, NextEndFacts
<1>5. NextEnd(t, k) \in 1..Len(t) + 1 /\ i < NextEnd(t, k)
  BY <1>2, <1>4
<1> QED
  BY <1>5 DEF k

\* The function exists, and counts.
LEMMA CallsFacts ==
  ASSUME NEW t \in Text
  PROVE  IsCalls(Calls(t), t)
<1> DEFINE n == Len(t)
           D == 1..n + 1
           next(i) == NextEnd(t, Opening(t, i))
           B == {i \in D : ~ Closed(t, i)}
           base == [i \in D |-> 0]
           later == [i \in D |-> IF i \in B THEN i ELSE next(i)]
           step == [a \in D \X Nat |-> 1 + a[2]]
<1>1. n \in Nat
  BY DEF Text
<1>2. \A i \in D \ B : next(i) \in D /\ i < next(i)
  BY ClosedFacts
<1>3. /\ B \in SUBSET (1..n + 1) /\ base \in [1..n + 1 -> Nat] /\ step \in [(1..n + 1) \X Nat -> Nat]
      /\ later \in [1..n + 1 -> 1..n + 1]
  BY <1>1, <1>2
<1>4. \A i \in (1..n + 1) \ B : i < later[i]
  BY <1>2
<1>5. PICK g : Recursive(g, D, Nat, B, base, later, step)
  <2> HIDE DEF n, B, base, later, step
  <2>1. \E g : Recursive(g, 1..n + 1, Nat, B, base, later, step)
    BY <1>1, <1>3, <1>4, TextRecursion
  <2> QED
    BY <2>1
<1>6. g \in [D -> Nat] /\ \A i \in D : g[i] = IF i \in B THEN base[i] ELSE step[<<i, g[later[i]]>>]
  BY <1>5 DEF Recursive
<1>7. \A i \in D : g[i] = IF Closed(t, i) THEN 1 + g[next(i)] ELSE 0
  <2>1. ASSUME NEW i \in D, Closed(t, i) PROVE g[i] = 1 + g[next(i)]
    <3>1. i \notin B /\ later[i] = next(i) /\ next(i) \in D
      BY <2>1, <1>2
    <3>2. g[next(i)] \in Nat
      BY <3>1, <1>6
    <3>3. step[<<i, g[next(i)]>>] = 1 + g[next(i)]
      BY <3>2
    <3> QED
      BY <1>6, <3>1, <3>3
  <2>2. ASSUME NEW i \in D, ~ Closed(t, i) PROVE g[i] = 0
    BY <2>2, <1>6
  <2> QED
    BY <2>1, <2>2
<1>8. \E from : CallsEquation(from, t)
  <2>1. g = [i \in D |-> IF Closed(t, i) THEN 1 + g[next(i)] ELSE 0]
    BY <1>6, <1>7
  <2> QED
    BY <2>1 DEF CallsEquation, Closed, Opening, NextEnd
<1>9. CallsEquation(Calls(t), t)
  BY <1>8 DEF Calls
<1> DEFINE a == Calls(t)
<1>10. /\ a = [i \in D |-> a[i]]
       /\ \A i \in D : a[i] = IF Closed(t, i) THEN 1 + a[next(i)] ELSE 0
  BY <1>9 DEF CallsEquation, Closed, Opening, NextEnd
<1> HIDE DEF a
<1>11. \A i \in D : a[i] \in Nat
  <2> DEFINE G == {i \in D : a[i] \in Nat}
             rank == [i \in D |-> (n + 1) - i]
  <2>1. rank \in [D -> Nat]
    BY <1>1
  <2>2. ASSUME NEW i \in D, \A j \in D : rank[j] < rank[i] => j \in G
        PROVE  i \in G
    <3>1. CASE Closed(t, i)
      <4>1. next(i) \in D /\ i < next(i)
        BY <3>1, <1>2
      <4>2. rank[next(i)] < rank[i]
        BY <4>1, <1>1
      <4>3. a[next(i)] \in Nat
        BY <2>2, <4>1, <4>2
      <4>4. a[i] = 1 + a[next(i)]
        BY <3>1, <1>10
      <4> QED
        BY <4>3, <4>4
    <3>2. CASE ~ Closed(t, i)
      <4>1. a[i] = 0
        BY <3>2, <1>10
      <4> QED
        BY <4>1
    <3> QED
      BY <3>1, <3>2
  <2>3. \A i \in D : (\A j \in D : rank[j] < rank[i] => j \in G) => i \in G
    BY <2>2
  <2>4. \A i \in D : i \in G
    <3> HIDE DEF D, G, rank
    <3> QED
      BY <2>1, <2>3, RankInduction
  <2> QED
    BY <2>4
<1>12. a \in [D -> Nat]
  BY <1>10, <1>11
<1>13. IsCalls(a, t)
  BY <1>10, <1>12 DEF IsCalls
<1> QED
  BY <1>13 DEF a

\* The parser returns numbers of calls.
LEMMA CallCounts ==
  ASSUME NEW t \in Text
  PROVE  ClosedCalls(t) \in Nat /\ RecoveredCalls(t) \in Nat
<1>1. Calls(t) \in [1..Len(t) + 1 -> Nat] /\ 1 \in 1..Len(t) + 1
  BY CallsFacts DEF IsCalls, Text
<1>2. ClosedCalls(t) \in Nat
  BY <1>1, ClosedCallsIsCalls
<1> QED
  BY <1>2 DEF RecoveredCalls

-----------------------------------------------------------------------------
(* One chunk of one choice.                                                *)

Reasons == EngineReasons \union {None}
Kinds == {"pass", "call", "trailing"}

States ==
    [is_jailed : BOOLEAN, accumulated : Text, partial : Text, searched : Nat,
     finish : Reasons, reasoning : Nat]

Emissions == [kind : Kinds, text : Text, calls : Nat, reasoning : Nat, finish : Reasons]

Results == [state : States, emissions : Seq(Emissions)]

\* A jail is not searched yet or has no end marker.
Settled(s) ==
    IF s.is_jailed
    THEN /\ s.partial = <<>>
         /\ s.searched = 0 \/ (s.searched = Len(s.accumulated) /\ ~ Occurs(s.accumulated, EndMarker))
    ELSE s.accumulated = <<>> /\ s.searched = 0 /\ IsStrictPrefix(s.partial, StartMarker)

\* A jail whose searched part has no end marker, though what was added may have.
Unsearched(s) ==
    /\ s.is_jailed /\ s.partial = <<>> /\ s.searched <= Len(s.accumulated)
    /\ \A i \in Places(s.accumulated, EndMarker, 1) : s.searched < i + 1

\* No jail and nothing held.
Empty(s) == ~ s.is_jailed /\ s.accumulated = <<>> /\ s.partial = <<>> /\ s.searched = 0

\* The emissions before the finish reason and the reasoning are put on them.
Bare(es) == \A i \in 1..Len(es) : es[i].reasoning = 0 /\ es[i].finish = None

\* Emissions of the first bucket only.
AllPass(es) == \A i \in 1..Len(es) : es[i].kind = "pass"

\* The buckets of apply() keep the order of such emissions.
InOrder(es) ==
    \E a \in 0..Len(es) : \E b \in a..Len(es) : \A i \in 1..Len(es) :
        es[i].kind = IF i <= a THEN "pass" ELSE IF i <= b THEN "call" ELSE "trailing"

\* An emission as the code makes it has neither reasoning nor finish reason.
LEMMA BareEmission ==
  ASSUME NEW kind \in Kinds, NEW t \in Text, NEW calls \in Nat
  PROVE  LET e == Emission(kind, t, calls)
         IN  /\ e \in Emissions /\ e.kind = kind /\ e.text = t /\ e.calls = calls
             /\ e.reasoning = 0 /\ e.finish = None
BY DEF Emission, Emissions, Reasons

\* What appending an emission changes.
LEMMA EmitFacts ==
  ASSUME NEW r \in Results, NEW e \in Emissions
  PROVE  /\ Emit(r, e) \in Results /\ Emit(r, e).state = r.state
         /\ Emit(r, e).emissions = Append(r.emissions, e)
         /\ Emit(r, e).emissions # <<>>
BY DEF Emit, Results

\* Emissions of the kinds a chunk makes, one after the other, stay in order.
LEMMA AppendOrder ==
  ASSUME NEW es \in Seq(Emissions), NEW e \in Emissions
  PROVE  /\ Bare(es) /\ e.reasoning = 0 /\ e.finish = None => Bare(Append(es, e))
         /\ AllPass(es) /\ e.kind = "pass" => AllPass(Append(es, e))
         /\ AllPass(es) => InOrder(es)
         /\ AllPass(es) /\ e.kind = "call" => InOrder(Append(es, e))
         /\ InOrder(es) /\ e.kind = "trailing" => InOrder(Append(es, e))
<1> DEFINE f == Append(es, e)
           n == Len(es)
<1>1. /\ f \in Seq(Emissions) /\ Len(f) = n + 1 /\ n \in Nat /\ f[n + 1] = e
      /\ \A i \in 1..n : f[i] = es[i]
  OBVIOUS
<1> HIDE DEF f, n
<1>2. \A i \in 1..n + 1 : i \in 1..n \/ i = n + 1
  BY <1>1
<1>3. Bare(es) /\ e.reasoning = 0 /\ e.finish = None => Bare(f)
  BY <1>1, <1>2 DEF Bare, n
<1>4. AllPass(es) /\ e.kind = "pass" => AllPass(f)
  BY <1>1, <1>2 DEF AllPass, n
<1>5. ASSUME AllPass(es) PROVE InOrder(es)
  <2>1. \A i \in 1..n : i <= n /\ es[i].kind = "pass"
    BY <1>1, <1>5 DEF AllPass, n
  <2>2. n \in 0..n /\ n \in n..n
    BY <1>1
  <2> QED
    BY <2>1, <2>2 DEF InOrder, n
<1>6. ASSUME AllPass(es), e.kind = "call" PROVE InOrder(f)
  <2>1. \A i \in 1..n + 1 : f[i].kind = IF i <= n THEN "pass" ELSE IF i <= n + 1 THEN "call" ELSE "trailing"
    BY <1>1, <1>2, <1>6 DEF AllPass, n
  <2>2. n \in 0..n + 1 /\ n + 1 \in n..n + 1
    BY <1>1
  <2> QED
    BY <1>1, <2>1, <2>2, ZenonT(30) DEF InOrder
<1>7. ASSUME InOrder(es), e.kind = "trailing" PROVE InOrder(f)
  <2>1. PICK a \in 0..n : \E b \in a..n : \A i \in 1..n :
          es[i].kind = IF i <= a THEN "pass" ELSE IF i <= b THEN "call" ELSE "trailing"
    BY <1>7 DEF InOrder, n
  <2>2. PICK b \in a..n : \A i \in 1..n :
          es[i].kind = IF i <= a THEN "pass" ELSE IF i <= b THEN "call" ELSE "trailing"
    BY <2>1
  <2>3. a \in 0..n + 1 /\ b \in a..n + 1 /\ ~ (n + 1 <= a) /\ ~ (n + 1 <= b)
    BY <1>1
  <2>4. \A i \in 1..n + 1 : f[i].kind = IF i <= a THEN "pass" ELSE IF i <= b THEN "call" ELSE "trailing"
    BY <1>1, <1>2, <1>7, <2>2, <2>3
  <2>5. \A i \in 1..Len(f) : f[i].kind = IF i <= a THEN "pass" ELSE IF i <= b THEN "call" ELSE "trailing"
    BY <1>1, <2>4
  <2>6. a \in 0..Len(f) /\ b \in a..Len(f)
    BY <1>1, <2>3
  <2> QED
    BY <2>5, <2>6, Zenon DEF InOrder
<1> QED
  BY <1>3, <1>4, <1>5, <1>6, <1>7 DEF f

\* What a chunk makes of a choice's state s before Normalize.
IsOutcome(r, s) ==
    /\ r \in Results /\ Settled(r.state)
    /\ r.state.finish = s.finish /\ r.state.reasoning = s.reasoning
    /\ Bare(r.emissions) /\ InOrder(r.emissions)

\* The same of a text, which may be empty.
LEMMA EmitTextFacts ==
  ASSUME NEW r \in Results, NEW kind \in Kinds, NEW t \in Text
  PROVE  LET x == EmitText(r, kind, t)
         IN  /\ x \in Results /\ x.state = r.state
             /\ Bare(r.emissions) => Bare(x.emissions)
             /\ kind = "pass" /\ AllPass(r.emissions) => AllPass(x.emissions)
             /\ kind = "trailing" /\ InOrder(r.emissions) => InOrder(x.emissions)
             /\ t # <<>> \/ r.emissions # <<>> => x.emissions # <<>>
<1> DEFINE e == Emission(kind, t, 0)
<1>1. e \in Emissions /\ e.kind = kind /\ e.reasoning = 0 /\ e.finish = None
  BY BareEmission
<1>2. r.emissions \in Seq(Emissions)
  BY DEF Results
<1>3. CASE t = <<>>
  BY <1>3 DEF EmitText
<1>4. CASE t # <<>>
  <2>1. EmitText(r, kind, t) = Emit(r, e)
    BY <1>4 DEF EmitText
  <2> HIDE DEF e
  <2>2. /\ Emit(r, e) \in Results /\ Emit(r, e).state = r.state
        /\ Emit(r, e).emissions = Append(r.emissions, e) /\ Emit(r, e).emissions # <<>>
    BY <1>1, EmitFacts
  <2>3. /\ Bare(r.emissions) => Bare(Append(r.emissions, e))
        /\ kind = "pass" /\ AllPass(r.emissions) => AllPass(Append(r.emissions, e))
        /\ kind = "trailing" /\ InOrder(r.emissions) => InOrder(Append(r.emissions, e))
    BY <1>1, <1>2, AppendOrder
  <2> QED
    BY <2>1, <2>2, <2>3
<1> QED
  BY <1>3, <1>4

\* The three ways to change what is held.
LEMMA HoldingFacts ==
  ASSUME NEW r \in Results, NEW t \in Text
  PROVE  /\ Hold(r, t) \in Results /\ Hold(r, t).emissions = r.emissions
         /\ Hold(r, t).state = [r.state EXCEPT !.partial = t]
         /\ BeginJail(r, t) \in Results /\ BeginJail(r, t).emissions = r.emissions
         /\ BeginJail(r, t).state
               = [r.state EXCEPT !.is_jailed = TRUE, !.accumulated = t, !.partial = <<>>, !.searched = 0]
         /\ EndJail(r) \in Results /\ EndJail(r).emissions = r.emissions
         /\ EndJail(r).state = [r.state EXCEPT !.is_jailed = FALSE, !.accumulated = <<>>, !.searched = 0]
<1>1. <<>> \in Text
  BY DEF Text
<1>2. r = [state |-> r.state, emissions |-> r.emissions] /\ r.state \in States /\ r.emissions \in Seq(Emissions)
  BY DEF Results
<1>3. /\ [r.state EXCEPT !.partial = t] \in States
      /\ [r.state EXCEPT !.is_jailed = TRUE, !.accumulated = t, !.partial = <<>>, !.searched = 0] \in States
      /\ [r.state EXCEPT !.is_jailed = FALSE, !.accumulated = <<>>, !.searched = 0] \in States
  BY <1>1, <1>2 DEF States
<1>4. Hold(r, t) = [state |-> [r.state EXCEPT !.partial = t], emissions |-> r.emissions]
  BY <1>2 DEF Hold
<1>5. BeginJail(r, t) =
        [state |-> [r.state EXCEPT !.is_jailed = TRUE, !.accumulated = t, !.partial = <<>>, !.searched = 0],
         emissions |-> r.emissions]
  BY <1>2 DEF BeginJail, States
<1>6. EndJail(r) =
        [state |-> [r.state EXCEPT !.is_jailed = FALSE, !.accumulated = <<>>, !.searched = 0],
         emissions |-> r.emissions]
  BY <1>2 DEF EndJail, States
<1> QED
  BY <1>2, <1>3, <1>4, <1>5, <1>6 DEF Results

\* What follows completed calls is emitted, held or jailed again.
LEMMA TrailingFacts ==
  ASSUME NEW r \in Results, Empty(r.state), Bare(r.emissions), InOrder(r.emissions),
         NEW content \in Text
  PROVE  /\ IsOutcome(HandleTrailing(r, content), r.state)
         /\ r.emissions # <<>> => HandleTrailing(r, content).emissions # <<>>
<1> DEFINE text == r.state.partial \o content
           m == Match(text)
           clear == Hold(r, <<>>)
           head == EmitText(clear, "trailing", m.prefix)
           x == HandleTrailing(r, content)
<1> SUFFICES IsOutcome(x, r.state) /\ (r.emissions # <<>> => x.emissions # <<>>)
  OBVIOUS
<1>1. /\ x = IF content = <<>> THEN r
             ELSE IF m.kind = "complete" THEN BeginJail(head, m.rest)
             ELSE IF m.kind = "partial" THEN Hold(head, m.rest)
             ELSE IF ShouldStartJail(text) THEN BeginJail(clear, text)
             ELSE EmitText(clear, "trailing", text)
  BY DEF HandleTrailing
<1>2. r.state \in States /\ <<>> \in Text /\ r.state.partial \in Text
  BY DEF Results, States, Text
<1>3. text \in Text
  BY <1>2, ConcatProperties DEF Text
<1>4. IsMatch(m, text)
  <2> HIDE DEF text
  <2> QED
    BY <1>3, MatchFacts
<1>5. /\ m.prefix \in Text /\ m.rest \in Text
      /\ m.kind = "partial" => IsStrictPrefix(m.rest, StartMarker)
  BY <1>4 DEF IsMatch
<1>6. clear \in Results /\ clear.emissions = r.emissions /\ clear.state = [r.state EXCEPT !.partial = <<>>]
  BY <1>2, HoldingFacts
<1> HIDE DEF text, m, clear, x
<1>7. clear.state \in States /\ Empty(clear.state)
      /\ clear.state.finish = r.state.finish /\ clear.state.reasoning = r.state.reasoning
  BY <1>2, <1>6 DEF Empty, States, Results
<1>8. /\ head \in Results /\ head.state = clear.state /\ Bare(head.emissions) /\ InOrder(head.emissions)
      /\ r.emissions # <<>> => head.emissions # <<>>
  BY <1>5, <1>6, EmitTextFacts DEF Kinds
<1> HIDE DEF head
<1>9. CASE content = <<>>
  BY <1>1, <1>9, NoMarkerYet DEF IsOutcome, Settled, Empty
<1>10. CASE content # <<>> /\ m.kind = "complete"
  <2>1. x = BeginJail(head, m.rest)
    BY <1>1, <1>10
  <2>2. /\ x \in Results /\ x.emissions = head.emissions
        /\ x.state = [head.state EXCEPT
                         !.is_jailed = TRUE, !.accumulated = m.rest, !.partial = <<>>, !.searched = 0]
    BY <1>5, <1>8, <2>1, HoldingFacts
  <2> QED
    BY <1>7, <1>8, <2>2 DEF IsOutcome, Settled, States
<1>11. CASE content # <<>> /\ m.kind = "partial"
  <2>1. x = Hold(head, m.rest)
    BY <1>1, <1>11
  <2>2. x \in Results /\ x.emissions = head.emissions /\ x.state = [head.state EXCEPT !.partial = m.rest]
    BY <1>5, <1>8, <2>1, HoldingFacts
  <2> QED
    BY <1>5, <1>7, <1>8, <1>11, <2>2 DEF IsOutcome, Settled, Empty, States
<1>12. CASE content # <<>> /\ m.kind \notin {"complete", "partial"} /\ ShouldStartJail(text)
  <2>1. x = BeginJail(clear, text)
    BY <1>1, <1>12
  <2>2. /\ x \in Results /\ x.emissions = clear.emissions
        /\ x.state = [clear.state EXCEPT
                         !.is_jailed = TRUE, !.accumulated = text, !.partial = <<>>, !.searched = 0]
    BY <1>3, <1>6, <2>1, HoldingFacts
  <2> QED
    BY <1>6, <1>7, <2>2 DEF IsOutcome, Settled, States
<1>13. CASE content # <<>> /\ m.kind \notin {"complete", "partial"} /\ ~ ShouldStartJail(text)
  <2>1. x = EmitText(clear, "trailing", text)
    BY <1>1, <1>13
  <2>2. /\ x \in Results /\ x.state = clear.state /\ Bare(x.emissions) /\ InOrder(x.emissions)
        /\ r.emissions # <<>> => x.emissions # <<>>
    BY <1>3, <1>6, <2>1, EmitTextFacts DEF Kinds
  <2> QED
    BY <1>7, <2>2, NoMarkerYet DEF IsOutcome, Settled, Empty
<1> QED
  BY <1>9, <1>10, <1>11, <1>12, <1>13

\* The community Max of two numbers.
LEMMA GreaterOfTwo ==
  ASSUME NEW k \in Int
  PROVE  Max({0, k}) = IF k < 0 THEN 0 ELSE k
<1>1. \E x \in {0, k} : \A y \in {0, k} : x >= y
  OBVIOUS
<1>2. Max({0, k}) \in {0, k} /\ \A y \in {0, k} : Max({0, k}) >= y
  BY <1>1 DEF Max
<1> QED
  BY <1>2

\* The overlap of the incremental search is enough: no end marker is missed.
LEMMA SearchIsEnough ==
  ASSUME NEW s \in States, Unsearched(s)
  PROVE  /\ NewEndMarkers(s) = {} => ~ Occurs(s.accumulated, EndMarker)
         /\ NewEndMarkers(s) # {} => Places(s.accumulated, EndMarker, 1) # {}
<1> DEFINE text == s.accumulated
           n == s.searched
           from == Max({0, n - 1}) + 1
<1>1. text \in Text /\ n \in Nat /\ n - 1 \in Int
  BY DEF States
<1>2. from = IF n = 0 THEN 1 ELSE n
  BY <1>1, GreaterOfTwo
<1>3. NewEndMarkers(s) = Places(text, EndMarker, from)
  BY MarkerTypes DEF NewEndMarkers
<1>4. Len(text) \in Nat /\ from \in Nat \ {0}
  BY <1>1, <1>2 DEF Text
<1>5. \A i \in Places(text, EndMarker, 1) : n < i + 1
  BY DEF Unsearched
<1> HIDE DEF text, n, from
<1>6. \A i \in Places(text, EndMarker, from) : i \in Places(text, EndMarker, 1)
  BY <1>2, <1>4 DEF Places
<1>7. \A i \in Places(text, EndMarker, 1) : i \in Places(text, EndMarker, from)
  BY <1>1, <1>2, <1>4, <1>5 DEF Places
<1> QED
  BY <1>3, <1>6, <1>7 DEF Occurs, text

\* A completed jail emits its calls and then what trails them.
LEMMA CompletedFacts ==
  ASSUME NEW r \in Results, r.state.partial = <<>>, Bare(r.emissions), AllPass(r.emissions),
         NEW split \in 0..Len(r.state.accumulated)
  PROVE  /\ IsOutcome(EmitCompleted(r, split), r.state)
         /\ EmitCompleted(r, split).emissions # <<>>
<1> DEFINE text == r.state.accumulated
           region == SubSeq(text, 1, split)
           e == Emission("call", NormalText(region), ClosedCalls(region))
           q == Emit(r, e)
           done == EndJail(q)
           content == From(text, split + 1)
           x == EmitCompleted(r, split)
<1>1. x = HandleTrailing(done, content)
  BY DEF EmitCompleted
<1>2. r.state \in States /\ r.emissions \in Seq(Emissions) /\ text \in Seq(Letters)
      /\ Len(text) \in Nat /\ split \in 0..Len(text)
  BY DEF Results, States, Text
<1>3. region \in Text /\ content \in Text
  <2> HIDE DEF text
  <2> QED
    BY <1>2, SliceFacts DEF From, Text
<1>4. NormalText(region) \in Text /\ ClosedCalls(region) \in Nat
  <2> HIDE DEF region
  <2> QED
    BY <1>3, NormalTextType, CallCounts
<1>5. e \in Emissions /\ e.kind = "call" /\ e.reasoning = 0 /\ e.finish = None
  BY <1>4, BareEmission DEF Kinds
<1> HIDE DEF e, content, text, x
<1>6. /\ q \in Results /\ q.state = r.state /\ q.emissions = Append(r.emissions, e) /\ q.emissions # <<>>
      /\ Bare(Append(r.emissions, e)) /\ InOrder(Append(r.emissions, e))
  BY <1>2, <1>5, EmitFacts, AppendOrder
<1> HIDE DEF q
<1>7. /\ done \in Results /\ done.emissions = q.emissions
      /\ done.state = [q.state EXCEPT !.is_jailed = FALSE, !.accumulated = <<>>, !.searched = 0]
  <2>1. <<>> \in Text
    BY DEF Text
  <2> QED
    BY <1>6, <2>1, HoldingFacts
<1> HIDE DEF done
<1>8. Empty(done.state) /\ done.state.finish = r.state.finish /\ done.state.reasoning = r.state.reasoning
  BY <1>2, <1>6, <1>7 DEF Empty, States
<1>9. IsOutcome(x, done.state) /\ x.emissions # <<>>
  BY <1>1, <1>3, <1>6, <1>7, <1>8, TrailingFacts
<1> QED
  BY <1>8, <1>9 DEF IsOutcome, x

\* A jail that has been searched is settled: completed, or without an end marker.
LEMMA TryCompleteFacts ==
  ASSUME NEW r \in Results, Unsearched(r.state), Bare(r.emissions), AllPass(r.emissions)
  PROVE  /\ IsOutcome(TryComplete(r), r.state)
         /\ TryComplete(r).emissions # <<>> \/ TryComplete(r).state.is_jailed
<1> DEFINE text == r.state.accumulated
<1>1. r.state \in States /\ r.emissions \in Seq(Emissions) /\ text \in Text /\ Len(text) \in Nat
      /\ r = [state |-> r.state, emissions |-> r.emissions]
  BY DEF Results, States, Text
<1>2. CASE NewEndMarkers(r.state) = {}
  <2> DEFINE s == [r.state EXCEPT !.searched = Len(text)]
             x == TryComplete(r)
  <2>1. x = [state |-> s, emissions |-> r.emissions]
    BY <1>1, <1>2 DEF TryComplete
  <2>2. ~ Occurs(text, EndMarker)
    BY <1>1, <1>2, SearchIsEnough
  <2>3. s \in States /\ s.is_jailed /\ s.partial = <<>> /\ s.searched = Len(s.accumulated)
        /\ s.accumulated = text /\ s.finish = r.state.finish /\ s.reasoning = r.state.reasoning
    BY <1>1 DEF States, Unsearched
  <2>4. InOrder(r.emissions)
    <3>1. PICK e \in Emissions : TRUE
      <4>1. "pass" \in Kinds /\ <<>> \in Text /\ 0 \in Nat
        BY DEF Kinds, Text
      <4>2. Emission("pass", <<>>, 0) \in Emissions
        BY <4>1, BareEmission
      <4> QED
        BY <4>2
    <3> QED
      BY <1>1, <3>1, AppendOrder
  <2> HIDE DEF s, x
  <2>5. Settled(s)
    BY <2>2, <2>3 DEF Settled
  <2>6. x \in Results /\ x.state = s /\ x.emissions = r.emissions
    BY <1>1, <2>1, <2>3 DEF Results
  <2> QED
    BY <2>3, <2>4, <2>5, <2>6 DEF IsOutcome, x
<1>3. CASE NewEndMarkers(r.state) # {}
  <2>1. TryComplete(r) = EmitCompleted(r, EndPosition(text))
    BY <1>3 DEF TryComplete
  <2>2. EndPosition(text) \in 0..Len(text)
    BY <1>1, <1>3, SearchIsEnough, EndPositionRange
  <2>3. r.state.partial = <<>>
    BY DEF Unsearched
  <2> QED
    BY <2>1, <2>2, <2>3, CompletedFacts
<1> QED
  BY <1>2, <1>3

\* x is the jail of s with more text, not searched yet.
Added(x, s, content) ==
    /\ x \in Results /\ Unsearched(x.state) /\ x.emissions = <<>>
    /\ x.state.accumulated = s.accumulated \o content /\ x.state.partial = <<>>
    /\ x.state.finish = s.finish /\ x.state.reasoning = s.reasoning

\* Text added to a jail: what was searched has no end marker.
LEMMA AddedFacts ==
  ASSUME NEW s \in States, Settled(s), s.is_jailed, NEW content \in Text
  PROVE  Added([[state |-> s, emissions |-> <<>>] EXCEPT !.state.accumulated = @ \o content], s, content)
<1> DEFINE x == [[state |-> s, emissions |-> <<>>] EXCEPT !.state.accumulated = @ \o content]
           old == s.accumulated
           more == old \o content
           t == [s EXCEPT !.accumulated = more]
<1>1. /\ s.accumulated \in Seq(Letters) /\ content \in Seq(Letters) /\ more \in Text /\ s.searched \in Nat
  BY ConcatProperties DEF States, Text
<1>2. t \in States /\ x \in Results /\ x.state = t /\ x.emissions = <<>>
      /\ t.accumulated = more /\ t.partial = <<>> /\ t.searched = s.searched /\ t.is_jailed
      /\ t.finish = s.finish /\ t.reasoning = s.reasoning
  <2>1. [state |-> s, emissions |-> <<>>] \in Results /\ <<>> \in Seq(Emissions)
    BY DEF Results
  <2> QED
    BY <1>1, <2>1 DEF Results, States, Settled
<1> HIDE DEF t, x
<1>3. Unsearched(t)
  <2>1. Len(more) = Len(old) + Len(content) /\ \A i \in 1..Len(old) : more[i] = old[i]
    BY <1>1
  <2>2. s.searched = 0 \/ (s.searched = Len(old) /\ ~ Occurs(old, EndMarker))
    BY DEF Settled
  <2>3. s.searched <= Len(more) /\ s.searched \in Nat /\ Len(old) \in Nat /\ Len(content) \in Nat
    BY <1>1, <2>1, <2>2
  <2> HIDE DEF more, old
  <2>4. \A i \in Places(more, EndMarker, 1) : s.searched < i + 1
    <3> SUFFICES ASSUME NEW i \in Places(more, EndMarker, 1), s.searched >= i + 1
                 PROVE  FALSE
      <4>1. \A i \in Places(more, EndMarker, 1) : i \in Int
        BY DEF Places
      <4> QED
        BY <2>3, <4>1
    <3>1. i \in Nat /\ i >= 1 /\ SubSeq(more, i, i + Len(EndMarker) - 1) = EndMarker
      BY DEF Places
    <3>2. s.searched = Len(old) /\ ~ Occurs(old, EndMarker) /\ i + 1 <= Len(old)
      BY <2>2, <2>3, <3>1
    <3>3. SubSeq(more, i, i + 1) = EndMarker /\ i + Len(EndMarker) - 1 = i + 1
      BY <3>1, MarkerTypes
    <3>4. SubSeq(more, i, i + 1) = SubSeq(old, i, i + 1)
      <4>1. i \in 1..Len(old) /\ i + 1 \in 1..Len(old)
        BY <3>1, <3>2, <2>3
      <4> QED
        BY <1>1, <4>1, SubSeqOfConcat1 DEF more, old
    <3>5. i \in Places(old, EndMarker, 1)
      BY <3>1, <3>2, <3>3, <3>4, MarkerTypes DEF Places
    <3> QED
      BY <3>2, <3>5 DEF Occurs
  <2> QED
    BY <1>2, <2>3, <2>4 DEF Unsearched
<1>4. x.state = t /\ x \in Results /\ x.emissions = <<>> /\ t.accumulated = s.accumulated \o content
  BY <1>2 DEF x, more, old
<1> HIDE DEF x
<1>5. Added(x, s, content)
  BY <1>2, <1>3, <1>4 DEF Added
<1> QED
  BY <1>5 DEF x

\* Every branch of process_content leaves a settled state and ordered, bare emissions.
LEMMA ProcessContentFacts ==
  ASSUME NEW s \in States, Settled(s), NEW content \in Text
  PROVE  /\ IsOutcome(ProcessContent(s, content), s)
         /\ \/ ProcessContent(s, content).emissions # <<>>
            \/ HasDeferredOutput(ProcessContent(s, content).state)
            \/ s.reasoning = 0
<1> DEFINE r == [state |-> s, emissions |-> <<>>]
           added == [r EXCEPT !.state.accumulated = @ \o content]
           text == s.partial \o content
           m == Match(text)
           head == EmitText(r, "pass", m.prefix)
           clear == Hold(r, <<>>)
           e == Emission("pass", text, 0)
           x == ProcessContent(s, content)
<1> SUFFICES IsOutcome(x, s) /\ (x.emissions # <<>> \/ HasDeferredOutput(x.state) \/ s.reasoning = 0)
  OBVIOUS
<1>1. x = IF s.is_jailed THEN TryComplete(added)
          ELSE IF m.kind = "complete" THEN TryComplete(BeginJail(head, m.rest))
          ELSE IF m.kind = "partial" THEN Hold(head, m.rest)
          ELSE IF ShouldStartJail(text) THEN BeginJail(r, text)
          ELSE IF s.reasoning > 0 THEN Emit(clear, e)
          ELSE EmitText(clear, "pass", text)
  BY DEF ProcessContent
<1>2. /\ s.partial \in Seq(Letters) /\ s.accumulated \in Seq(Letters) /\ content \in Seq(Letters)
      /\ <<>> \in Text /\ "pass" \in Kinds /\ 0 \in Nat
  BY DEF States, Text, Kinds
<1>3. text \in Text /\ s.accumulated \o content \in Text
  BY <1>2, ConcatProperties DEF Text
<1>4. IsMatch(m, text)
  <2> HIDE DEF text
  <2> QED
    BY <1>3, MatchFacts
<1>5. /\ m.prefix \in Text /\ m.rest \in Text
      /\ m.kind = "partial" => IsStrictPrefix(m.rest, StartMarker) /\ m.rest # <<>>
  BY <1>4 DEF IsMatch
<1>6. /\ r \in Results /\ r.state = s /\ r.emissions = <<>>
      /\ Bare(<<>>) /\ AllPass(<<>>) /\ <<>> \in Seq(Emissions)
  BY DEF Results, Bare, AllPass
<1>7. e \in Emissions /\ e.kind = "pass" /\ e.reasoning = 0 /\ e.finish = None
  <2> HIDE DEF text
  <2> QED
    BY <1>2, <1>3, BareEmission
<1>8. InOrder(<<>>) /\ Bare(<<>>)
  <2> HIDE DEF e
  <2> QED
    BY <1>6, <1>7, AppendOrder
<1>9. /\ clear \in Results /\ clear.emissions = <<>> /\ clear.state = [s EXCEPT !.partial = <<>>]
  <2> HIDE DEF r
  <2> QED
    BY <1>2, <1>6, HoldingFacts
<1>10. /\ head \in Results /\ head.state = s /\ Bare(head.emissions) /\ AllPass(head.emissions)
  <2> HIDE DEF r, m
  <2> QED
    BY <1>2, <1>5, <1>6, EmitTextFacts
<1>11. InOrder(head.emissions)
  <2> HIDE DEF e, head
  <2> QED
    BY <1>7, <1>10, AppendOrder DEF Results
<1>12. CASE s.is_jailed
  <2>1. x = TryComplete(added)
    BY <1>1, <1>12
  <2> DEFINE t == added.state
  <2>2. /\ added \in Results /\ Unsearched(t) /\ added.emissions = <<>>
        /\ t.finish = s.finish /\ t.reasoning = s.reasoning
    <3>1. content \in Text
      BY <1>2 DEF Text
    <3>2. Added(added, s, content)
      BY <1>12, <3>1, AddedFacts
    <3> HIDE DEF added
    <3> QED
      BY <3>2 DEF Added
  <2> HIDE DEF t, added, x
  <2>3. IsOutcome(x, t) /\ (x.emissions # <<>> \/ x.state.is_jailed)
    BY <1>6, <2>1, <2>2, TryCompleteFacts DEF t
  <2> QED
    BY <2>2, <2>3 DEF IsOutcome, HasDeferredOutput
<1>13. CASE ~ s.is_jailed /\ m.kind = "complete"
  <2> DEFINE begun == BeginJail(head, m.rest)
  <2>1. x = TryComplete(begun)
    BY <1>1, <1>13
  <2> HIDE DEF head, m, x
  <2>2. /\ begun \in Results /\ begun.emissions = head.emissions
        /\ begun.state = [s EXCEPT !.is_jailed = TRUE, !.accumulated = m.rest, !.partial = <<>>, !.searched = 0]
    BY <1>5, <1>10, HoldingFacts
  <2> HIDE DEF begun
  <2>3. begun.state.is_jailed /\ begun.state.partial = <<>> /\ begun.state.searched = 0
        /\ begun.state.accumulated = m.rest
        /\ begun.state.finish = s.finish /\ begun.state.reasoning = s.reasoning
    BY <2>2 DEF States
  <2>4. Unsearched(begun.state)
    <3>1. Len(m.rest) \in Nat /\ 1 \in Nat \ {0}
      BY <1>5 DEF Text
    <3>2. \A i \in Places(m.rest, EndMarker, 1) : 0 < i + 1
      BY DEF Places
    <3> QED
      BY <2>3, <3>1, <3>2 DEF Unsearched
  <2>5. IsOutcome(x, begun.state) /\ (x.emissions # <<>> \/ x.state.is_jailed)
    BY <1>10, <2>1, <2>2, <2>4, TryCompleteFacts
  <2> QED
    BY <2>3, <2>5 DEF IsOutcome, HasDeferredOutput
<1> HIDE DEF text, m, clear, x, head, e
<1>14. CASE ~ s.is_jailed /\ m.kind = "partial"
  <2>1. x = Hold(head, m.rest)
    BY <1>1, <1>14
  <2>2. x \in Results /\ x.emissions = head.emissions /\ x.state = [s EXCEPT !.partial = m.rest]
    BY <1>5, <1>10, <2>1, HoldingFacts
  <2>3. /\ ~ x.state.is_jailed /\ x.state.accumulated = <<>> /\ x.state.searched = 0 /\ x.state.partial = m.rest
        /\ x.state.finish = s.finish /\ x.state.reasoning = s.reasoning
    BY <1>14, <2>2 DEF Settled, States
  <2>4. Settled(x.state) /\ HasDeferredOutput(x.state)
    BY <1>5, <1>14, <2>3 DEF Settled, HasDeferredOutput
  <2> QED
    BY <1>10, <1>11, <2>2, <2>3, <2>4 DEF IsOutcome
<1>15. CASE ~ s.is_jailed /\ m.kind \notin {"complete", "partial"} /\ ShouldStartJail(text)
  <2>1. x = BeginJail(r, text)
    BY <1>1, <1>15
  <2>2. /\ x \in Results /\ x.emissions = <<>>
        /\ x.state = [s EXCEPT !.is_jailed = TRUE, !.accumulated = text, !.partial = <<>>, !.searched = 0]
    <3> HIDE DEF r
    <3> QED
      BY <1>3, <1>6, <2>1, HoldingFacts
  <2>3. /\ x.state.is_jailed /\ x.state.searched = 0 /\ x.state.partial = <<>>
        /\ x.state.finish = s.finish /\ x.state.reasoning = s.reasoning
    BY <2>2 DEF States
  <2>4. Settled(x.state) /\ HasDeferredOutput(x.state)
    BY <2>3 DEF Settled, HasDeferredOutput
  <2> QED
    BY <1>8, <2>2, <2>3, <2>4 DEF IsOutcome
<1>16. ASSUME ~ s.is_jailed PROVE Settled(clear.state) /\ clear.state.finish = s.finish
                                  /\ clear.state.reasoning = s.reasoning
  <2>1. /\ ~ clear.state.is_jailed /\ clear.state.accumulated = <<>> /\ clear.state.searched = 0
        /\ clear.state.partial = <<>> /\ clear.state.finish = s.finish /\ clear.state.reasoning = s.reasoning
    BY <1>9, <1>16 DEF Settled, States
  <2> QED
    BY <2>1, NoMarkerYet DEF Settled
<1>17. CASE /\ ~ s.is_jailed /\ m.kind \notin {"complete", "partial"} /\ ~ ShouldStartJail(text)
            /\ s.reasoning > 0
  <2>1. x = Emit(clear, e)
    BY <1>1, <1>17
  <2>2. x \in Results /\ x.state = clear.state /\ x.emissions = Append(<<>>, e) /\ x.emissions # <<>>
    BY <1>7, <1>9, <2>1, EmitFacts
  <2>3. AllPass(x.emissions) /\ Bare(x.emissions)
    BY <1>6, <1>7, <2>2, AppendOrder
  <2>4. InOrder(x.emissions)
    BY <1>7, <2>2, <2>3, AppendOrder DEF Results
  <2> QED
    BY <1>16, <1>17, <2>2, <2>3, <2>4 DEF IsOutcome
<1>18. CASE /\ ~ s.is_jailed /\ m.kind \notin {"complete", "partial"} /\ ~ ShouldStartJail(text)
            /\ ~ (s.reasoning > 0)
  <2>1. x = EmitText(clear, "pass", text)
    BY <1>1, <1>18
  <2>2. x \in Results /\ x.state = clear.state /\ AllPass(x.emissions) /\ Bare(x.emissions)
    BY <1>2, <1>3, <1>6, <1>9, <2>1, EmitTextFacts
  <2>3. InOrder(x.emissions)
    BY <1>7, <2>2, AppendOrder DEF Results
  <2>4. s.reasoning = 0
    BY <1>18 DEF States
  <2> QED
    BY <1>16, <1>18, <2>2, <2>3, <2>4 DEF IsOutcome
<1> QED
  BY <1>12, <1>13, <1>14, <1>15, <1>17, <1>18

\* The finish reason is on the last emission or on none, the reasoning on the first.
LastFinish(es) == IF es = <<>> THEN None ELSE es[Len(es)].finish
FirstReasoning(es) == IF es = <<>> THEN 0 ELSE es[1].reasoning

Shaped(es) ==
    /\ es \in Seq(Emissions) /\ InOrder(es)
    /\ \A i \in 1..Len(es) : i < Len(es) => es[i].finish = None
    /\ \A i \in 1..Len(es) : i > 1 => es[i].reasoning = 0

\* What a chunk yields: the finish reason unless text is held, and all the
\* reasoning that is not kept for the held text.
IsChunk(r, why, reasoning) ==
    /\ r.state \in States /\ Settled(r.state) /\ r.state.finish = why
    /\ Shaped(r.emissions)
    /\ LastFinish(r.emissions) = IF HasDeferredOutput(r.state) THEN None ELSE why
    /\ FirstReasoning(r.emissions) + r.state.reasoning = reasoning
    /\ r.state.reasoning = 0 \/ HasDeferredOutput(r.state)

\* The order is one of kinds.
LEMMA SameOrder ==
  ASSUME NEW es \in Seq(Emissions), NEW fs \in Seq(Emissions), Len(fs) = Len(es),
         \A i \in 1..Len(es) : fs[i].kind = es[i].kind, InOrder(es)
  PROVE  InOrder(fs)
<1>1. PICK a \in 0..Len(es) : \E b \in a..Len(es) : \A i \in 1..Len(es) :
        es[i].kind = IF i <= a THEN "pass" ELSE IF i <= b THEN "call" ELSE "trailing"
  BY DEF InOrder
<1>2. PICK b \in a..Len(es) : \A i \in 1..Len(es) :
        es[i].kind = IF i <= a THEN "pass" ELSE IF i <= b THEN "call" ELSE "trailing"
  BY <1>1
<1>3. \A i \in 1..Len(fs) : fs[i].kind = IF i <= a THEN "pass" ELSE IF i <= b THEN "call" ELSE "trailing"
  BY <1>2
<1>4. a \in 0..Len(fs) /\ b \in a..Len(fs)
  OBVIOUS
<1> QED
  BY <1>3, <1>4 DEF InOrder

\* An emission with a finish reason is an emission.
LEMMA Finishing ==
  ASSUME NEW e \in Emissions, NEW why \in Reasons
  PROVE  LET f == [e EXCEPT !.finish = why]
         IN  f \in Emissions /\ f.kind = e.kind /\ f.reasoning = e.reasoning /\ f.finish = why
BY DEF Emissions

\* The finish reason goes on the last emission, unless the choice holds text.
LEMMA NormalizeFacts ==
  ASSUME NEW r \in Results, Bare(r.emissions), InOrder(r.emissions), NEW why \in Reasons
  PROVE  LET x == Normalize(r, why)
         IN  /\ x \in Results /\ x.state = r.state /\ Shaped(x.emissions)
             /\ FirstReasoning(x.emissions) = 0
             /\ LastFinish(x.emissions) = IF HasDeferredOutput(r.state) THEN None ELSE why
             /\ x.emissions = <<>> => r.emissions = <<>>
<1> DEFINE es == r.emissions
           n == Len(es)
           x == Normalize(r, why)
<1> SUFFICES /\ x \in Results /\ x.state = r.state /\ Shaped(x.emissions)
             /\ FirstReasoning(x.emissions) = 0
             /\ LastFinish(x.emissions) = IF HasDeferredOutput(r.state) THEN None ELSE why
             /\ x.emissions = <<>> => es = <<>>
  OBVIOUS
<1>1. /\ es \in Seq(Emissions) /\ n \in Nat /\ r.state \in States
      /\ r = [state |-> r.state, emissions |-> es] /\ (es = <<>> <=> n = 0)
  BY DEF Results
<1>2. \A i \in 1..n : es[i].reasoning = 0 /\ es[i].finish = None
  BY DEF Bare
<1>3. CASE why = None \/ HasDeferredOutput(r.state)
  <2>1. x = r
    BY <1>3 DEF Normalize
  <2>2. Shaped(es)
    BY <1>1, <1>2 DEF Shaped
  <2>3. FirstReasoning(es) = 0 /\ LastFinish(es) = None
    <3> HIDE DEF es
    <3> QED
      BY <1>1, <1>2 DEF FirstReasoning, LastFinish
  <2> QED
    BY <1>3, <2>1, <2>2, <2>3
<1>4. CASE ~ (why = None \/ HasDeferredOutput(r.state)) /\ n = 0
  <2> DEFINE e0 == Emission("pass", <<>>, 0)
             e == [e0 EXCEPT !.finish = why]
  <2>1. x = Emit(r, e)
    BY <1>4 DEF Normalize
  <2>2. e \in Emissions /\ e.kind = "pass" /\ e.finish = why /\ e.reasoning = 0
    <3>1. "pass" \in Kinds /\ <<>> \in Text /\ 0 \in Nat
      BY DEF Kinds, Text
    <3>2. e0 \in Emissions /\ e0.kind = "pass" /\ e0.reasoning = 0
      BY <3>1, BareEmission
    <3> HIDE DEF e0
    <3> QED
      BY <3>2, Finishing
  <2> HIDE DEF e, x
  <2>3. x \in Results /\ x.state = r.state /\ x.emissions = Append(es, e)
    BY <2>1, <2>2, EmitFacts
  <2>4. x.emissions = <<e>> /\ x.emissions \in Seq(Emissions) /\ Len(x.emissions) = 1 /\ x.emissions[1] = e
        /\ x.emissions # <<>>
    <3>1. es = <<>> /\ Append(<<>>, e) = <<e>> /\ <<e>> \in Seq(Emissions)
      <4> HIDE DEF es, n
      <4> QED
        BY <1>1, <1>4, <2>2
    <3> QED
      BY <2>3, <3>1
  <2>5. AllPass(x.emissions)
    BY <2>2, <2>4 DEF AllPass
  <2>6. InOrder(x.emissions)
    BY <2>2, <2>4, <2>5, AppendOrder
  <2>7. Shaped(x.emissions)
    BY <2>4, <2>6 DEF Shaped
  <2>8. FirstReasoning(x.emissions) = 0 /\ LastFinish(x.emissions) = why
    BY <2>2, <2>4 DEF FirstReasoning, LastFinish
  <2> QED
    BY <1>4, <2>3, <2>4, <2>7, <2>8
<1>5. CASE ~ (why = None \/ HasDeferredOutput(r.state)) /\ n # 0
  <2> DEFINE last == [es[n] EXCEPT !.finish = why]
             fs == [es EXCEPT ![n] = last]
  <2>1. x = [state |-> r.state, emissions |-> fs]
    BY <1>1, <1>5 DEF Normalize
  <2>2. last \in Emissions /\ last.kind = es[n].kind /\ last.reasoning = es[n].reasoning /\ last.finish = why
    <3>1. es[n] \in Emissions
      BY <1>1, <1>5
    <3> QED
      BY <3>1, Finishing
  <2>3. n \in 1..n
    BY <1>1, <1>5
  <2> HIDE DEF last
  <2>4. fs \in Seq(Emissions) /\ Len(fs) = n /\ fs # <<>>
        /\ \A i \in 1..n : fs[i] = IF i = n THEN last ELSE es[i]
    <3>1. fs \in Seq(Emissions) /\ Len(fs) = n /\ \A i \in 1..n : fs[i] = IF i = n THEN last ELSE es[i]
      BY <1>1, <2>2, <2>3, ExceptSeq
    <3> QED
      BY <1>5, <3>1
  <2> HIDE DEF fs
  <2>5. \A i \in 1..n : fs[i].kind = es[i].kind /\ fs[i].reasoning = 0
    BY <1>2, <2>2, <2>3, <2>4
  <2>6. InOrder(fs)
    BY <1>1, <2>4, <2>5, SameOrder
  <2>7. \A i \in 1..n : i < n => fs[i].finish = None
    BY <1>2, <2>4
  <2>8. Shaped(fs)
    BY <2>4, <2>5, <2>6, <2>7 DEF Shaped
  <2>9. FirstReasoning(fs) = 0 /\ LastFinish(fs) = why
    BY <1>1, <1>5, <2>2, <2>3, <2>4, <2>5 DEF FirstReasoning, LastFinish
  <2> QED
    BY <1>1, <1>5, <2>1, <2>4, <2>8, <2>9 DEF Results
<1> QED
  BY <1>3, <1>4, <1>5

\* The reasoning goes on the first emission, or waits.
LEMMA AttachFacts ==
  ASSUME NEW r \in Results, Shaped(r.emissions), FirstReasoning(r.emissions) = 0, Settled(r.state),
         r.emissions # <<>> \/ HasDeferredOutput(r.state) \/ r.state.reasoning = 0
  PROVE  LET x == AttachReasoning(r)
         IN  /\ x.state \in States /\ Settled(x.state) /\ x.state.finish = r.state.finish
             /\ HasDeferredOutput(x.state) <=> HasDeferredOutput(r.state)
             /\ Shaped(x.emissions) /\ LastFinish(x.emissions) = LastFinish(r.emissions)
             /\ FirstReasoning(x.emissions) + x.state.reasoning = r.state.reasoning
             /\ x.state.reasoning = 0 \/ HasDeferredOutput(x.state)
<1> DEFINE es == r.emissions
           n == Len(es)
           s == r.state
           x == AttachReasoning(r)
<1>1. /\ es \in Seq(Emissions) /\ n \in Nat /\ s \in States
      /\ r = [state |-> s, emissions |-> es] /\ (es = <<>> <=> n = 0)
  BY DEF Results
<1>2. CASE es = <<>>
  <2>1. x = r
    BY <1>2 DEF AttachReasoning
  <2> QED
    BY <1>1, <1>2, <2>1 DEF FirstReasoning, States
<1>3. CASE es # <<>>
  <2> DEFINE first == [es[1] EXCEPT !.reasoning = s.reasoning]
             fs == [es EXCEPT ![1] = first]
             t == [s EXCEPT !.reasoning = 0]
  <2>1. x = [state |-> t, emissions |-> fs]
    BY <1>1, <1>3 DEF AttachReasoning
  <2>2. 1 \in 1..n /\ es[1] \in Emissions /\ s.reasoning \in Nat
    BY <1>1, <1>3 DEF States
  <2>3. first \in Emissions /\ first.kind = es[1].kind /\ first.reasoning = s.reasoning
        /\ first.finish = es[1].finish
    BY <2>2 DEF Emissions
  <2>4. t \in States /\ t.reasoning = 0 /\ t.finish = s.finish /\ t.is_jailed = s.is_jailed
        /\ t.accumulated = s.accumulated /\ t.partial = s.partial /\ t.searched = s.searched
    BY <1>1 DEF States
  <2> HIDE DEF first, t
  <2>5. fs \in Seq(Emissions) /\ Len(fs) = n /\ fs # <<>>
        /\ \A i \in 1..n : fs[i] = IF i = 1 THEN first ELSE es[i]
    <3>1. fs \in Seq(Emissions) /\ Len(fs) = n /\ \A i \in 1..n : fs[i] = IF i = 1 THEN first ELSE es[i]
      BY <1>1, <2>2, <2>3, ExceptSeq
    <3> QED
      BY <1>1, <1>3, <3>1
  <2> HIDE DEF fs
  <2>6. \A i \in 1..n : fs[i].kind = es[i].kind /\ fs[i].finish = es[i].finish
    BY <2>3, <2>5
  <2>7. \A i \in 1..n : i > 1 => fs[i].reasoning = 0
    BY <2>5 DEF Shaped
  <2>8. InOrder(fs)
    <3>1. InOrder(es)
      BY DEF Shaped
    <3> QED
      BY <1>1, <2>5, <2>6, <3>1, SameOrder
  <2>9. \A i \in 1..n : i < n => fs[i].finish = None
    BY <2>6 DEF Shaped
  <2>10. Shaped(fs)
    BY <2>5, <2>7, <2>8, <2>9 DEF Shaped
  <2>11. n \in 1..n
    BY <1>1, <1>3
  <2>12. FirstReasoning(fs) = s.reasoning /\ LastFinish(fs) = LastFinish(es)
    BY <1>3, <2>2, <2>3, <2>5, <2>6, <2>11 DEF FirstReasoning, LastFinish
  <2>13. Settled(t) /\ (HasDeferredOutput(t) <=> HasDeferredOutput(s))
    BY <2>4 DEF Settled, HasDeferredOutput
  <2>14. x.state = t /\ x.emissions = fs /\ s.reasoning + 0 = s.reasoning
    BY <2>1, <2>2
  <2> HIDE DEF x, s
  <2> QED
    BY <2>4, <2>10, <2>12, <2>13, <2>14 DEF x, s
<1> QED
  BY <1>2, <1>3

\* The effect of a chunk with content on a choice's state s.
LEMMA ContentChunk ==
  ASSUME NEW s \in States, Settled(s), NEW content \in Text
  PROVE  IsChunk(AttachReasoning(Normalize(ProcessContent(s, content), s.finish)), s.finish, s.reasoning)
<1> DEFINE r == ProcessContent(s, content)
           q == Normalize(r, s.finish)
           x == AttachReasoning(q)
<1>1. IsOutcome(r, s) /\ (r.emissions # <<>> \/ HasDeferredOutput(r.state) \/ s.reasoning = 0)
  BY ProcessContentFacts
<1>2. s.finish \in Reasons
  BY DEF States
<1> HIDE DEF r
<1>3. /\ r \in Results /\ Settled(r.state) /\ Bare(r.emissions) /\ InOrder(r.emissions)
      /\ r.state.finish = s.finish /\ r.state.reasoning = s.reasoning
  BY <1>1 DEF IsOutcome
<1>4. /\ q \in Results /\ q.state = r.state /\ Shaped(q.emissions) /\ FirstReasoning(q.emissions) = 0
      /\ LastFinish(q.emissions) = IF HasDeferredOutput(r.state) THEN None ELSE s.finish
      /\ q.emissions = <<>> => r.emissions = <<>>
  BY <1>2, <1>3, NormalizeFacts
<1> HIDE DEF q
<1>5. /\ x.state \in States /\ Settled(x.state) /\ x.state.finish = q.state.finish
      /\ HasDeferredOutput(x.state) <=> HasDeferredOutput(q.state)
      /\ Shaped(x.emissions) /\ LastFinish(x.emissions) = LastFinish(q.emissions)
      /\ FirstReasoning(x.emissions) + x.state.reasoning = q.state.reasoning
      /\ x.state.reasoning = 0 \/ HasDeferredOutput(x.state)
  BY <1>1, <1>3, <1>4, AttachFacts
<1> HIDE DEF x
<1>6. IsChunk(x, s.finish, s.reasoning)
  BY <1>3, <1>4, <1>5 DEF IsChunk
<1> QED
  BY <1>6 DEF x, q, r

-----------------------------------------------------------------------------
(* Delivering emissions.                                                   *)

\* How much reasoning the client got.
Count(o) == Cardinality({i \in DOMAIN o : o[i] = "reasoning"})

\* The reasoning in a sequence is a number.
LEMMA CountFacts ==
  ASSUME NEW A, NEW o \in Seq(A)
  PROVE  /\ IsFiniteSet({i \in DOMAIN o : o[i] = "reasoning"})
         /\ Count(o) \in Nat
         /\ "reasoning" \notin A => Count(o) = 0
         /\ A = {"reasoning"} => Count(o) = Len(o)
<1> DEFINE S == {i \in DOMAIN o : o[i] = "reasoning"}
<1>1. DOMAIN o = 1..Len(o) /\ Len(o) \in Nat
  OBVIOUS
<1>2. IsFiniteSet(1..Len(o)) /\ Cardinality(1..Len(o)) = Len(o)
  BY <1>1, FS_Interval
<1>3. S \in SUBSET (1..Len(o))
  BY <1>1
<1>4. IsFiniteSet(S)
  BY <1>2, <1>3, FS_Subset
<1>5. Cardinality(S) \in Nat
  BY <1>4, FS_CardinalityType
<1>6. "reasoning" \notin A => S = {}
  OBVIOUS
<1>7. A = {"reasoning"} => S = 1..Len(o)
  OBVIOUS
<1> QED
  BY <1>2, <1>4, <1>5, <1>6, <1>7, FS_EmptySet DEF Count

\* It adds up.
LEMMA CountConcat ==
  ASSUME NEW A, NEW o \in Seq(A), NEW t \in Seq(A)
  PROVE  Count(o \o t) = Count(o) + Count(t)
<1> DEFINE b == o \o t
           m == Len(o)
           S == {i \in DOMAIN o : o[i] = "reasoning"}
           T == {i \in DOMAIN t : t[i] = "reasoning"}
           U == {i \in DOMAIN b : b[i] = "reasoning"}
           R == {i \in U : i > m}
           f == [i \in T |-> m + i]
<1>1. /\ DOMAIN o = 1..m /\ DOMAIN t = 1..Len(t) /\ DOMAIN b = 1..m + Len(t)
      /\ m \in Nat /\ Len(t) \in Nat
      /\ \A i \in 1..m : b[i] = o[i]
      /\ \A i \in 1..Len(t) : b[m + i] = t[i]
  OBVIOUS
<1>2. IsFiniteSet(S) /\ IsFiniteSet(T)
  BY CountFacts
<1> HIDE DEF b, m
<1>3. f \in Bijection(T, R)
  <2>1. f \in [T -> R] /\ \A i, j \in T : f[i] = f[j] => i = j
    BY <1>1
  <2>2. \A k \in R : k - m \in T /\ f[k - m] = k
    <3>1. ASSUME NEW k \in R PROVE k - m \in T
      <4>1. k - m \in 1..Len(t) /\ m + (k - m) = k /\ b[k] = "reasoning"
        BY <1>1
      <4>2. t[k - m] = "reasoning"
        BY <1>1, <4>1
      <4> QED
        BY <1>1, <4>1, <4>2
    <3>2. ASSUME NEW k \in R PROVE m + (k - m) = k
      BY <1>1
    <3> QED
      BY <3>1, <3>2
  <2> HIDE DEF f, T, R
  <2>3. \A k \in R : \E i \in T : f[i] = k
    BY <2>2
  <2> QED
    BY <2>1, <2>3 DEF Bijection, Injection, Surjection, IsInjective
<1>4. IsFiniteSet(R) /\ Cardinality(R) = Cardinality(T)
  BY <1>2, <1>3, FS_Bijection DEF ExistsBijection
<1>5. U = S \cup R /\ S \cap R = {}
  BY <1>1
<1>6. Cardinality(S \cup R) = Cardinality(S) + Cardinality(R) - Cardinality(S \cap R)
  <2> HIDE DEF S, R
  <2> QED
    BY <1>2, <1>4, FS_Union
<1>7. Cardinality(S) \in Nat /\ Cardinality(R) \in Nat /\ Cardinality({}) = 0
  BY <1>2, <1>4, FS_CardinalityType, FS_EmptySet
<1>8. Cardinality(U) = Cardinality(S) + Cardinality(T)
  <2> HIDE DEF S, R, T, U
  <2>1. Cardinality(S \cap R) = 0 /\ Cardinality(U) = Cardinality(S \cup R)
    BY <1>5, <1>7, Zenon
  <2> QED
    BY <1>4, <1>6, <1>7, <2>1
<1> QED
  BY <1>8 DEF Count, b

Outputs == Letters \union FinishReasons \union {"call", "reasoning"}

\* A body adds letters, calls and so much reasoning to what the client got.
IsExtension(o, body, reasoning) ==
    /\ body \in Seq(Outputs) /\ Len(o) <= Len(body)
    /\ \A i \in 1..Len(o) : body[i] = o[i]
    /\ \A i \in 1..Len(body) : i > Len(o) => body[i] \notin FinishReasons
    /\ Count(body) = Count(o) + reasoning

\* The same, and then a finish reason if there is one.
IsDelivery(o, p, reasoning, why) ==
    \E body : /\ IsExtension(o, body, reasoning)
              /\ p = IF why = None THEN body
                     ELSE Append(body, IF why = "stop" /\ Contains(body, "call") THEN "tool_calls" ELSE why)

\* Nothing added.
LEMMA NoExtension ==
  ASSUME NEW o \in Seq(Outputs)
  PROVE  IsExtension(o, o, 0)
<1>1. Count(o) \in Nat
  BY CountFacts
<1>2. Count(o) = Count(o) + 0
  BY <1>1
<1>3. \A i \in 1..Len(o) : ~ (i > Len(o))
  OBVIOUS
<1> QED
  BY <1>1, <1>2, <1>3 DEF IsExtension

\* Two additions make one.
LEMMA ExtensionsJoin ==
  ASSUME NEW o \in Seq(Outputs), NEW body, NEW p, NEW n \in Nat, NEW k \in Nat,
         IsExtension(o, body, n), IsExtension(body, p, k)
  PROVE  IsExtension(o, p, n + k)
<1>1. Len(o) \in Nat /\ Len(body) \in Nat /\ Len(p) \in Nat /\ body \in Seq(Outputs)
  BY DEF IsExtension
<1>2. \A i \in 1..Len(o) : p[i] = o[i]
  BY <1>1 DEF IsExtension
<1>3. \A i \in 1..Len(p) : i > Len(o) => p[i] \notin FinishReasons
  <2>1. ASSUME NEW i \in 1..Len(p), i > Len(o), i <= Len(body) PROVE p[i] \notin FinishReasons
    <3>1. i \in 1..Len(body)
      BY <1>1, <2>1
    <3> QED
      BY <2>1, <3>1 DEF IsExtension
  <2>2. ASSUME NEW i \in 1..Len(p), i > Len(body) PROVE p[i] \notin FinishReasons
    BY <2>2 DEF IsExtension
  <2> QED
    BY <1>1, <2>1, <2>2
<1>4. Count(o) \in Nat /\ Count(body) \in Nat
  BY <1>1, CountFacts
<1>5. Count(p) = Count(o) + (n + k)
  BY <1>4 DEF IsExtension
<1> QED
  BY <1>1, <1>2, <1>3, <1>5 DEF IsExtension

\* Appending text, calls or reasoning.
LEMMA ConcatExtends ==
  ASSUME NEW o \in Seq(Outputs), NEW t \in Seq(Outputs), NEW n \in Nat, Count(t) = n,
         \A i \in 1..Len(t) : t[i] \notin FinishReasons
  PROVE  IsExtension(o, o \o t, n)
<1> DEFINE b == o \o t
<1>1. /\ b \in Seq(Outputs) /\ Len(b) = Len(o) + Len(t) /\ Len(o) \in Nat /\ Len(t) \in Nat
      /\ \A i \in 1..Len(o) : b[i] = o[i]
      /\ \A i \in 1..Len(b) : i > Len(o) => b[i] = t[i - Len(o)] /\ i - Len(o) \in 1..Len(t)
  OBVIOUS
<1>2. Count(b) = Count(o) + n
  BY CountConcat
<1> HIDE DEF b
<1>3. IsExtension(o, b, n)
  BY <1>1, <1>2 DEF IsExtension
<1> QED
  BY <1>3 DEF b

\* Letters, finish reasons, calls and reasoning are told apart.
LEMMA WordsDiffer ==
  /\ Letters \cap FinishReasons = {} /\ "call" \notin FinishReasons /\ "reasoning" \notin FinishReasons
  /\ "reasoning" \notin Letters /\ "call" \notin Letters /\ None \notin FinishReasons
  /\ EngineReasons \subseteq FinishReasons /\ Reasons = EngineReasons \union {None}
BY DEF Letters, FinishReasons, EngineReasons, None, Reasons

\* What one emission adds to the output.
LEMMA DeliverFacts ==
  ASSUME NEW o \in Seq(Outputs), NEW e \in Emissions
  PROVE  /\ IsDelivery(o, Deliver(o, e), e.reasoning, e.finish)
         /\ Deliver(o, e) \in Seq(Outputs)
<1> DEFINE r == [i \in 1..e.reasoning |-> "reasoning"]
           t == e.text
           c == [i \in 1..e.calls |-> "call"]
           b1 == o \o r
           b2 == b1 \o t
           body == b2 \o c
           told == IF e.finish = "stop" /\ Contains(body, "call") THEN "tool_calls" ELSE e.finish
           p == IF e.finish = None THEN body ELSE Append(body, told)
<1>1. Deliver(o, e) = p
  BY DEF Deliver
<1>2. e.reasoning \in Nat /\ t \in Seq(Letters) /\ e.calls \in Nat /\ e.finish \in Reasons
  BY DEF Emissions, Text
<1>3. r \in Seq({"reasoning"}) /\ Len(r) = e.reasoning /\ c \in Seq({"call"})
  <2>1. r \in [1..e.reasoning -> {"reasoning"}] /\ c \in [1..e.calls -> {"call"}]
    OBVIOUS
  <2> QED
    BY <1>2, <2>1
<1>4. Count(r) = e.reasoning /\ Count(t) = 0 /\ Count(c) = 0
  <2> HIDE DEF r, c, t
  <2> QED
    BY <1>2, <1>3, WordsDiffer, CountFacts, ZenonT(30)
<1>5. /\ r \in Seq(Outputs) /\ \A i \in 1..Len(r) : r[i] \notin FinishReasons
      /\ t \in Seq(Outputs) /\ \A i \in 1..Len(t) : t[i] \notin FinishReasons
      /\ c \in Seq(Outputs) /\ \A i \in 1..Len(c) : c[i] \notin FinishReasons
  <2> HIDE DEF r, c, t
  <2>1. r \in Seq(Outputs) /\ t \in Seq(Outputs) /\ c \in Seq(Outputs)
    BY <1>2, <1>3 DEF Outputs
  <2>2. \A i \in 1..Len(r) : r[i] \notin FinishReasons
    BY <1>3, WordsDiffer
  <2>3. \A i \in 1..Len(t) : t[i] \notin FinishReasons
    BY <1>2, WordsDiffer
  <2>4. \A i \in 1..Len(c) : c[i] \notin FinishReasons
    BY <1>3, WordsDiffer
  <2> QED
    BY <2>1, <2>2, <2>3, <2>4
<1> HIDE DEF r, t, c
<1>6. IsExtension(o, b1, e.reasoning) /\ b1 \in Seq(Outputs)
  BY <1>2, <1>4, <1>5, ConcatExtends DEF IsExtension
<1> HIDE DEF b1
<1>7. IsExtension(b1, b2, 0) /\ b2 \in Seq(Outputs)
  BY <1>4, <1>5, <1>6, ConcatExtends DEF IsExtension
<1> HIDE DEF b2
<1>8. IsExtension(b2, body, 0) /\ body \in Seq(Outputs)
  BY <1>4, <1>5, <1>7, ConcatExtends DEF IsExtension
<1> HIDE DEF body
<1>9. IsExtension(o, b2, e.reasoning + 0)
  BY <1>2, <1>6, <1>7, ExtensionsJoin
<1>10. e.reasoning + 0 = e.reasoning
  BY <1>2
<1>11. IsExtension(o, body, e.reasoning + 0)
  BY <1>2, <1>8, <1>9, <1>10, ExtensionsJoin
<1>12. IsDelivery(o, p, e.reasoning, e.finish)
  BY <1>10, <1>11 DEF IsDelivery
<1>13. e.finish # None => told \in Outputs
  BY <1>2 DEF Reasons, EngineReasons, FinishReasons, Outputs
<1> HIDE DEF told
<1>14. p \in Seq(Outputs)
  BY <1>8, <1>13
<1> HIDE DEF p
<1> QED
  BY <1>1, <1>12, <1>14

\* The function YieldBucket defines.
BucketEquation(yielded, o, es, kind) ==
    yielded = [n \in 0..Len(es) |->
                  IF n = 0 THEN o
                  ELSE IF es[n].kind = kind THEN Deliver(yielded[n - 1], es[n]) ELSE yielded[n - 1]]

Bucket(o, es, kind) == CHOOSE yielded : BucketEquation(yielded, o, es, kind)

\* YieldBucket, its recursive function named.
LEMMA YieldBucketIs ==
  ASSUME NEW o, NEW es, NEW kind
  PROVE  YieldBucket(o, es, kind) = Bucket(o, es, kind)[Len(es)]
BY Zenon DEF YieldBucket, Bucket, BucketEquation

\* That function exists.
LEMMA BucketFacts ==
  ASSUME NEW o \in Seq(Outputs), NEW es \in Seq(Emissions), NEW kind
  PROVE  BucketEquation(Bucket(o, es, kind), o, es, kind)
<1> DEFINE V == Seq(Outputs)
           n == Len(es)
           step == [a \in (1..n) \X V |-> IF es[a[1]].kind = kind THEN Deliver(a[2], es[a[1]]) ELSE a[2]]
<1>1. n \in Nat /\ o \in V
  OBVIOUS
<1>2. step \in [(1..n) \X V -> V]
  <2>1. ASSUME NEW a \in (1..n) \X V
        PROVE  (IF es[a[1]].kind = kind THEN Deliver(a[2], es[a[1]]) ELSE a[2]) \in V
    <3>1. a[2] \in V /\ es[a[1]] \in Emissions
      OBVIOUS
    <3> QED
      BY <3>1, DeliverFacts
  <2> QED
    BY <2>1
<1> HIDE DEF V, n, step
<1>0. PICK g : Iterated(g, n, V, o, step)
  BY <1>1, <1>2, ForwardRecursion
<1>3. g \in [0..n -> V] /\ g[0] = o /\ \A i \in 1..n : g[i] = step[<<i, g[i - 1]>>]
  BY <1>0 DEF Iterated
<1>4. ASSUME NEW i \in 0..n
      PROVE  g[i] = IF i = 0 THEN o
                    ELSE IF es[i].kind = kind THEN Deliver(g[i - 1], es[i]) ELSE g[i - 1]
  <2>1. CASE i = 0
    BY <1>3, <2>1
  <2>2. CASE i # 0
    <3>1. i \in 1..n /\ i - 1 \in 0..n
      BY <1>1, <2>2
    <3>2. g[i - 1] \in V
      BY <1>3, <3>1
    <3>3. g[i] = step[<<i, g[i - 1]>>]
      BY <1>3, <3>1
    <3> QED
      BY <2>2, <3>1, <3>2, <3>3 DEF step
  <2> QED
    BY <2>1, <2>2
<1>5. g = [i \in 0..n |-> IF i = 0 THEN o
                          ELSE IF es[i].kind = kind THEN Deliver(g[i - 1], es[i]) ELSE g[i - 1]]
  BY <1>3, <1>4
<1>6. \E yielded : BucketEquation(yielded, o, es, kind)
  BY <1>5 DEF BucketEquation, n
<1> QED
  BY <1>6 DEF Bucket

\* All emissions delivered one after the other.
IsFold(d, o, es) ==
    /\ d \in [0..Len(es) -> Seq(Outputs)] /\ d[0] = o
    /\ \A i \in 1..Len(es) : d[i] = Deliver(d[i - 1], es[i])

\* Delivering all emissions in order is well defined.
LEMMA FoldExists ==
  ASSUME NEW o \in Seq(Outputs), NEW es \in Seq(Emissions)
  PROVE  \E d : IsFold(d, o, es)
<1> DEFINE V == Seq(Outputs)
           n == Len(es)
           step == [a \in (1..n) \X V |-> Deliver(a[2], es[a[1]])]
<1>1. n \in Nat /\ o \in V
  OBVIOUS
<1>2. step \in [(1..n) \X V -> V]
  <2>1. ASSUME NEW a \in (1..n) \X V PROVE Deliver(a[2], es[a[1]]) \in V
    <3>1. a[2] \in V /\ es[a[1]] \in Emissions
      OBVIOUS
    <3> QED
      BY <3>1, DeliverFacts
  <2> QED
    BY <2>1
<1> HIDE DEF V, n, step
<1>0. PICK g : Iterated(g, n, V, o, step)
  BY <1>1, <1>2, ForwardRecursion
<1>3. g \in [0..n -> V] /\ g[0] = o /\ \A i \in 1..n : g[i] = step[<<i, g[i - 1]>>]
  BY <1>0 DEF Iterated
<1>4. ASSUME NEW i \in 1..n PROVE g[i] = Deliver(g[i - 1], es[i])
  <2>1. i - 1 \in 0..n
    BY <1>1
  <2>2. g[i - 1] \in V
    BY <1>3, <2>1
  <2>3. g[i] = step[<<i, g[i - 1]>>]
    BY <1>3
  <2> QED
    BY <2>2, <2>3 DEF step
<1> QED
  BY <1>3, <1>4 DEF IsFold, V, n

\* The emissions of a bucket are those after a up to b.
Spans(es, kind, a, b) ==
    \A i \in 1..Len(es) : es[i].kind = kind <=> (a < i /\ i <= b)

\* A bucket that is a run of the emissions delivers that run.
LEMMA BucketRun ==
  ASSUME NEW o \in Seq(Outputs), NEW es \in Seq(Emissions), NEW d, IsFold(d, o, es), NEW kind,
         NEW a \in 0..Len(es), NEW b \in a..Len(es),
         Spans(es, kind, a, b)
  PROVE  YieldBucket(d[a], es, kind) = d[b]
<1> DEFINE n == Len(es)
           at(i) == IF i <= a THEN a ELSE IF i <= b THEN i ELSE b
           y == Bucket(d[a], es, kind)
           G == {i \in 0..n : y[i] = d[at(i)]}
<1>1. n \in Nat /\ a \in 0..n /\ b \in a..n /\ d[a] \in Seq(Outputs)
  BY DEF IsFold
<1>2. BucketEquation(y, d[a], es, kind)
  BY <1>1, BucketFacts
<1>3. /\ y[0] = d[a]
      /\ \A i \in 1..n : y[i] = IF es[i].kind = kind THEN Deliver(y[i - 1], es[i]) ELSE y[i - 1]
  BY <1>1, <1>2 DEF BucketEquation
<1> HIDE DEF y
<1>4. 0 \in G
  BY <1>1, <1>3
<1>5. ASSUME NEW k \in 0..n, k < n, k \in G PROVE k + 1 \in G
  <2> DEFINE i == k + 1
  <2>1. i \in 1..n /\ i - 1 = k /\ i \in 0..n /\ k \in Int
    BY <1>1, <1>5
  <2>2. y[k] = d[at(k)]
    BY <1>5
  <2> HIDE DEF i
  <2>3. y[i] = IF es[i].kind = kind THEN Deliver(y[k], es[i]) ELSE y[k]
    BY <1>3, <2>1
  <2>0. es[i].kind = kind <=> (a < i /\ i <= b)
    BY <2>1 DEF Spans, n
  <2>4. CASE a < i /\ i <= b
    <3>1. at(k) = k /\ at(i) = i
      BY <1>1, <2>1, <2>4
    <3>2. d[i] = Deliver(d[k], es[i])
      BY <2>1 DEF IsFold, n
    <3>3. y[i] = d[at(i)]
      BY <2>0, <2>1, <2>2, <2>3, <2>4, <3>1, <3>2
    <3> QED
      BY <2>1, <3>3 DEF i
  <2>5. CASE ~ (a < i /\ i <= b)
    <3>1. at(k) = at(i)
      BY <1>1, <2>1, <2>5
    <3>2. y[i] = d[at(i)]
      BY <2>0, <2>1, <2>2, <2>3, <2>5, <3>1
    <3> QED
      BY <2>1, <3>2 DEF i
  <2> QED
    BY <2>4, <2>5
<1> HIDE DEF G
<1>6. \A k \in 0..n : k \in G
  <2> HIDE DEF n
  <2> QED
    BY <1>1, <1>4, <1>5, BoundedInduction
<1>7. y[n] = d[at(n)] /\ at(n) = b
  <2>1. n \in 0..n
    BY <1>1
  <2>2. y[n] = d[at(n)]
    BY <1>6, <2>1 DEF G
  <2>3. at(n) = b
    BY <1>1
  <2> QED
    BY <2>2, <2>3
<1>8. YieldBucket(d[a], es, kind) = y[n]
  BY YieldBucketIs DEF y
<1> QED
  BY <1>7, <1>8

\* The buckets of apply() do not change the order of the emissions.
LEMMA BucketsKeepOrder ==
  ASSUME NEW o \in Seq(Outputs), NEW es \in Seq(Emissions), InOrder(es), NEW d, IsFold(d, o, es)
  PROVE  YieldAll(o, es) = d[Len(es)]
<1> DEFINE n == Len(es)
<1>1. n \in Nat /\ d[0] = o /\ 0 \in 0..n /\ n \in 0..n
  BY DEF IsFold
<1>2. PICK a \in 0..n : \E b \in a..n : \A i \in 1..n :
        es[i].kind = IF i <= a THEN "pass" ELSE IF i <= b THEN "call" ELSE "trailing"
  BY DEF InOrder
<1>3. PICK b \in a..n : \A i \in 1..n :
        es[i].kind = IF i <= a THEN "pass" ELSE IF i <= b THEN "call" ELSE "trailing"
  BY <1>2
<1>4. b \in 0..n /\ n \in b..n /\ a \in 0..n
  BY <1>1
<1>5. Spans(es, "pass", 0, a)
  BY <1>1, <1>3 DEF Spans
<1>6. Spans(es, "call", a, b)
  BY <1>1, <1>3, <1>4 DEF Spans
<1>7. Spans(es, "trailing", b, n)
  BY <1>1, <1>3, <1>4 DEF Spans
<1>8. YieldBucket(d[0], es, "pass") = d[a]
  BY <1>1, <1>4, <1>5, BucketRun
<1>9. YieldBucket(d[a], es, "call") = d[b]
  BY <1>1, <1>4, <1>6, BucketRun
<1>10. YieldBucket(d[b], es, "trailing") = d[n]
  BY <1>1, <1>4, <1>7, BucketRun
<1> QED
  BY <1>1, <1>8, <1>9, <1>10 DEF YieldAll

\* What the client gets of a chunk.
LEMMA YieldFacts ==
  ASSUME NEW o \in Seq(Outputs), NEW es, Shaped(es)
  PROVE  /\ IsDelivery(o, YieldAll(o, es), FirstReasoning(es), LastFinish(es))
         /\ YieldAll(o, es) \in Seq(Outputs)
<1> DEFINE n == Len(es)
<1>1. /\ es \in Seq(Emissions) /\ InOrder(es) /\ n \in Nat /\ (es = <<>> <=> n = 0)
      /\ \A i \in 1..n : i < n => es[i].finish = None
      /\ \A i \in 1..n : i > 1 => es[i].reasoning = 0
  BY DEF Shaped
<1>2. PICK d : IsFold(d, o, es)
  BY <1>1, FoldExists
<1>3. /\ YieldAll(o, es) = d[n] /\ d \in [0..n -> Seq(Outputs)] /\ d[0] = o
      /\ \A i \in 1..n : d[i] = Deliver(d[i - 1], es[i])
  BY <1>1, <1>2, BucketsKeepOrder DEF IsFold
<1>4. CASE n = 0
  <2>1. YieldAll(o, es) = o /\ es = <<>>
    BY <1>1, <1>3, <1>4
  <2>2. IsDelivery(o, o, 0, None)
    BY NoExtension DEF IsDelivery
  <2> QED
    BY <2>1, <2>2 DEF FirstReasoning, LastFinish
<1>5. CASE n > 0
  <2> DEFINE reasoning(k) == IF k = 0 THEN 0 ELSE es[1].reasoning
             G == {k \in 0..n : k < n => IsExtension(o, d[k], reasoning(k))}
             last == n - 1
  <2>1. 0 \in G
    BY <1>1, <1>3, NoExtension
  <2>2. ASSUME NEW k \in 1..n
        PROVE  /\ IsDelivery(d[k - 1], d[k], es[k].reasoning, es[k].finish)
               /\ es[k] \in Emissions /\ es[k].reasoning \in Nat /\ reasoning(k - 1) \in Nat
               /\ reasoning(k - 1) + es[k].reasoning = reasoning(k)
    <3>1. k - 1 \in 0..n /\ es[k] \in Emissions /\ es[1] \in Emissions
      BY <1>1, <1>5
    <3>2. d[k - 1] \in Seq(Outputs) /\ d[k] = Deliver(d[k - 1], es[k])
      BY <1>3, <3>1
    <3>3. IsDelivery(d[k - 1], d[k], es[k].reasoning, es[k].finish)
      BY <3>1, <3>2, DeliverFacts
    <3>4. es[k].reasoning \in Nat /\ es[1].reasoning \in Nat
      BY <3>1 DEF Emissions
    <3>5. CASE k = 1
      BY <3>1, <3>3, <3>4, <3>5
    <3>6. CASE k # 1
      <4>1. es[k].reasoning = 0 /\ k - 1 # 0 /\ k # 0
        BY <1>1, <3>6
      <4> QED
        BY <3>1, <3>3, <3>4, <4>1
    <3> QED
      BY <3>5, <3>6
  <2>3. ASSUME NEW k \in 0..n, k < n, k \in G PROVE k + 1 \in G
    <3> DEFINE i == k + 1
    <3>1. i \in 1..n /\ i - 1 = k /\ i \in 0..n
      BY <1>1, <2>3
    <3> HIDE DEF i
    <3>2. CASE i < n
      <4>1. es[i].finish = None
        BY <1>1, <3>1, <3>2
      <4>2. IsDelivery(d[k], d[i], es[i].reasoning, es[i].finish)
        BY <2>2, <3>1
      <4>3. IsExtension(d[k], d[i], es[i].reasoning)
        BY <4>1, <4>2 DEF IsDelivery
      <4>4. IsExtension(o, d[k], reasoning(k))
        BY <2>3
      <4>5. /\ reasoning(k) \in Nat /\ es[i].reasoning \in Nat
            /\ reasoning(k) + es[i].reasoning = reasoning(i)
        BY <2>2, <3>1
      <4> HIDE DEF reasoning
      <4>6. IsExtension(o, d[i], reasoning(i))
        BY <4>3, <4>4, <4>5, ExtensionsJoin
      <4> QED
        BY <3>1, <4>6 DEF i
    <3>3. CASE ~ (i < n)
      BY <3>1, <3>3 DEF i
    <3> QED
      BY <3>2, <3>3
  <2> HIDE DEF G
  <2>4. \A k \in 0..n : k \in G
    <3> HIDE DEF n
    <3> QED
      BY <1>1, <2>1, <2>3, BoundedInduction
  <2>5. last \in 0..n /\ last < n /\ n \in 1..n /\ n - 1 = last
    BY <1>1, <1>5
  <2>6. IsExtension(o, d[last], reasoning(last))
    BY <2>4, <2>5 DEF G
  <2>7. /\ IsDelivery(d[last], d[n], es[n].reasoning, es[n].finish)
        /\ reasoning(last) \in Nat /\ es[n].reasoning \in Nat
        /\ reasoning(last) + es[n].reasoning = reasoning(n)
    BY <2>2, <2>5
  <2>8. reasoning(n) = FirstReasoning(es) /\ LastFinish(es) = es[n].finish
    BY <1>1, <1>5 DEF FirstReasoning, LastFinish
  <2> HIDE DEF reasoning, last
  <2>9. PICK body : /\ IsExtension(d[last], body, es[n].reasoning)
                    /\ d[n] = IF es[n].finish = None THEN body
                              ELSE Append(body, IF es[n].finish = "stop" /\ Contains(body, "call")
                                                THEN "tool_calls" ELSE es[n].finish)
    BY <2>7 DEF IsDelivery
  <2>10. IsExtension(o, body, reasoning(n))
    <3>1. IsExtension(o, body, reasoning(last) + es[n].reasoning)
      BY <2>6, <2>7, <2>9, ExtensionsJoin
    <3> QED
      BY <2>7, <3>1
  <2>11. IsDelivery(o, d[n], reasoning(n), es[n].finish)
    BY <2>9, <2>10 DEF IsDelivery
  <2>12. d[n] \in Seq(Outputs)
    BY <1>3, <2>5, <1>1
  <2> QED
    BY <1>3, <2>8, <2>11, <2>12
<1> QED
  BY <1>1, <1>4, <1>5

-----------------------------------------------------------------------------
(* One choice, whose output is o and whose state is s, after the engine    *)
(* sent the finish reason f and so much reasoning.                         *)

HasFinish(o) == \E i \in 1..Len(o) : o[i] \in FinishReasons

OneFinish(o) == \A i \in 1..Len(o) : o[i] \in FinishReasons => i = Len(o)

EndsWith(o, x) == Len(o) \in 1..Len(o) /\ o[Len(o)] = x

\* The reason the output should end with, and that it does and has no other.
Told(o, f) == IF Contains(o, "call") /\ f # "length" THEN "tool_calls" ELSE f
TurnOver(o, f) == OneFinish(o) /\ IF Told(o, f) = None THEN ~ HasFinish(o) ELSE EndsWith(o, Told(o, f))

\* What a delivery changes of it.
LEMMA DeliveryFacts ==
  ASSUME NEW o \in Seq(Outputs), NEW n \in Nat, NEW why \in Reasons, NEW p, IsDelivery(o, p, n, why)
  PROVE  /\ p \in Seq(Outputs) /\ Count(p) = Count(o) + n
         /\ \A x : Contains(o, x) => Contains(p, x)
         /\ why = None /\ ~ HasFinish(o) => ~ HasFinish(p)
         /\ why # None => EndsWith(p, Told(p, why))
         /\ ~ HasFinish(o) => OneFinish(p)
<1>1. PICK body : /\ IsExtension(o, body, n)
                  /\ p = IF why = None THEN body
                         ELSE Append(body, IF why = "stop" /\ Contains(body, "call") THEN "tool_calls" ELSE why)
  BY DEF IsDelivery
<1>2. /\ body \in Seq(Outputs) /\ Len(o) <= Len(body) /\ Len(o) \in Nat /\ Len(body) \in Nat
      /\ \A i \in 1..Len(o) : body[i] = o[i]
      /\ \A i \in 1..Len(body) : i > Len(o) => body[i] \notin FinishReasons
      /\ Count(body) = Count(o) + n
  BY <1>1 DEF IsExtension
<1>3. \A x : Contains(o, x) => Contains(body, x)
  BY <1>2 DEF Contains
<1>4. ~ HasFinish(o) => ~ HasFinish(body)
  <2>1. ASSUME ~ HasFinish(o), NEW i \in 1..Len(body) PROVE body[i] \notin FinishReasons
    <3>1. CASE i <= Len(o)
      BY <1>2, <2>1, <3>1 DEF HasFinish
    <3>2. CASE ~ (i <= Len(o))
      BY <1>2, <3>2
    <3> QED
      BY <3>1, <3>2
  <2> QED
    BY <2>1 DEF HasFinish
<1>5. CASE why = None
  <2>1. p = body
    BY <1>1, <1>5
  <2>2. ~ HasFinish(p) => OneFinish(p)
    BY DEF HasFinish, OneFinish
  <2> QED
    BY <1>2, <1>3, <1>4, <1>5, <2>1, <2>2
<1>6. CASE why # None
  <2> DEFINE told == IF why = "stop" /\ Contains(body, "call") THEN "tool_calls" ELSE why
  <2>1. p = Append(body, told)
    BY <1>1, <1>6
  <2>2. told \in FinishReasons /\ told \in Outputs /\ told # "call" /\ told # "reasoning" /\ told \in {told}
    BY <1>6 DEF Reasons, FinishReasons, EngineReasons, Outputs
  <2>3. told = IF Contains(body, "call") /\ why # "length" THEN "tool_calls" ELSE why
    BY <1>6 DEF Reasons, EngineReasons
  <2> HIDE DEF told
  <2>4. /\ p \in Seq(Outputs) /\ Len(p) = Len(body) + 1 /\ p[Len(p)] = told /\ Len(p) \in 1..Len(p)
        /\ \A i \in 1..Len(body) : p[i] = body[i]
        /\ \A i \in 1..Len(p) : i \in 1..Len(body) \/ i = Len(p)
    BY <1>2, <2>1, <2>2
  <2>5. Count(p) = Count(o) + n
    <3>1. p = body \o <<told>> /\ <<told>> \in Seq(Outputs)
      BY <1>2, <2>1, <2>2
    <3>2. Count(<<told>>) = 0
      <4>1. <<told>> \in Seq({told}) /\ "reasoning" \notin {told}
        BY <2>2
      <4> QED
        BY <4>1, CountFacts
    <3>3. Count(p) = Count(body) + 0
      BY <1>2, <3>1, <3>2, CountConcat
    <3>4. Count(o) \in Nat
      BY CountFacts
    <3> QED
      BY <1>2, <3>3, <3>4
  <2>6. \A x : Contains(body, x) => Contains(p, x)
    BY <1>2, <2>4 DEF Contains
  <2>7. \A x : Contains(p, x) => Contains(body, x) \/ x = told
    BY <2>4 DEF Contains
  <2>8. ~ HasFinish(body) => OneFinish(p)
    BY <2>4 DEF HasFinish, OneFinish
  <2>9. Contains(p, "call") <=> Contains(body, "call")
    BY <2>2, <2>6, <2>7
  <2>10. EndsWith(p, Told(p, why))
    BY <2>3, <2>4, <2>9 DEF EndsWith, Told
  <2>11. \A x : Contains(o, x) => Contains(p, x)
    BY <1>3, <2>6
  <2> QED
    BY <1>4, <1>6, <2>4, <2>5, <2>8, <2>10, <2>11
<1> QED
  BY <1>5, <1>6

\* What holds of a choice until the stream ends: term if fix_finish_reason saw
\* its finish reason, syn if it made one itself, after which the engine sends no more.
Live(o, s, f, reasoning, term, syn) ==
    /\ o \in Seq(Outputs) /\ s \in States /\ Settled(s) /\ s.finish = f /\ f \in Reasons
    /\ Count(o) + s.reasoning = reasoning
    /\ s.reasoning = 0 \/ HasDeferredOutput(s)
    /\ f # None => (term <=> ~ HasDeferredOutput(s))
    /\ term => f # None /\ EndsWith(o, Told(o, f))
    /\ syn => ~ term /\ Contains(o, "call") /\ EndsWith(o, "tool_calls")
    /\ OneFinish(o) /\ (term \/ syn \/ ~ HasFinish(o))

\* What holds of it when the stream has ended.
Done(o, s, f, reasoning, syn) ==
    /\ o \in Seq(Outputs) /\ s \in States /\ Settled(s) /\ f \in Reasons
    /\ Count(o) = reasoning /\ s.reasoning = 0
    /\ ~ syn => OneFinish(o)

\* A chunk keeps what holds of its choice.
LEMMA LiveChunk ==
  ASSUME NEW o, NEW s, NEW reasoning \in Nat, NEW term \in BOOLEAN,
         Live(o, s, None, reasoning, term, FALSE),
         NEW why \in Reasons, NEW more \in Nat, NEW r, IsChunk(r, why, s.reasoning + more)
  PROVE  Live(YieldAll(o, r.emissions), r.state, why, reasoning + more,
              term \/ (\E i \in DOMAIN r.emissions : r.emissions[i].finish # None), FALSE)
<1> DEFINE es == r.emissions
           p == YieldAll(o, es)
           t == r.state
           last == LastFinish(es)
           first == FirstReasoning(es)
           seen == \E i \in DOMAIN es : es[i].finish # None
<1>1. /\ o \in Seq(Outputs) /\ s \in States /\ Count(o) + s.reasoning = reasoning
      /\ ~ term /\ ~ HasFinish(o)
  BY DEF Live
<1>2. /\ t \in States /\ Settled(t) /\ t.finish = why /\ Shaped(es)
      /\ last = IF HasDeferredOutput(t) THEN None ELSE why
      /\ first + t.reasoning = s.reasoning + more
      /\ t.reasoning = 0 \/ HasDeferredOutput(t)
  BY DEF IsChunk
<1>3. IsDelivery(o, p, first, last)
  BY <1>1, <1>2, YieldFacts
<1>4. first \in Nat
  <2>1. es \in Seq(Emissions)
    BY <1>2 DEF Shaped
  <2>2. es # <<>> => es[1] \in Emissions
    BY <2>1
  <2> QED
    BY <2>2 DEF FirstReasoning, Emissions
<1>5. last \in Reasons /\ None \in Reasons
  BY <1>2 DEF Reasons
<1>6. seen <=> last # None
  <2>1. /\ es \in Seq(Emissions) /\ DOMAIN es = 1..Len(es) /\ Len(es) \in Nat /\ (es = <<>> <=> Len(es) = 0)
        /\ \A i \in 1..Len(es) : i < Len(es) => es[i].finish = None
    BY <1>2 DEF Shaped
  <2>2. CASE es = <<>>
    BY <2>1, <2>2 DEF LastFinish
  <2>3. CASE es # <<>>
    <3>1. Len(es) \in 1..Len(es) /\ last = es[Len(es)].finish
      BY <2>1, <2>3 DEF LastFinish
    <3>2. \A i \in 1..Len(es) : i < Len(es) \/ i = Len(es)
      BY <2>1
    <3> HIDE DEF es, last
    <3> QED
      BY <2>1, <3>1, <3>2
  <2> QED
    BY <2>2, <2>3
<1> HIDE DEF es, p, t, last, first, seen
<1>7. /\ p \in Seq(Outputs) /\ Count(p) = Count(o) + first
      /\ \A x : Contains(o, x) => Contains(p, x)
      /\ last = None /\ ~ HasFinish(o) => ~ HasFinish(p)
      /\ last # None => EndsWith(p, Told(p, last))
      /\ ~ HasFinish(o) => OneFinish(p)
  BY <1>1, <1>3, <1>4, <1>5, DeliveryFacts
<1>8. Count(o) \in Nat /\ s.reasoning \in Nat /\ t.reasoning \in Nat
  BY <1>1, <1>2, CountFacts DEF States
<1>9. Count(p) + t.reasoning = reasoning + more
  <2>1. Count(o) + s.reasoning = reasoning /\ first + t.reasoning = s.reasoning + more
        /\ Count(p) = Count(o) + first
    BY <1>1, <1>2, <1>7
  <2>2. \A a, b, d, e, g \in Nat : a + b = reasoning /\ d + e = b + more /\ g = a + d => g + e = reasoning + more
    OBVIOUS
  <2>3. Count(p) \in Nat
    BY <1>7, CountFacts
  <2> QED
    BY <1>4, <1>8, <2>1, <2>2, <2>3
<1>10. term \/ seen <=> last # None
  BY <1>1, <1>6
<1>11. Live(p, t, why, reasoning + more, term \/ seen, FALSE)
  BY <1>1, <1>2, <1>7, <1>9, <1>10 DEF Live
<1> QED
  BY <1>11 DEF p, t, es, seen

\* A chunk without content, which yields at most its reasoning and finish reason.
LEMMA ContentlessChunk ==
  ASSUME NEW s \in States, Settled(s), s.reasoning = 0 \/ HasDeferredOutput(s),
         NEW more \in Nat
  PROVE  LET pass == [Emission("pass", <<>>, 0) EXCEPT
                         !.reasoning = s.reasoning + more,
                         !.finish = IF HasDeferredOutput(s) THEN None ELSE s.finish]
         IN  /\ IsChunk([state |-> [s EXCEPT !.reasoning = 0], emissions |-> <<pass>>],
                        s.finish, s.reasoning + more)
             /\ HasDeferredOutput(s)
                   => IsChunk([state |-> s, emissions |-> <<>>], s.finish, s.reasoning)
<1> DEFINE why == IF HasDeferredOutput(s) THEN None ELSE s.finish
           total == s.reasoning + more
           e == Emission("pass", <<>>, 0)
           pass == [e EXCEPT !.reasoning = total, !.finish = why]
           t == [s EXCEPT !.reasoning = 0]
<1>1. s.reasoning \in Nat /\ s.finish \in Reasons /\ why \in Reasons /\ total \in Nat
  BY DEF States, Reasons
<1> HIDE DEF total, why
<1>3. pass \in Emissions /\ pass.kind = "pass" /\ pass.reasoning = total /\ pass.finish = why
  <2>1. "pass" \in Kinds /\ <<>> \in Text /\ 0 \in Nat
    BY DEF Kinds, Text
  <2>2. e \in Emissions /\ e.kind = "pass"
    BY <2>1, BareEmission
  <2> HIDE DEF e
  <2> QED
    BY <1>1, <2>2 DEF Emissions
<1> HIDE DEF pass, e
<1>4. /\ t \in States /\ t.reasoning = 0 /\ t.finish = s.finish
      /\ t.is_jailed = s.is_jailed /\ t.partial = s.partial /\ t.accumulated = s.accumulated
      /\ t.searched = s.searched
  BY DEF States
<1> HIDE DEF t
<1>5. Settled(t) /\ (HasDeferredOutput(t) <=> HasDeferredOutput(s))
  BY <1>4 DEF Settled, HasDeferredOutput
<1>6. Shaped(<<>>) /\ FirstReasoning(<<>>) = 0 /\ LastFinish(<<>>) = None
  <2>1. <<>> \in Seq(Emissions) /\ AllPass(<<>>)
    BY DEF AllPass
  <2>2. InOrder(<<>>)
    BY <1>3, <2>1, AppendOrder
  <2> QED
    BY <2>1, <2>2 DEF Shaped, FirstReasoning, LastFinish
<1> DEFINE es == <<pass>>
<1>7. es \in Seq(Emissions) /\ Len(es) = 1 /\ es[1] = pass /\ es # <<>>
  BY <1>3
<1> HIDE DEF es
<1>8. Shaped(es) /\ FirstReasoning(es) = total /\ LastFinish(es) = why
  <2>1. AllPass(es)
    BY <1>3, <1>7 DEF AllPass
  <2>2. InOrder(es)
    BY <1>3, <1>7, <2>1, AppendOrder
  <2> QED
    BY <1>3, <1>7, <2>2 DEF Shaped, FirstReasoning, LastFinish
<1>9. IsChunk([state |-> t, emissions |-> es], s.finish, total)
  <2> DEFINE x == [state |-> t, emissions |-> es]
  <2>1. x.state = t /\ x.emissions = es /\ total + 0 = total
    BY <1>1
  <2> HIDE DEF x
  <2>2. IsChunk(x, s.finish, total)
    BY <1>4, <1>5, <1>8, <2>1 DEF IsChunk, why
  <2> QED
    BY <2>2 DEF x
<1>10. HasDeferredOutput(s) => IsChunk([state |-> s, emissions |-> <<>>], s.finish, s.reasoning)
  <2> DEFINE x == [state |-> s, emissions |-> <<>>]
  <2>1. x.state = s /\ x.emissions = <<>> /\ 0 + s.reasoning = s.reasoning
    BY <1>1
  <2> HIDE DEF x
  <2>2. HasDeferredOutput(s) => IsChunk(x, s.finish, s.reasoning)
    BY <1>6, <2>1 DEF IsChunk
  <2> QED
    BY <2>2 DEF x
<1> QED
  BY <1>9, <1>10 DEF t, es, pass, e, why, total

\* What a tool_calls added at the end changes of the output.
LEMMA EndedByFilter ==
  ASSUME NEW o \in Seq(Outputs)
  PROVE  LET p == Append(o, "tool_calls")
         IN  /\ p \in Seq(Outputs) /\ Count(p) = Count(o) /\ Contains(p, "tool_calls")
             /\ \A x : Contains(p, x) <=> Contains(o, x) \/ x = "tool_calls"
             /\ EndsWith(p, "tool_calls") /\ (~ HasFinish(o) => OneFinish(p))
<1> DEFINE t == <<"tool_calls">>
           p == Append(o, "tool_calls")
<1>1. "tool_calls" \in Outputs /\ "tool_calls" \in FinishReasons
  BY DEF Outputs, FinishReasons
<1>2. /\ p \in Seq(Outputs) /\ Len(p) = Len(o) + 1 /\ p[Len(p)] = "tool_calls" /\ Len(p) \in 1..Len(p)
      /\ \A i \in 1..Len(o) : p[i] = o[i] /\ i \in 1..Len(p)
      /\ \A i \in 1..Len(p) : i \in 1..Len(o) \/ i = Len(p)
  BY <1>1
<1>3. p = o \o t /\ t \in Seq(Outputs)
  BY <1>1
<1>4. Count(t) = 0
  <2>1. t \in Seq({"tool_calls"}) /\ "reasoning" \notin {"tool_calls"}
    OBVIOUS
  <2> HIDE DEF t
  <2> QED
    BY <2>1, CountFacts
<1> HIDE DEF p, t
<1>5. Count(p) = Count(o) + 0
  BY <1>3, <1>4, CountConcat
<1>6. Count(o) \in Nat
  BY CountFacts
<1>7. \A x : Contains(p, x) <=> Contains(o, x) \/ x = "tool_calls"
  BY <1>2 DEF Contains
<1>8. EndsWith(p, "tool_calls") /\ (~ HasFinish(o) => OneFinish(p))
  BY <1>1, <1>2 DEF EndsWith, HasFinish, OneFinish
<1>9. p \in Seq(Outputs) /\ Count(p) = Count(o) /\ Contains(p, "tool_calls")
  BY <1>2, <1>5, <1>6, <1>7
<1> QED
  BY <1>7, <1>8, <1>9 DEF p

\* fix_finish_reason ends a choice that made calls and has no finish reason yet.
LEMMA LiveSynthesized ==
  ASSUME NEW o, NEW s, NEW f, NEW reasoning \in Nat, NEW term \in BOOLEAN, NEW syn \in BOOLEAN,
         Live(o, s, f, reasoning, term, syn), Contains(o, "call"), ~ term, ~ syn
  PROVE  Live(Append(o, "tool_calls"), s, f, reasoning, term, TRUE)
<1> DEFINE p == Append(o, "tool_calls")
<1>1. o \in Seq(Outputs)
  BY DEF Live
<1>2. /\ p \in Seq(Outputs) /\ Count(p) = Count(o) /\ Contains(p, "tool_calls")
      /\ \A x : Contains(p, x) <=> Contains(o, x) \/ x = "tool_calls"
      /\ EndsWith(p, "tool_calls") /\ (~ HasFinish(o) => OneFinish(p))
  BY <1>1, EndedByFilter
<1> HIDE DEF p
<1>3. Live(p, s, f, reasoning, term, TRUE)
  BY <1>2 DEF Live
<1> QED
  BY <1>3 DEF p

\* A chunk that emits nothing changes no output.
LEMMA YieldNothing ==
  ASSUME NEW o \in Seq(Outputs)
  PROVE  YieldAll(o, <<>>) = o
<1> DEFINE es == <<>>
<1>1. es \in Seq(Emissions) /\ AllPass(es) /\ Len(es) = 0
  BY DEF AllPass
<1>2. InOrder(es)
  BY <1>1 DEF InOrder, AllPass
<1> HIDE DEF es
<1>3. PICK d : IsFold(d, o, es)
  BY <1>1, FoldExists
<1>4. YieldAll(o, es) = d[Len(es)]
  BY <1>1, <1>2, <1>3, BucketsKeepOrder
<1> QED
  BY <1>1, <1>3, <1>4 DEF IsFold, es

\* finalize emits what is held, with its reasoning and finish reason.
LEMMA FinalizeFacts ==
  ASSUME NEW s \in States
  PROVE  /\ Shaped(Finalize(s))
         /\ Finalize(s) = <<>> <=> ~ HasDeferredOutput(s)
         /\ FirstReasoning(Finalize(s)) = IF HasDeferredOutput(s) THEN s.reasoning ELSE 0
         /\ LastFinish(Finalize(s)) = IF HasDeferredOutput(s) THEN s.finish ELSE None
<1> DEFINE e == Emission("call", s.partial, 0)
           final == [e EXCEPT !.reasoning = s.reasoning, !.finish = s.finish]
           jailed == [final EXCEPT !.text = NormalText(s.accumulated), !.calls = RecoveredCalls(s.accumulated)]
           one == IF s.is_jailed THEN jailed ELSE final
           es == Finalize(s)
<1>1. /\ s.partial \in Text /\ s.accumulated \in Text /\ s.reasoning \in Nat /\ s.finish \in Reasons
      /\ "call" \in Kinds /\ 0 \in Nat
  BY DEF States, Kinds
<1>2. e \in Emissions /\ e.kind = "call"
  BY <1>1, BareEmission
<1>3. NormalText(s.accumulated) \in Text /\ RecoveredCalls(s.accumulated) \in Nat
  BY <1>1, NormalTextType, CallCounts
<1>4. es = IF HasDeferredOutput(s) THEN <<one>> ELSE <<>>
  BY DEF Finalize, HasDeferredOutput
<1> HIDE DEF e
<1>5. final \in Emissions /\ final.kind = "call" /\ final.reasoning = s.reasoning /\ final.finish = s.finish
  BY <1>1, <1>2 DEF Emissions
<1> HIDE DEF final
<1>6. jailed \in Emissions /\ jailed.kind = "call" /\ jailed.reasoning = s.reasoning /\ jailed.finish = s.finish
  BY <1>3, <1>5 DEF Emissions
<1> HIDE DEF jailed
<1>7. one \in Emissions /\ one.kind = "call" /\ one.reasoning = s.reasoning /\ one.finish = s.finish
  BY <1>5, <1>6
<1> HIDE DEF one, es
<1>8. CASE ~ HasDeferredOutput(s)
  <2>1. es = <<>> /\ es \in Seq(Emissions) /\ AllPass(es)
    BY <1>4, <1>8 DEF AllPass
  <2>2. InOrder(es)
    BY <1>7, <2>1, AppendOrder
  <2>3. Shaped(es) /\ FirstReasoning(es) = 0 /\ LastFinish(es) = None
    BY <2>1, <2>2 DEF Shaped, FirstReasoning, LastFinish
  <2> QED
    BY <1>8, <2>1, <2>3 DEF es
<1>9. CASE HasDeferredOutput(s)
  <2>1. es = <<one>> /\ es \in Seq(Emissions) /\ Len(es) = 1 /\ es[1] = one /\ es # <<>>
    BY <1>4, <1>7, <1>9
  <2>2. InOrder(es)
    <3>1. 0 \in 0..Len(es) /\ 1 \in 0..Len(es)
      BY <2>1
    <3>2. \A i \in 1..Len(es) : es[i].kind = IF i <= 0 THEN "pass" ELSE IF i <= 1 THEN "call" ELSE "trailing"
      BY <1>7, <2>1
    <3> QED
      BY <3>1, <3>2 DEF InOrder
  <2>3. Shaped(es) /\ FirstReasoning(es) = s.reasoning /\ LastFinish(es) = s.finish
    BY <1>7, <2>1, <2>2 DEF Shaped, FirstReasoning, LastFinish
  <2> QED
    BY <1>9, <2>1, <2>3 DEF es
<1> QED
  BY <1>8, <1>9

\* The end of the stream for one choice: finalize, then the backstop.
LEMMA LiveEnds ==
  ASSUME NEW o, NEW s, NEW f, NEW reasoning \in Nat, NEW term \in BOOLEAN, NEW syn \in BOOLEAN,
         Live(o, s, f, reasoning, term, syn),
         NEW ended \in BOOLEAN, ended <=> term \/ (Finalize(s) # <<>> /\ s.finish # None),
         NEW made \in BOOLEAN, made <=> Contains(YieldAll(o, Finalize(s)), "call") /\ ~ ended /\ ~ syn
  PROVE  /\ Done(IF made THEN Append(YieldAll(o, Finalize(s)), "tool_calls") ELSE YieldAll(o, Finalize(s)),
                 IF Finalize(s) = <<>> THEN s ELSE [InitialState EXCEPT !.finish = s.finish],
                 f, reasoning, syn \/ made)
         /\ ~ (syn /\ HasDeferredOutput(s)) =>
               TurnOver(IF made THEN Append(YieldAll(o, Finalize(s)), "tool_calls")
                        ELSE YieldAll(o, Finalize(s)), f)
<1> DEFINE es == Finalize(s)
           q == YieldAll(o, es)
           p == IF made THEN Append(q, "tool_calls") ELSE q
           t == IF es = <<>> THEN s ELSE [InitialState EXCEPT !.finish = s.finish]
           deferred == HasDeferredOutput(s)
<1>1. /\ o \in Seq(Outputs) /\ s \in States /\ Settled(s) /\ s.finish = f /\ f \in Reasons
      /\ Count(o) + s.reasoning = reasoning /\ (s.reasoning = 0 \/ deferred)
  BY DEF Live
<1>2. /\ Shaped(es) /\ (es = <<>> <=> ~ deferred)
      /\ FirstReasoning(es) = (IF deferred THEN s.reasoning ELSE 0)
      /\ LastFinish(es) = (IF deferred THEN f ELSE None)
  BY <1>1, FinalizeFacts
<1>3. t \in States /\ Settled(t) /\ t.reasoning = 0
  <2> DEFINE u == [InitialState EXCEPT !.finish = s.finish]
  <2>1. u \in States /\ u.reasoning = 0 /\ ~ u.is_jailed /\ u.accumulated = <<>> /\ u.searched = 0
        /\ u.partial = <<>>
    <3>1. <<>> \in Text
      BY DEF Text
    <3> QED
      BY <1>1, <3>1 DEF InitialState, States
  <2> HIDE DEF u
  <2>2. Settled(u)
    BY <2>1, NoMarkerYet DEF Settled
  <2> QED
    BY <1>1, <1>2, <2>1, <2>2 DEF u
<1>4. IsDelivery(o, q, FirstReasoning(es), LastFinish(es)) /\ q \in Seq(Outputs)
  BY <1>1, <1>2, YieldFacts
<1>5. ~ deferred => q = o
  BY <1>1, <1>2, YieldNothing
<1>6. Count(o) \in Nat /\ s.reasoning \in Nat
  BY <1>1, CountFacts DEF States
<1>7. FirstReasoning(es) \in Nat /\ LastFinish(es) \in Reasons
  BY <1>1, <1>2, <1>6 DEF Reasons
<1>8. (ended <=> term \/ (deferred /\ f # None)) /\ (made <=> Contains(q, "call") /\ ~ ended /\ ~ syn)
  BY <1>1, <1>2
<1> HIDE DEF es, q, t, deferred
<1>9. /\ Count(q) = Count(o) + FirstReasoning(es)
      /\ deferred /\ f # None => EndsWith(q, Told(q, f))
      /\ deferred /\ f = None /\ ~ HasFinish(o) => ~ HasFinish(q)
      /\ ~ HasFinish(o) => OneFinish(q)
  BY <1>1, <1>2, <1>4, <1>7, DeliveryFacts
<1>10. Count(q) = reasoning
  <2>1. Count(q) = Count(o) + (IF deferred THEN s.reasoning ELSE 0) /\ Count(o) + s.reasoning = reasoning
        /\ (s.reasoning = 0 \/ deferred)
    BY <1>1, <1>2, <1>9
  <2> QED
    BY <1>6, <2>1
<1>11. /\ f # None => (term <=> ~ deferred)
       /\ term => f # None /\ EndsWith(o, Told(o, f))
       /\ syn => ~ term /\ Contains(o, "call") /\ EndsWith(o, "tool_calls")
       /\ OneFinish(o) /\ (term \/ syn \/ ~ HasFinish(o))
  BY DEF Live, deferred
<1>12. ~ (syn /\ deferred) => OneFinish(q)
  BY <1>5, <1>9, <1>11
<1>13. ~ made /\ ~ (syn /\ deferred) => TurnOver(q, f)
  <2>1. ASSUME ~ made, ~ (syn /\ deferred), f # None PROVE EndsWith(q, Told(q, f)) /\ Told(q, f) # None
    BY <1>5, <1>9, <1>11, <2>1 DEF Told, None
  <2>2. ASSUME ~ made, ~ (syn /\ deferred), f = None, ~ syn PROVE ~ HasFinish(q) /\ Told(q, f) = None
    BY <1>5, <1>8, <1>9, <1>11, <2>2 DEF Told, None
  <2>3. ASSUME ~ deferred, f = None, syn PROVE EndsWith(q, Told(q, f)) /\ Told(q, f) # None
    BY <1>5, <1>11, <2>3 DEF Told, None
  <2> QED
    BY <1>12, <2>1, <2>2, <2>3 DEF TurnOver
<1>14. CASE ~ made
  <2>1. ~ (syn \/ made) => OneFinish(q)
    BY <1>12
  <2>2. Done(q, t, f, reasoning, syn \/ made)
    BY <1>1, <1>3, <1>4, <1>10, <1>14, <2>1 DEF Done
  <2> QED
    BY <1>13, <1>14, <2>2 DEF q, t, es, deferred
<1>15. CASE made
  <2> DEFINE a == Append(q, "tool_calls")
  <2>1. /\ a \in Seq(Outputs) /\ Count(a) = Count(q) /\ EndsWith(a, "tool_calls")
        /\ \A x : Contains(a, x) <=> Contains(q, x) \/ x = "tool_calls"
        /\ ~ HasFinish(q) => OneFinish(a)
    BY <1>4, EndedByFilter
  <2> HIDE DEF a
  <2>2. Done(a, t, f, reasoning, syn \/ made)
    BY <1>1, <1>3, <1>10, <1>15, <2>1 DEF Done
  <2>3. f = None /\ ~ HasFinish(q)
    BY <1>5, <1>8, <1>9, <1>11, <1>15
  <2>4. Told(a, f) = "tool_calls" /\ "tool_calls" # None /\ OneFinish(a)
    BY <1>8, <1>15, <2>1, <2>3 DEF Told, None
  <2>5. TurnOver(a, f)
    BY <2>1, <2>4 DEF TurnOver
  <2> QED
    BY <1>15, <2>2, <2>5 DEF a, q, t, es
<1> QED
  BY <1>14, <1>15

-----------------------------------------------------------------------------
(* The stream.                                                             *)

JailTypes ==
    /\ input \in Inputs /\ pos \in [Indices -> Nat] /\ engineFinish \in [Indices -> Reasons]
    /\ \A c \in Indices : pos[c] <= Len(input[c])
    /\ reasoned \in [Indices -> 0..MaxReasoning]
    /\ state \in [Indices -> States] /\ out \in [Indices -> Seq(Outputs)]
    /\ terminated \subseteq Indices /\ synthesized \subseteq Indices

Streaming(c) == Live(out[c], state[c], engineFinish[c], reasoned[c], c \in terminated, c \in synthesized)
Over(c) == Done(out[c], state[c], engineFinish[c], reasoned[c], c \in synthesized)

\* The inductive invariant.
JailInv ==
    /\ JailTypes
    /\ phase = "streaming" => synthesized = {}
    /\ \A c \in Indices : IF phase = "ended" THEN Over(c) ELSE Streaming(c)

\* Every input is a text.
LEMMA InputTypes ==
  ASSUME input \in Inputs, NEW c \in Indices
  PROVE  input[c] \in Seq(Letters) /\ Len(input[c]) \in Nat
<1>1. input \in [Indices -> Seq(Letters)]
  BY JailConstants
<1> QED
  BY <1>1

\* The initial states.
LEMMA JailStarts ==
  ASSUME Init
  PROVE  JailInv
<1>1. InitialState \in States /\ Settled(InitialState) /\ ~ HasDeferredOutput(InitialState)
      /\ InitialState.finish = None /\ InitialState.reasoning = 0
  <2>1. <<>> \in Text
    BY DEF Text
  <2>2. InitialState \in States
    BY <2>1 DEF InitialState, States, Reasons
  <2> QED
    BY <2>2, NoMarkerYet DEF InitialState, Settled, HasDeferredOutput
<1>2. /\ <<>> \in Seq(Outputs) /\ Count(<<>>) = 0
      /\ ~ HasFinish(<<>>) /\ OneFinish(<<>>)
  <2> DEFINE o == <<>>
  <2>1. o \in Seq({"call"}) /\ "reasoning" \notin {"call"} /\ Len(o) = 0
    OBVIOUS
  <2>2. o \in Seq(Outputs)
    OBVIOUS
  <2> HIDE DEF o
  <2>3. Count(o) = 0
    BY <2>1, CountFacts
  <2>4. ~ HasFinish(o) /\ OneFinish(o)
    BY <2>1 DEF HasFinish, OneFinish
  <2> QED
    BY <2>2, <2>3, <2>4 DEF o
<1>3. None \in Reasons /\ 0 \in 0..MaxReasoning
  BY JailConstants DEF Reasons
<1>4. JailTypes
  BY <1>1, <1>2, <1>3, InputTypes DEF Init, JailTypes
<1>5. Live(<<>>, InitialState, None, 0, FALSE, FALSE)
  BY <1>1, <1>2, <1>3 DEF Live
<1>6. ASSUME NEW c \in Indices PROVE Streaming(c)
  <2>1. /\ out[c] = <<>> /\ state[c] = InitialState /\ engineFinish[c] = None /\ reasoned[c] = 0
        /\ (c \in terminated) = FALSE /\ (c \in synthesized) = FALSE
    BY DEF Init
  <2> QED
    BY <1>1, <1>2, <1>3, <2>1 DEF Streaming, Live
<1>7. phase # "ended" /\ synthesized = {}
  BY DEF Init
<1> QED
  BY <1>4, <1>6, <1>7 DEF JailInv

\* What the engine sends of a choice with a chunk of n letters.
LEMMA YieldKeeps ==
  ASSUME JailInv, NEW c \in Indices, NEW n \in Nat, NEW why \in Reasons, NEW reasons \in BOOLEAN, NEW r,
         Send(c, n, why, reasons), Yield(c, r),
         IsChunk(r, why, state[c].reasoning + (IF reasons THEN 1 ELSE 0))
  PROVE  JailInv'
<1> DEFINE more == IF reasons THEN 1 ELSE 0
           seen == \E i \in DOMAIN r.emissions : r.emissions[i].finish # None
<1>1. JailTypes /\ phase = "streaming" /\ engineFinish[c] = None /\ phase' = phase
  BY DEF JailInv, Send
<1>2. more \in Nat /\ reasoned[c] \in Nat /\ reasoned[c] + more \in 0..MaxReasoning
  BY <1>1, JailConstants DEF JailTypes, Send
<1>3. Streaming(c) /\ synthesized = {}
  BY <1>1 DEF JailInv
<1>4. Live(out[c], state[c], None, reasoned[c], c \in terminated, FALSE)
  BY <1>1, <1>3 DEF Streaming, Live
<1>5. Live(YieldAll(out[c], r.emissions), r.state, why, reasoned[c] + more, c \in terminated \/ seen, FALSE)
  <2> DEFINE term == c \in terminated
  <2>1. term \in BOOLEAN
    OBVIOUS
  <2>2. IsChunk(r, why, state[c].reasoning + more)
    OBVIOUS
  <2>3. Live(out[c], state[c], None, reasoned[c], term, FALSE)
    BY <1>4
  <2> HIDE DEF term, more
  <2>4. Live(YieldAll(out[c], r.emissions), r.state, why, reasoned[c] + more,
              term \/ (\E i \in DOMAIN r.emissions : r.emissions[i].finish # None), FALSE)
    BY <1>2, <2>1, <2>2, <2>3, LiveChunk
  <2> QED
    BY <2>4 DEF term
<1>6. /\ state' = [state EXCEPT ![c] = r.state]
      /\ out' = [out EXCEPT ![c] = YieldAll(@, r.emissions)]
      /\ terminated' = terminated \union {d \in {c} : seen}
      /\ pos' = [pos EXCEPT ![c] = @ + n] /\ pos[c] + n <= Len(input[c])
      /\ engineFinish' = [engineFinish EXCEPT ![c] = why]
      /\ reasoned' = [reasoned EXCEPT ![c] = @ + more]
      /\ input' = input /\ synthesized' = synthesized
  BY DEF Yield, Send
<1> HIDE DEF more, seen
<1>7. YieldAll(out[c], r.emissions) \in Seq(Outputs) /\ r.state \in States
  BY <1>5 DEF Live
<1>8. JailTypes'
  <2>1. pos' \in [Indices -> Nat] /\ \A d \in Indices : pos'[d] <= Len(input'[d])
    BY <1>1, <1>6 DEF JailTypes
  <2>2. engineFinish' \in [Indices -> Reasons] /\ reasoned' \in [Indices -> 0..MaxReasoning]
    BY <1>1, <1>2, <1>6 DEF JailTypes
  <2>3. state' \in [Indices -> States] /\ out' \in [Indices -> Seq(Outputs)]
    BY <1>1, <1>6, <1>7 DEF JailTypes
  <2>4. terminated' \subseteq Indices /\ synthesized' \subseteq Indices /\ input' \in Inputs
    BY <1>1, <1>6 DEF JailTypes
  <2> QED
    BY <2>1, <2>2, <2>3, <2>4 DEF JailTypes
<1>9. ASSUME NEW d \in Indices PROVE Streaming(d)'
  <2>1. CASE d = c
    <3>1. /\ out'[c] = YieldAll(out[c], r.emissions) /\ state'[c] = r.state /\ engineFinish'[c] = why
          /\ reasoned'[c] = reasoned[c] + more
      BY <1>1, <1>6 DEF JailTypes
    <3>2. (c \in terminated' <=> c \in terminated \/ seen) /\ (c \in synthesized' <=> FALSE)
      BY <1>3, <1>6
    <3>3. Live(out'[c], state'[c], engineFinish'[c], reasoned'[c], c \in terminated', c \in synthesized')
      BY <1>5, <3>1, <3>2 DEF Live
    <3> QED
      BY <2>1, <3>3 DEF Streaming
  <2>2. CASE d # c
    <3>1. /\ out'[d] = out[d] /\ state'[d] = state[d] /\ engineFinish'[d] = engineFinish[d]
          /\ reasoned'[d] = reasoned[d]
      BY <1>1, <1>6, <2>2 DEF JailTypes
    <3>2. (d \in terminated' <=> d \in terminated) /\ (d \in synthesized' <=> d \in synthesized)
      BY <1>6, <2>2
    <3>3. Live(out[d], state[d], engineFinish[d], reasoned[d], d \in terminated, d \in synthesized)
      BY <1>1 DEF JailInv, Streaming
    <3>4. Live(out'[d], state'[d], engineFinish'[d], reasoned'[d], d \in terminated', d \in synthesized')
      BY <3>1, <3>2, <3>3 DEF Live
    <3> QED
      BY <3>4 DEF Streaming
  <2> QED
    BY <2>1, <2>2
<1> QED
  BY <1>1, <1>3, <1>6, <1>8, <1>9 DEF JailInv

\* A chunk with content.
LEMMA ContentKeeps ==
  ASSUME JailInv, NEW c \in Indices, Content(c)
  PROVE  JailInv'
<1>1. PICK n \in 0..Len(input[c]), why \in EngineReasons \union {None}, reasons \in BOOLEAN :
        /\ Send(c, n, why, reasons)
        /\ LET s == [state[c] EXCEPT !.finish = why, !.reasoning = @ + (IF reasons THEN 1 ELSE 0)]
               text == SubSeq(input[c], pos[c] + 1, pos[c] + n)
           IN  Yield(c, AttachReasoning(Normalize(ProcessContent(s, text), why)))
  BY DEF Content
<1> DEFINE more == IF reasons THEN 1 ELSE 0
           s == [state[c] EXCEPT !.finish = why, !.reasoning = @ + more]
           text == SubSeq(input[c], pos[c] + 1, pos[c] + n)
           r == AttachReasoning(Normalize(ProcessContent(s, text), why))
<1>2. JailTypes /\ phase = "streaming" /\ Streaming(c)
  BY <1>1 DEF JailInv, Send
<1>3. input[c] \in Seq(Letters) /\ Len(input[c]) \in Nat
  BY <1>2, InputTypes DEF JailTypes
<1>4. state[c] \in States /\ Settled(state[c])
  BY <1>2 DEF Streaming, Live
<1>5. why \in Reasons /\ more \in Nat /\ state[c].reasoning \in Nat
  BY <1>4 DEF Reasons, States
<1>6. s \in States /\ s.finish = why /\ s.reasoning = state[c].reasoning + more
      /\ s.is_jailed = state[c].is_jailed /\ s.accumulated = state[c].accumulated
      /\ s.partial = state[c].partial /\ s.searched = state[c].searched
  <2> HIDE DEF more
  <2>1. state[c].reasoning + more \in Nat
    BY <1>5
  <2> QED
    BY <1>4, <1>5, <2>1 DEF States
<1>7. text \in Text
  <2>1. pos[c] \in Nat /\ pos[c] + n <= Len(input[c]) /\ n \in Nat
    BY <1>1, <1>2, <1>3 DEF JailTypes, Send
  <2>2. pos[c] + 1 \in Nat \ {0} /\ pos[c] + n \in Int
    BY <2>1
  <2> QED
    BY <1>3, <2>1, <2>2, SliceFacts DEF Text
<1>8. Send(c, n, why, reasons) /\ Yield(c, r)
  BY <1>1
<1>9. n \in Nat
  BY <1>3
<1> HIDE DEF s, text
<1>10. Settled(s)
  BY <1>4, <1>6 DEF Settled
<1>11. IsChunk(r, why, state[c].reasoning + more)
  <2>1. IsChunk(AttachReasoning(Normalize(ProcessContent(s, text), s.finish)), s.finish, s.reasoning)
    BY <1>6, <1>7, <1>10, ContentChunk
  <2> QED
    BY <1>6, <2>1
<1> HIDE DEF r
<1> QED
  BY <1>5, <1>8, <1>9, <1>11, YieldKeeps

\* A chunk without content.
LEMMA ContentlessKeeps ==
  ASSUME JailInv, NEW c \in Indices, Contentless(c)
  PROVE  JailInv'
<1>1. PICK why \in EngineReasons \union {None}, reasons \in BOOLEAN :
        /\ Send(c, 0, why, reasons)
        /\ LET s == [state[c] EXCEPT !.finish = IF why = None THEN @ ELSE why]
               pass == [Emission("pass", <<>>, 0) EXCEPT
                           !.reasoning = s.reasoning + (IF reasons THEN 1 ELSE 0),
                           !.finish = IF HasDeferredOutput(s) THEN None ELSE why]
           IN  Yield(c, IF reasons \/ ~ HasDeferredOutput(s)
                        THEN [state |-> [s EXCEPT !.reasoning = 0], emissions |-> <<pass>>]
                        ELSE [state |-> s, emissions |-> <<>>])
  BY DEF Contentless
<1> DEFINE more == IF reasons THEN 1 ELSE 0
           s == [state[c] EXCEPT !.finish = IF why = None THEN @ ELSE why]
           pass == [Emission("pass", <<>>, 0) EXCEPT
                       !.reasoning = s.reasoning + more,
                       !.finish = IF HasDeferredOutput(s) THEN None ELSE why]
           full == [state |-> [s EXCEPT !.reasoning = 0], emissions |-> <<pass>>]
           none == [state |-> s, emissions |-> <<>>]
           r == IF reasons \/ ~ HasDeferredOutput(s) THEN full ELSE none
<1>2. JailTypes /\ phase = "streaming" /\ Streaming(c) /\ engineFinish[c] = None
  BY <1>1 DEF JailInv, Send
<1>3. /\ state[c] \in States /\ Settled(state[c]) /\ state[c].finish = None
      /\ state[c].reasoning = 0 \/ HasDeferredOutput(state[c])
  BY <1>2 DEF Streaming, Live
<1>4. why \in Reasons /\ more \in Nat /\ state[c].reasoning \in Nat
  BY <1>3 DEF Reasons, States
<1>5. Send(c, 0, why, reasons) /\ Yield(c, r)
  BY <1>1
<1>6. s \in States /\ s.finish = why /\ s.reasoning = state[c].reasoning
      /\ s.is_jailed = state[c].is_jailed /\ s.accumulated = state[c].accumulated
      /\ s.partial = state[c].partial /\ s.searched = state[c].searched
  BY <1>3, <1>4 DEF States
<1> DEFINE pass2 == [Emission("pass", <<>>, 0) EXCEPT
                        !.reasoning = s.reasoning + more,
                        !.finish = IF HasDeferredOutput(s) THEN None ELSE s.finish]
           full2 == [state |-> [s EXCEPT !.reasoning = 0], emissions |-> <<pass2>>]
<1>7. full2 = full
  BY <1>6
<1> HIDE DEF s, more
<1>8. Settled(s) /\ (s.reasoning = 0 \/ HasDeferredOutput(s))
  BY <1>3, <1>6 DEF Settled, HasDeferredOutput
<1>9. /\ IsChunk(full2, s.finish, s.reasoning + more)
      /\ HasDeferredOutput(s) => IsChunk(none, s.finish, s.reasoning)
  BY <1>4, <1>6, <1>8, ContentlessChunk
<1>10. ~ reasons => more = 0
  BY DEF more
<1> HIDE DEF full, full2, none
<1>11. IsChunk(r, why, s.reasoning + more)
  <2>1. CASE reasons \/ ~ HasDeferredOutput(s)
    BY <1>6, <1>7, <1>9, <2>1
  <2>2. CASE ~ (reasons \/ ~ HasDeferredOutput(s))
    <3>1. s.reasoning + more = s.reasoning
      BY <1>4, <1>6, <1>10, <2>2
    <3> QED
      BY <1>6, <1>9, <2>2, <3>1
  <2> QED
    BY <2>1, <2>2
<1>12. IsChunk(r, why, state[c].reasoning + (IF reasons THEN 1 ELSE 0))
  BY <1>6, <1>11 DEF more
<1> HIDE DEF r
<1> QED
  BY <1>4, <1>5, <1>12, YieldKeeps

\* The usage-only chunk.
LEMMA UsageKeeps ==
  ASSUME JailInv, Usage
  PROVE  JailInv'
<1> DEFINE made == Unterminated(out, terminated)
<1>1. JailTypes /\ phase = "streaming" /\ phase' = "usage" /\ \A c \in Indices : Streaming(c)
  BY DEF JailInv, Usage
<1>2. /\ synthesized' = synthesized \union made
      /\ out' = [c \in Indices |-> IF c \in made THEN Append(out[c], "tool_calls") ELSE out[c]]
      /\ input' = input /\ pos' = pos /\ engineFinish' = engineFinish /\ reasoned' = reasoned
      /\ state' = state /\ terminated' = terminated
  BY DEF Usage, Synthesize, engine
<1>3. made = {c \in Indices : Contains(out[c], "call") /\ c \notin terminated \union synthesized}
  BY DEF Unterminated
<1> HIDE DEF made
<1>4. ASSUME NEW c \in Indices PROVE out'[c] \in Seq(Outputs) /\ Streaming(c)'
  <2> DEFINE term == c \in terminated
             syn == c \in synthesized
  <2>1. term \in BOOLEAN /\ syn \in BOOLEAN
    OBVIOUS
  <2>2. reasoned[c] \in Nat
    BY <1>1, JailConstants DEF JailTypes
  <2>3. Live(out[c], state[c], engineFinish[c], reasoned[c], term, syn)
    BY <1>1 DEF Streaming
  <2>4. /\ state'[c] = state[c] /\ engineFinish'[c] = engineFinish[c] /\ reasoned'[c] = reasoned[c]
        /\ (c \in terminated' <=> term) /\ (c \in synthesized' <=> syn \/ c \in made)
    BY <1>2
  <2>5. c \in made <=> Contains(out[c], "call") /\ ~ term /\ ~ syn
    BY <1>3
  <2> HIDE DEF term, syn
  <2>6. CASE c \in made
    <3>1. Live(Append(out[c], "tool_calls"), state[c], engineFinish[c], reasoned[c], term, TRUE)
      BY <2>1, <2>2, <2>3, <2>5, <2>6, LiveSynthesized
    <3>2. out'[c] = Append(out[c], "tool_calls")
      BY <1>2, <2>6
    <3>3. Live(out'[c], state'[c], engineFinish'[c], reasoned'[c], c \in terminated', c \in synthesized')
      BY <2>4, <2>6, <3>1, <3>2 DEF Live
    <3> QED
      BY <3>3 DEF Streaming, Live
  <2>7. CASE c \notin made
    <3>1. out'[c] = out[c]
      BY <1>2, <2>7
    <3>2. Live(out'[c], state'[c], engineFinish'[c], reasoned'[c], c \in terminated', c \in synthesized')
      BY <2>3, <2>4, <2>7, <3>1 DEF Live
    <3> QED
      BY <3>2 DEF Streaming, Live
  <2> QED
    BY <2>6, <2>7
<1>5. JailTypes'
  <2>1. out' \in [Indices -> Seq(Outputs)]
    BY <1>2, <1>4
  <2>2. synthesized' \subseteq Indices
    BY <1>1, <1>2, <1>3 DEF JailTypes
  <2> QED
    BY <1>1, <1>2, <2>1, <2>2 DEF JailTypes
<1> QED
  BY <1>1, <1>4, <1>5 DEF JailInv

\* The end of the stream, and of every turn but those that were ended too early.
LEMMA EndKeeps ==
  ASSUME JailInv, EndOfStream
  PROVE  /\ JailInv'
         /\ \A c \in Indices : ~ EndedTooEarly(c) => TurnOver(out'[c], engineFinish'[c])
<1> DEFINE last == [c \in Indices |-> Finalize(state[c])]
           ended == terminated \union {c \in Indices : last[c] # <<>> /\ state[c].finish # None}
           delivered == [c \in Indices |-> YieldAll(out[c], last[c])]
           made == Unterminated(delivered, ended)
<1>1. JailTypes /\ phase # "ended" /\ phase' = "ended" /\ \A c \in Indices : Streaming(c)
  BY DEF JailInv, EndOfStream
<1>2. /\ terminated' = ended /\ synthesized' = synthesized \union made
      /\ out' = [c \in Indices |->
                    IF c \in made THEN Append(delivered[c], "tool_calls") ELSE delivered[c]]
      /\ state' = [c \in Indices |->
                      IF last[c] = <<>> THEN state[c] ELSE [InitialState EXCEPT !.finish = state[c].finish]]
      /\ input' = input /\ pos' = pos /\ engineFinish' = engineFinish /\ reasoned' = reasoned
  BY DEF EndOfStream, Synthesize, engine
<1>3. \A c \in Indices : last[c] = Finalize(state[c]) /\ delivered[c] = YieldAll(out[c], Finalize(state[c]))
  OBVIOUS
<1>4. /\ \A c \in Indices : c \in ended <=> c \in terminated \/ (last[c] # <<>> /\ state[c].finish # None)
      /\ terminated \subseteq Indices => ended \subseteq Indices
  OBVIOUS
<1>5. made = {c \in Indices : Contains(delivered[c], "call") /\ c \notin ended \union synthesized}
  BY DEF Unterminated
<1> HIDE DEF last, ended, delivered, made
<1>6. ASSUME NEW c \in Indices
      PROVE  /\ out'[c] \in Seq(Outputs) /\ state'[c] \in States /\ Over(c)'
             /\ ~ EndedTooEarly(c) => TurnOver(out'[c], engineFinish'[c])
  <2> DEFINE o == out[c]
             s == state[c]
             q == YieldAll(o, Finalize(s))
             term == c \in terminated
             syn == c \in synthesized
             end == c \in ended
             mine == c \in made
  <2>1. term \in BOOLEAN /\ syn \in BOOLEAN /\ end \in BOOLEAN /\ mine \in BOOLEAN
    OBVIOUS
  <2>2. reasoned[c] \in Nat
    BY <1>1, JailConstants DEF JailTypes
  <2>3. Live(o, s, engineFinish[c], reasoned[c], term, syn)
    BY <1>1 DEF Streaming
  <2>4. end <=> term \/ (Finalize(s) # <<>> /\ s.finish # None)
    BY <1>3, <1>4
  <2>5. mine <=> Contains(YieldAll(o, Finalize(s)), "call") /\ ~ end /\ ~ syn
    BY <1>3, <1>5
  <2>6. /\ out'[c] = (IF mine THEN Append(q, "tool_calls") ELSE q)
        /\ state'[c] = IF Finalize(s) = <<>> THEN s ELSE [InitialState EXCEPT !.finish = s.finish]
        /\ engineFinish'[c] = engineFinish[c] /\ reasoned'[c] = reasoned[c]
        /\ (c \in synthesized' <=> syn \/ mine)
    BY <1>2, <1>3
  <2>9. EndedTooEarly(c) <=> syn /\ HasDeferredOutput(s)
    BY DEF EndedTooEarly
  <2> HIDE DEF o, s, term, syn, end, mine
  <2>7. Done(IF mine THEN Append(YieldAll(o, Finalize(s)), "tool_calls") ELSE YieldAll(o, Finalize(s)),
             IF Finalize(s) = <<>> THEN s ELSE [InitialState EXCEPT !.finish = s.finish],
             engineFinish[c], reasoned[c], syn \/ mine)
        /\ (~ (syn /\ HasDeferredOutput(s)) =>
               TurnOver(IF mine THEN Append(YieldAll(o, Finalize(s)), "tool_calls")
                        ELSE YieldAll(o, Finalize(s)), engineFinish[c]))
    BY <2>1, <2>2, <2>3, <2>4, <2>5, LiveEnds
  <2> HIDE DEF q
  <2>8. Done(out'[c], state'[c], engineFinish'[c], reasoned'[c], c \in synthesized')
    BY <2>6, <2>7 DEF Done, q
  <2>10. ~ EndedTooEarly(c) => TurnOver(out'[c], engineFinish'[c])
    BY <2>6, <2>7, <2>9 DEF q
  <2> QED
    BY <2>8, <2>10 DEF Over, Done
<1>7. JailTypes'
  <2>1. DOMAIN out' = Indices /\ out' = [c \in Indices |-> out'[c]]
        /\ DOMAIN state' = Indices /\ state' = [c \in Indices |-> state'[c]]
    BY <1>2
  <2>2. out' \in [Indices -> Seq(Outputs)] /\ state' \in [Indices -> States]
    BY <1>6, <2>1
  <2>3. synthesized' \subseteq Indices /\ terminated' \subseteq Indices
    BY <1>1, <1>2, <1>4, <1>5 DEF JailTypes
  <2> QED
    BY <1>1, <1>2, <2>2, <2>3 DEF JailTypes
<1> QED
  BY <1>1, <1>6, <1>7 DEF JailInv

\* The invariant holds of every behaviour.
LEMMA JailInvariant == Spec => []JailInv
<1>1. Init => JailInv
  BY JailStarts
<1>2. JailInv /\ [Next]_vars => JailInv'
  <2> SUFFICES ASSUME JailInv, [Next]_vars PROVE JailInv'
    OBVIOUS
  <2>1. ASSUME NEW c \in Indices, Content(c) PROVE JailInv'
    BY <2>1, ContentKeeps
  <2>2. ASSUME NEW c \in Indices, Contentless(c) PROVE JailInv'
    BY <2>2, ContentlessKeeps
  <2>3. CASE Usage
    BY <2>3, UsageKeeps
  <2>4. CASE EndOfStream
    BY <2>4, EndKeeps
  <2>5. CASE UNCHANGED vars
    BY <2>5 DEF vars, engine, JailInv, JailTypes, Streaming, Over
  <2> QED
    BY <2>1, <2>2, <2>3, <2>4, <2>5 DEF Next
<1> QED
  BY <1>1, <1>2, PTL DEF Spec

\* What the invariant says of one choice, whether the stream has ended or not.
LEMMA ChoiceFacts ==
  ASSUME JailInv, NEW c \in Indices
  PROVE  /\ JailTypes /\ state[c] \in States /\ Settled(state[c]) /\ out[c] \in Seq(Outputs)
         /\ state[c].reasoning <= reasoned[c]
         /\ c \notin synthesized => OneFinish(out[c])
<1>1. reasoned[c] \in Nat
  BY JailConstants DEF JailInv, JailTypes
<1>2. CASE phase = "ended"
  BY <1>1, <1>2 DEF JailInv, Over, Done
<1>3. CASE phase # "ended"
  <2>1. Live(out[c], state[c], engineFinish[c], reasoned[c], c \in terminated, c \in synthesized) /\ JailTypes
    BY <1>3 DEF JailInv, Streaming
  <2>2. /\ state[c] \in States /\ Settled(state[c]) /\ out[c] \in Seq(Outputs)
        /\ Count(out[c]) + state[c].reasoning = reasoned[c]
        /\ OneFinish(out[c])
    BY <2>1 DEF Live
  <2>3. Count(out[c]) \in Nat /\ state[c].reasoning \in Nat
    BY <2>2, CountFacts DEF States
  <2> QED
    BY <1>1, <2>1, <2>2, <2>3
<1> QED
  BY <1>2, <1>3

-----------------------------------------------------------------------------

\* apply() yields a chunk in three buckets: the client gets the emissions in the
\* order process_content made them all the same, each emission once, whatever the
\* held text and the chunk ("Ordering invariant", jail/mod.rs:2262).
THEOREM ChunkOrderIsKept ==
  ASSUME NEW s \in States, Settled(s), NEW content \in Text, NEW o \in Seq(Outputs)
  PROVE  LET es == AttachReasoning(Normalize(ProcessContent(s, content), s.finish)).emissions
         IN  \E d : IsFold(d, o, es) /\ YieldAll(o, es) = d[Len(es)]
<1> DEFINE r == AttachReasoning(Normalize(ProcessContent(s, content), s.finish))
           es == r.emissions
<1>1. IsChunk(r, s.finish, s.reasoning)
  BY ContentChunk
<1> HIDE DEF r
<1>2. es \in Seq(Emissions) /\ InOrder(es)
  BY <1>1 DEF IsChunk, Shaped
<1> HIDE DEF es
<1>3. PICK d : IsFold(d, o, es)
  BY <1>2, FoldExists
<1>4. YieldAll(o, es) = d[Len(es)]
  BY <1>2, <1>3, BucketsKeepOrder
<1>5. \E e : IsFold(e, o, es) /\ YieldAll(o, es) = e[Len(es)]
  BY <1>3, <1>4
<1> QED
  BY <1>5 DEF es, r

\* The fields of every choice keep their types: the jail never searches past the
\* end of what it holds, and waits with no more reasoning than the engine sent.
THEOREM TypeCorrect == Spec => []TypeOK
<1>1. JailInv => TypeOK
  <2> SUFFICES ASSUME JailInv PROVE TypeOK
    OBVIOUS
  <2>1. JailTypes
    BY DEF JailInv
  <2>2. pos \in [Indices -> Nat] /\ reasoned \in [Indices -> 0..MaxReasoning]
        /\ engineFinish \in [Indices -> EngineReasons \union {None}]
        /\ terminated \subseteq Indices /\ synthesized \subseteq Indices
    BY <2>1 DEF JailTypes, Reasons
  <2>3. ASSUME NEW c \in Indices
        PROVE  /\ state[c].is_jailed \in BOOLEAN
               /\ state[c].accumulated \in Seq(Letters) /\ state[c].partial \in Seq(Letters)
               /\ state[c].searched \in 0..Len(state[c].accumulated)
               /\ state[c].finish \in EngineReasons \union {None}
               /\ state[c].reasoning \in 0..MaxReasoning
               /\ out[c] \in Seq(Letters \union FinishReasons \union {"call", "reasoning"})
    <3>1. state[c] \in States /\ Settled(state[c]) /\ out[c] \in Seq(Outputs)
          /\ state[c].reasoning <= reasoned[c]
      BY ChoiceFacts
    <3>2. reasoned[c] \in 0..MaxReasoning
      BY <2>2
    <3>3. state[c].reasoning \in 0..MaxReasoning
      BY <3>1, <3>2, JailConstants DEF States
    <3>4. /\ state[c].accumulated \in Text /\ state[c].partial \in Text
          /\ state[c].is_jailed \in BOOLEAN /\ state[c].searched \in Nat
          /\ state[c].finish \in EngineReasons \union {None}
      BY <3>1 DEF States, Reasons
    <3>5. Len(state[c].accumulated) \in Nat
      BY <3>4 DEF Text
    <3>6. state[c].searched = 0 \/ state[c].searched = Len(state[c].accumulated)
      BY <3>1 DEF Settled
    <3> QED
      BY <3>1, <3>3, <3>4, <3>5, <3>6 DEF Text, Outputs
  <2> QED
    BY <2>2, <2>3 DEF TypeOK
<1> QED
  BY <1>1, JailInvariant, PTL

\* Outside a jail a choice holds back no more than the beginning of a start
\* marker, and inside one it has no partial marker that finalize would forget,
\* whatever the engine generates and however it is cut into chunks.
THEOREM MarkersWait == Spec => []OnlyMarkersWait
<1>1. JailInv => OnlyMarkersWait
  BY ChoiceFacts DEF OnlyMarkersWait, Settled
<1> QED
  BY <1>1, JailInvariant, PTL

\* The incremental search of find_incremental_end_marker, which looks only at the
\* new text and the letters before it that a marker may have begun in, misses no
\* end marker: a call that stays jailed after a search is still open.
THEOREM OpenCallsWait == Spec => []OnlyOpenCallsWait
<1>1. JailInv => OnlyOpenCallsWait
  <2> SUFFICES ASSUME JailInv, NEW c \in Indices, state[c].is_jailed, state[c].searched > 0
               PROVE  ~ Occurs(state[c].accumulated, EndMarker)
    BY DEF OnlyOpenCallsWait
  <2>1. Settled(state[c])
    BY ChoiceFacts
  <2> QED
    BY <2>1 DEF Settled
<1> QED
  BY <1>1, JailInvariant, PTL

\* Of a choice that fix_finish_reason did not end itself, the finish reason comes
\* once and last, for any number of choices, chunks and calls.
THEOREM FinishComesLast == Spec => []FinishIsLast
<1>1. JailInv => FinishIsLast
  <2> SUFFICES ASSUME JailInv, NEW c \in Indices, c \notin synthesized,
                      NEW i \in DOMAIN out[c], out[c][i] \in FinishReasons
               PROVE  i = Len(out[c])
    BY DEF FinishIsLast
  <2>1. OneFinish(out[c]) /\ out[c] \in Seq(Outputs)
    BY ChoiceFacts
  <2>2. DOMAIN out[c] = 1..Len(out[c])
    BY <2>1
  <2> QED
    BY <2>1, <2>2 DEF OneFinish
<1> QED
  BY <1>1, JailInvariant, PTL

\* When the stream ends, a turn with calls ends in tool_calls, once and last, unless
\* the engine said length, and one without keeps the engine's reason, for any number of
\* choices, chunks and calls; only a choice that fix_finish_reason had ended while the
\* jail held text of it does not.
THEOREM TurnsEndForTheirCalls == Spec => TurnEndsForItsCalls
<1>1. JailInv /\ [Next]_vars => [EndOfStream => \A c \in Indices : ~ EndedTooEarly(c) => TurnEnds(c)']_vars
  <2> SUFFICES ASSUME JailInv, EndOfStream, NEW c \in Indices, ~ EndedTooEarly(c)
               PROVE  TurnEnds(c)'
    OBVIOUS
  <2>1. JailInv' /\ TurnOver(out'[c], engineFinish'[c])
    BY EndKeeps
  <2>2. out'[c] \in Seq(Outputs)
    BY <2>1 DEF JailInv, JailTypes
  <2>3. PICK o, f : o = out'[c] /\ f = engineFinish'[c]
    OBVIOUS
  <2>4. Reason(c)' = Told(o, f)
    BY <2>3 DEF Reason, Told
  <2>5. /\ {i \in DOMAIN o : o[i] \in FinishReasons} = IF Told(o, f) = None THEN {} ELSE {Len(o)}
        /\ Told(o, f) # None => Last(o) = Told(o, f)
    <3>1. o \in Seq(Outputs) /\ DOMAIN o = 1..Len(o) /\ TurnOver(o, f)
      BY <2>1, <2>2, <2>3
    <3>2. CASE Told(o, f) = None
      BY <3>1, <3>2 DEF TurnOver, HasFinish
    <3>3. CASE Told(o, f) # None
      <4>1. f \in Reasons
        BY <2>1, <2>3 DEF JailInv, JailTypes
      <4>2. Told(o, f) \in FinishReasons
        BY <3>3, <4>1 DEF Told, Reasons, FinishReasons
      <4> QED
        BY <3>1, <3>3, <4>2 DEF TurnOver, EndsWith, OneFinish, Last
    <3> QED
      BY <3>2, <3>3
  <2> QED
    BY <2>3, <2>4, <2>5 DEF TurnEnds
<1> QED
  BY <1>1, JailInvariant, PTL DEF Spec, TurnEndsForItsCalls

\* When the stream has ended, the client has had all the reasoning the engine
\* sent, that of the chunks the jail swallowed included.
THEOREM AllReasoningIsDelivered == Spec => []ReasoningIsDelivered
<1>1. JailInv => ReasoningIsDelivered
  BY DEF JailInv, Over, Done, Count, ReasoningIsDelivered
<1> QED
  BY <1>1, JailInvariant, PTL

-----------------------------------------------------------------------------
(* The text of an output: what Written makes of it.                        *)

\* What the client rebuilds of an item: a call as the engine wrote it.
Word(x) == IF x = "call" THEN Call ELSE IF x \in Letters THEN <<x>> ELSE <<>>

Flat(o) == FlattenSeq([i \in DOMAIN o |-> Word(o[i])])

\* The texts of its beginnings.
IsWriting(w, o) ==
    /\ w \in [0..Len(o) -> Text] /\ w[0] = <<>>
    /\ \A i \in 1..Len(o) : w[i] = w[i - 1] \o Word(o[i])

\* What an item of the output writes is a text.
LEMMA WordType ==
  ASSUME NEW x
  PROVE  Word(x) \in Text
<1>1. Call \in Text /\ <<>> \in Text
  BY DEF Call, StartMarker, EndMarker, Text, Letters
<1>2. x \in Letters => <<x>> \in Text
  BY DEF Text
<1> QED
  BY <1>1, <1>2 DEF Word

\* Texts joined are a text.
LEMMA TextConcat ==
  ASSUME NEW t \in Text, NEW u \in Text
  PROVE  t \o u \in Text /\ Len(t \o u) = Len(t) + Len(u)
BY DEF Text

\* Every output has the texts of its beginnings.
LEMMA WritingExists ==
  ASSUME NEW A, NEW o \in Seq(A)
  PROVE  \E w : IsWriting(w, o)
<1> DEFINE n == Len(o)
           e == <<>>
           step == [a \in (1..n) \X Text |-> a[2] \o Word(o[a[1]])]
<1>1. n \in Nat /\ e \in Text
  BY DEF Text
<1>2. step \in [(1..n) \X Text -> Text]
  <2>1. ASSUME NEW a \in (1..n) \X Text PROVE a[2] \o Word(o[a[1]]) \in Text
    BY WordType, TextConcat
  <2> QED
    BY <2>1
<1> HIDE DEF n, step, e
<1>3. PICK g : Iterated(g, n, Text, e, step)
  BY <1>1, <1>2, ForwardRecursion
<1>4. g \in [0..n -> Text] /\ g[0] = e /\ \A i \in 1..n : g[i] = step[<<i, g[i - 1]>>]
  BY <1>3 DEF Iterated
<1>5. ASSUME NEW i \in 1..n PROVE g[i] = g[i - 1] \o Word(o[i])
  <2>1. i - 1 \in 0..n /\ g[i - 1] \in Text
    BY <1>1, <1>4
  <2> QED
    BY <1>4, <2>1 DEF step
<1> QED
  BY <1>4, <1>5 DEF IsWriting, n, e

FlattenEquation(flatten, seqs) ==
    flatten = [i \in 1..Len(seqs) |-> IF i = 1 THEN seqs[i] ELSE flatten[i - 1] \o seqs[i]]

Flatten(seqs) == CHOOSE flatten : FlattenEquation(flatten, seqs)

\* FlattenSeq, its recursive function named.
LEMMA FlattenSeqIs ==
  ASSUME NEW seqs
  PROVE  FlattenSeq(seqs) = IF Len(seqs) = 0 THEN seqs ELSE Flatten(seqs)[Len(seqs)]
BY Zenon DEF FlattenSeq, Flatten, FlattenEquation

\* Written takes the last of them.
LEMMA FlatIs ==
  ASSUME NEW A, NEW o \in Seq(A), NEW w, IsWriting(w, o)
  PROVE  Flat(o) = w[Len(o)]
<1> DEFINE n == Len(o)
           words == [i \in DOMAIN o |-> Word(o[i])]
           f == Flatten(words)
<1>1. n \in Nat /\ DOMAIN o = 1..n
  OBVIOUS
<1>2. words = [i \in 1..n |-> Word(o[i])]
  BY <1>1
<1>3. words \in Seq(Text) /\ Len(words) = n /\ \A i \in 1..n : words[i] = Word(o[i])
  BY <1>1, <1>2, WordType
<1>4. Flat(o) = IF n = 0 THEN words ELSE f[n]
  BY <1>3, FlattenSeqIs DEF Flat
<1>5. w \in [0..n -> Text] /\ w[0] = <<>> /\ \A i \in 1..n : w[i] = w[i - 1] \o Word(o[i])
  BY DEF IsWriting
<1>6. CASE n = 0
  <2>1. words = <<>>
    BY <1>3, <1>6
  <2> QED
    BY <1>4, <1>5, <1>6, <2>1
<1>7. CASE n # 0
  <2> DEFINE g == [i \in 1..n |-> w[i]]
  <2>1. g = [i \in 1..n |-> IF i = 1 THEN words[i] ELSE g[i - 1] \o words[i]]
    <3>1. ASSUME NEW i \in 1..n PROVE w[i] = IF i = 1 THEN words[i] ELSE g[i - 1] \o words[i]
      <4>1. CASE i = 1
        <5>1. w[i] = <<>> \o Word(o[i]) /\ Word(o[i]) \in Text
          BY <1>5, <4>1, WordType
        <5> QED
          BY <1>3, <4>1, <5>1 DEF Text
      <4>2. CASE i # 1
        <5>1. i - 1 \in 1..n
          BY <1>1, <4>2
        <5> QED
          BY <1>3, <1>5, <4>2, <5>1
      <4> QED
        BY <4>1, <4>2
    <3> QED
      BY <3>1
  <2> HIDE DEF g
  <2>2. FlattenEquation(g, words)
    BY <1>3, <2>1 DEF FlattenEquation
  <2> HIDE DEF words
  <2>3. FlattenEquation(f, words)
    BY <2>2 DEF Flatten
  <2> HIDE DEF f
  <2>4. f = [i \in 1..n |-> IF i = 1 THEN words[i] ELSE f[i - 1] \o words[i]]
    BY <1>3, <2>3 DEF FlattenEquation
  <2> DEFINE G == {m \in 0..n : m = 0 \/ f[m] = w[m]}
  <2>5. 0 \in G
    BY <1>1
  <2>6. ASSUME NEW m \in 0..n, m < n, m \in G PROVE m + 1 \in G
    <3>1. m + 1 \in 1..n /\ (m + 1) - 1 = m
      BY <1>1, <2>6
    <3>2. w[m + 1] = w[m] \o Word(o[m + 1]) /\ words[m + 1] = Word(o[m + 1])
      BY <1>3, <1>5, <3>1
    <3>3. f[m + 1] = IF m + 1 = 1 THEN words[m + 1] ELSE f[(m + 1) - 1] \o words[m + 1]
      BY <2>4, <3>1
    <3>4. CASE m = 0
      <4>1. 1 \in 1..n /\ m + 1 = 1 /\ w[0] = <<>>
        BY <1>1, <1>5, <1>7, <3>4
      <4>2. w[1] = w[0] \o Word(o[1]) /\ words[1] = Word(o[1]) /\ Word(o[1]) \in Text
        <5>1. w[1] = w[1 - 1] \o Word(o[1]) /\ words[1] = Word(o[1])
          BY <1>3, <1>5, <4>1
        <5>2. 1 - 1 = 0
          OBVIOUS
        <5> QED
          BY <5>1, <5>2, WordType
      <4>3. f[1] = words[1]
        BY <2>4, <4>1
      <4>4. <<>> \o Word(o[1]) = Word(o[1])
        BY <4>2 DEF Text
      <4>5. f[1] = w[1]
        BY <4>1, <4>2, <4>3, <4>4
      <4> QED
        BY <3>1, <4>1, <4>5
    <3>5. CASE m # 0
      <4>1. f[m + 1] = f[m] \o words[m + 1]
        <5>1. m + 1 # 1 /\ (m + 1) - 1 = m
          BY <1>1, <3>5
        <5>2. f[(m + 1) - 1] = f[m]
          BY <5>1
        <5> QED
          BY <3>3, <5>1, <5>2, Zenon
      <4>2. f[m] = w[m]
        BY <2>6, <3>5
      <4>3. f[m + 1] = w[m + 1]
        BY <3>2, <4>1, <4>2
      <4> QED
        BY <3>1, <4>3
    <3> QED
      BY <3>4, <3>5
  <2> HIDE DEF G
  <2>7. \A m \in 0..n : m \in G
    BY <1>1, <2>5, <2>6, BoundedInduction
  <2>8. n \in G
    BY <1>1, <2>7
  <2>9. f[n] = w[n]
    BY <1>7, <2>8 DEF G
  <2> QED
    BY <1>4, <1>7, <2>9
<1> QED
  BY <1>6, <1>7

\* What an output writes is a text.
LEMMA FlatType ==
  ASSUME NEW A, NEW o \in Seq(A)
  PROVE  Flat(o) \in Text
<1>1. PICK w : IsWriting(w, o)
  BY WritingExists
<1>2. w \in [0..Len(o) -> Text] /\ Len(o) \in 0..Len(o)
  BY <1>1 DEF IsWriting
<1> QED
  BY <1>1, <1>2, FlatIs

\* The text of what is sent after something else.
LEMMA FlatConcat ==
  ASSUME NEW A, NEW o \in Seq(A), NEW r \in Seq(A)
  PROVE  Flat(o \o r) = Flat(o) \o Flat(r)
<1> DEFINE p == o \o r
           n == Len(o)
           k == Len(r)
<1>1. /\ p \in Seq(A) /\ n \in Nat /\ k \in Nat /\ Len(p) = n + k
      /\ \A i \in 1..n : p[i] = o[i]
      /\ \A i \in 1..k : p[n + i] = r[i]
  OBVIOUS
<1> HIDE DEF p
<1>2. PICK w : IsWriting(w, p)
  BY <1>1, WritingExists
<1>3. PICK v : IsWriting(v, r)
  BY WritingExists
<1>4. PICK u : IsWriting(u, o)
  BY WritingExists
<1>5. /\ Flat(p) = w[n + k] /\ Flat(r) = v[k] /\ Flat(o) = u[n]
  BY <1>1, <1>2, <1>3, <1>4, FlatIs
<1>6. /\ w \in [0..n + k -> Text] /\ w[0] = <<>> /\ \A i \in 1..n + k : w[i] = w[i - 1] \o Word(p[i])
      /\ v \in [0..k -> Text] /\ v[0] = <<>> /\ \A i \in 1..k : v[i] = v[i - 1] \o Word(r[i])
      /\ u \in [0..n -> Text] /\ u[0] = <<>> /\ \A i \in 1..n : u[i] = u[i - 1] \o Word(o[i])
  BY <1>1, <1>2, <1>3, <1>4 DEF IsWriting
<1> HIDE DEF n, k
<1>7. w[n] = u[n]
  <2> DEFINE G == {m \in 0..n : w[m] = u[m]}
  <2>1. 0 \in G
    BY <1>1, <1>6
  <2>2. ASSUME NEW m \in 0..n, m < n, m \in G PROVE m + 1 \in G
    <3>1. m + 1 \in 1..n /\ m + 1 \in 1..n + k /\ (m + 1) - 1 = m
      BY <1>1, <2>2
    <3> QED
      <4>1. w[m + 1] = w[(m + 1) - 1] \o Word(p[m + 1]) /\ u[m + 1] = u[(m + 1) - 1] \o Word(o[m + 1])
        BY <1>6, <3>1
      <4>2. w[(m + 1) - 1] = u[(m + 1) - 1] /\ p[m + 1] = o[m + 1]
        BY <1>1, <2>2, <3>1
      <4>3. w[m + 1] = u[m + 1] /\ m + 1 \in 0..n
        BY <1>1, <3>1, <4>1, <4>2
      <4> QED
        BY <4>3
  <2> HIDE DEF G
  <2>3. \A m \in 0..n : m \in G
    BY <1>1, <2>1, <2>2, BoundedInduction
  <2>4. n \in G
    BY <1>1, <2>3
  <2> QED
    BY <2>4 DEF G
<1>8. w[n + k] = u[n] \o v[k]
  <2> DEFINE G == {m \in 0..k : w[n + m] = u[n] \o v[m]}
  <2>1. 0 \in G
    <3>1. u[n] \in Text /\ n + 0 = n
      BY <1>1, <1>6
    <3>2. u[n] \o <<>> = u[n]
      BY <3>1 DEF Text
    <3> QED
      <4>1. w[n + 0] = u[n] \o v[0]
        BY <1>6, <1>7, <3>1, <3>2
      <4>2. 0 \in 0..k
        BY <1>1
      <4> QED
        BY <4>1, <4>2, Zenon
  <2>2. ASSUME NEW m \in 0..k, m < k, m \in G PROVE m + 1 \in G
    <3>1. m + 1 \in 1..k /\ n + (m + 1) \in 1..n + k /\ (m + 1) - 1 = m /\ (n + (m + 1)) - 1 = n + m
      BY <1>1, <2>2
    <3>2. w[n + (m + 1)] = w[n + m] \o Word(p[n + (m + 1)]) /\ p[n + (m + 1)] = r[m + 1]
      BY <1>1, <1>6, <3>1
    <3>3. v[m + 1] = v[m] \o Word(r[m + 1])
      BY <1>6, <3>1
    <3>4. w[n + m] = u[n] \o v[m]
      BY <2>2
    <3>5. u[n] \in Text /\ v[m] \in Text /\ Word(r[m + 1]) \in Text
      BY <1>1, <1>6, WordType
    <3> DEFINE a == u[n]
               b == v[m]
               d == Word(r[m + 1])
    <3>6. (a \o b) \o d = a \o (b \o d)
      <4>1. a \in Seq(Letters) /\ b \in Seq(Letters) /\ d \in Seq(Letters)
        BY <3>5 DEF Text
      <4> HIDE DEF a, b, d
      <4> QED
        BY <4>1, ConcatAssociative
    <3>7. w[n + (m + 1)] = (a \o b) \o d /\ v[m + 1] = b \o d
      BY <3>2, <3>3, <3>4
    <3>8. w[n + (m + 1)] = a \o v[m + 1]
      BY <3>6, <3>7
    <3>9. m + 1 \in 0..k
      BY <1>1, <3>1
    <3> QED
      BY <3>8, <3>9
  <2> HIDE DEF G
  <2>3. \A m \in 0..k : m \in G
    BY <1>1, <2>1, <2>2, BoundedInduction
  <2>4. k \in G
    BY <1>1, <2>3
  <2> QED
    BY <2>4 DEF G
<1> QED
  BY <1>5, <1>8 DEF p

\* The texts of letters, and of other words.
LEMMA FlatOne ==
  ASSUME NEW x
  PROVE  Flat(<<x>>) = Word(x)
<1> DEFINE o == <<x>>
           w == [i \in 0..1 |-> IF i = 0 THEN <<>> ELSE Word(x)]
<1>1. o \in Seq({x}) /\ Len(o) = 1 /\ o[1] = x
  OBVIOUS
<1>2. <<>> \in Text /\ Word(x) \in Text
  BY WordType DEF Text
<1>3. <<>> \o Word(x) = Word(x)
  BY <1>2 DEF Text
<1>4. w \in [0..1 -> Text] /\ w[0] = <<>> /\ w[1] = Word(x)
  BY <1>2
<1> HIDE DEF o, w
<1>5. IsWriting(w, o)
  <2>1. \A i \in 1..1 : i = 1 /\ i - 1 = 0
    OBVIOUS
  <2>2. w[1] = w[0] \o Word(o[1])
    BY <1>1, <1>3, <1>4
  <2>3. \A i \in 1..1 : w[i] = w[i - 1] \o Word(o[i])
    BY <2>1, <2>2
  <2> QED
    BY <1>1, <1>4, <2>3 DEF IsWriting
<1>6. Flat(o) = w[Len(o)]
  BY <1>1, <1>5, FlatIs
<1> QED
  BY <1>1, <1>4, <1>6 DEF o

\* An output of finish reasons and reasoning writes nothing.
LEMMA FlatSilent ==
  ASSUME NEW A, NEW o \in Seq(A), \A x \in A : Word(x) = <<>>
  PROVE  Flat(o) = <<>>
<1> DEFINE n == Len(o)
           e == <<>>
           w == [i \in 0..n |-> e]
<1>1. n \in Nat /\ e \in Text /\ e \o e = e
  BY DEF Text
<1>2. \A i \in 1..n : Word(o[i]) = e
  OBVIOUS
<1> HIDE DEF e
<1>3. IsWriting(w, o)
  <2>1. w \in [0..n -> Text] /\ w[0] = e /\ \A i \in 1..n : w[i] = e /\ w[i - 1] = e
    BY <1>1
  <2> HIDE DEF w
  <2>2. \A i \in 1..n : w[i] = w[i - 1] \o Word(o[i])
    BY <1>1, <1>2, <2>1
  <2> QED
    BY <2>1, <2>2 DEF IsWriting, e
<1>4. Flat(o) = w[n]
  BY <1>3, FlatIs
<1> QED
  BY <1>1, <1>4 DEF e

\* An output of letters writes them.
LEMMA FlatText ==
  ASSUME NEW t \in Text
  PROVE  Flat(t) = t
<1> DEFINE n == Len(t)
           w == [i \in 0..n |-> SubSeq(t, 1, i)]
<1>1. n \in Nat /\ t \in Seq(Letters)
  BY DEF Text
<1>2. \A i \in 0..n : SubSeq(t, 1, i) \in Text
  BY <1>1, SliceFacts DEF Text
<1>3. ASSUME NEW i \in 1..n PROVE SubSeq(t, 1, i) = SubSeq(t, 1, i - 1) \o Word(t[i])
  <2>1. t[i] \in Letters
    BY <1>1
  <2>3. "call" \notin Letters
    BY DEF Letters
  <2>2. Word(t[i]) = <<t[i]>>
    BY <2>1, <2>3 DEF Word
  <2> QED
    BY <1>1, <2>2
<1>4. SubSeq(t, 1, 0) = <<>> /\ SubSeq(t, 1, n) = t
  BY <1>1
<1>5. IsWriting(w, t)
  <2>1. w \in [0..n -> Text] /\ w[0] = <<>>
    BY <1>1, <1>2, <1>4
  <2>2. ASSUME NEW i \in 1..n PROVE w[i] = w[i - 1] \o Word(t[i])
    <3>1. w[i] = SubSeq(t, 1, i) /\ w[i - 1] = SubSeq(t, 1, i - 1)
      BY <1>1
    <3> QED
      BY <1>3, <3>1
  <2> HIDE DEF w
  <2> QED
    BY <2>1, <2>2 DEF IsWriting
<1>6. Flat(t) = w[n]
  BY <1>1, <1>5, FlatIs
<1> QED
  BY <1>1, <1>4, <1>6

-----------------------------------------------------------------------------
(* The markers and calls of a text, letter by letter.                      *)

\* A start marker, an end marker and a whole call at a place of a text.
IsStart(t, i) == i \in 1..Len(t) - 2 /\ t[i] = "<" /\ t[i + 1] = "tool" /\ t[i + 2] = ">"

IsEnd(t, i) == i \in 1..Len(t) - 1 /\ t[i] = "</" /\ t[i + 1] = "end"

IsCall(t, i) ==
    /\ i \in 1..Len(t) - 6
    /\ t[i] = "<" /\ t[i + 1] = "tool" /\ t[i + 2] = ">" /\ t[i + 3] = "{" /\ t[i + 4] = "}"
    /\ t[i + 5] = "</" /\ t[i + 6] = "end"

\* Where the start marker is found, letter by letter.
LEMMA StartPlaces ==
  ASSUME NEW t \in Text, NEW from \in Nat \ {0}, NEW i
  PROVE  i \in Places(t, StartMarker, from) <=> IsStart(t, i) /\ from <= i
<1>1. t \in Seq(Letters) /\ Len(t) \in Nat
  BY DEF Text
<1>2. Len(StartMarker) = 3 /\ StartMarker[1] = "<" /\ StartMarker[2] = "tool" /\ StartMarker[3] = ">"
      /\ StartMarker \in Seq(Letters)
  BY DEF StartMarker, Letters
<1>3. ASSUME NEW j \in Int, from <= j, j <= Len(t) - 2
      PROVE  SubSeq(t, j, j + 2) = StartMarker <=> t[j] = "<" /\ t[j + 1] = "tool" /\ t[j + 2] = ">"
  <2> DEFINE s == SubSeq(t, j, j + 2)
  <2>1. j \in Nat \ {0} /\ j + 2 \in Int /\ j + 2 <= Len(t) /\ (j + 2) - j + 1 = 3
    BY <1>1, <1>3
  <2>2. s \in Seq(Letters) /\ Len(s) = 3 /\ \A k \in 1..3 : s[k] = t[j + k - 1]
    BY <1>1, <2>1, SliceFacts
  <2>3. s[1] = t[j] /\ s[2] = t[j + 1] /\ s[3] = t[j + 2]
    BY <2>1, <2>2
  <2> HIDE DEF s
  <2>4. s = StartMarker <=> s[1] = "<" /\ s[2] = "tool" /\ s[3] = ">"
    <3>1. s = StartMarker <=> \A k \in 1..3 : s[k] = StartMarker[k]
      BY <1>2, <2>2, SeqEqual
    <3> QED
      BY <1>2, <3>1
  <2> QED
    BY <2>3, <2>4 DEF s
<1>4. i \in Places(t, StartMarker, from)
      <=> i \in Int /\ from <= i /\ i <= Len(t) - 2 /\ SubSeq(t, i, i + 2) = StartMarker
  <2>1. Len(t) - 3 + 1 = Len(t) - 2 /\ \A j \in Int : j + 3 - 1 = j + 2
    BY <1>1
  <2>2. i \in Places(t, StartMarker, from)
        <=> i \in from..Len(t) - 2 /\ SubSeq(t, i, i + 3 - 1) = StartMarker
    BY <1>2, <2>1 DEF Places
  <2>3. i \in from..Len(t) - 2 <=> i \in Int /\ from <= i /\ i <= Len(t) - 2
    BY <1>1
  <2>4. i \in Int => SubSeq(t, i, i + 3 - 1) = SubSeq(t, i, i + 2)
    BY <2>1
  <2> QED
    BY <2>2, <2>3, <2>4
<1>5. IsStart(t, i) /\ from <= i
      <=> i \in Int /\ from <= i /\ i <= Len(t) - 2 /\ SubSeq(t, i, i + 2) = StartMarker
  <2>1. i \in 1..Len(t) - 2 /\ from <= i <=> i \in Int /\ from <= i /\ i <= Len(t) - 2
    BY <1>1
  <2> QED
    BY <1>3, <2>1 DEF IsStart
<1> QED
  BY <1>4, <1>5

\* Where the end marker is found, letter by letter.
LEMMA EndPlaces ==
  ASSUME NEW t \in Text, NEW from \in Nat \ {0}, NEW i
  PROVE  i \in Places(t, EndMarker, from) <=> IsEnd(t, i) /\ from <= i
<1>1. t \in Seq(Letters) /\ Len(t) \in Nat
  BY DEF Text
<1>2. Len(EndMarker) = 2 /\ EndMarker[1] = "</" /\ EndMarker[2] = "end" /\ EndMarker \in Seq(Letters)
  BY DEF EndMarker, Letters
<1>3. ASSUME NEW j \in Int, from <= j, j <= Len(t) - 1
      PROVE  SubSeq(t, j, j + 1) = EndMarker <=> t[j] = "</" /\ t[j + 1] = "end"
  <2> DEFINE s == SubSeq(t, j, j + 1)
  <2>1. j \in Nat \ {0} /\ j + 1 \in Int /\ j + 1 <= Len(t) /\ (j + 1) - j + 1 = 2
    BY <1>1, <1>3
  <2>2. s \in Seq(Letters) /\ Len(s) = 2 /\ \A k \in 1..2 : s[k] = t[j + k - 1]
    BY <1>1, <2>1, SliceFacts
  <2>3. s[1] = t[j] /\ s[2] = t[j + 1]
    <3>1. s[1] = t[j + 1 - 1] /\ s[2] = t[j + 2 - 1] /\ j + 1 - 1 = j /\ j + 2 - 1 = j + 1
      BY <2>1, <2>2
    <3> QED
      BY <3>1, Zenon
  <2> HIDE DEF s
  <2>4. s = EndMarker <=> s[1] = "</" /\ s[2] = "end"
    <3>1. s = EndMarker <=> \A k \in 1..2 : s[k] = EndMarker[k]
      BY <1>2, <2>2, SeqEqual
    <3> QED
      BY <1>2, <3>1
  <2> QED
    BY <2>3, <2>4 DEF s
<1>4. i \in Places(t, EndMarker, from)
      <=> i \in Int /\ from <= i /\ i <= Len(t) - 1 /\ SubSeq(t, i, i + 1) = EndMarker
  <2>1. Len(t) - 2 + 1 = Len(t) - 1 /\ \A j \in Int : j + 2 - 1 = j + 1
    BY <1>1
  <2>2. i \in Places(t, EndMarker, from)
        <=> i \in from..Len(t) - 1 /\ SubSeq(t, i, i + 2 - 1) = EndMarker
    BY <1>2, <2>1 DEF Places
  <2>3. i \in from..Len(t) - 1 <=> i \in Int /\ from <= i /\ i <= Len(t) - 1
    BY <1>1
  <2>4. i \in Int => SubSeq(t, i, i + 2 - 1) = SubSeq(t, i, i + 1)
    BY <2>1
  <2> QED
    BY <2>2, <2>3, <2>4
<1>5. IsEnd(t, i) /\ from <= i
      <=> i \in Int /\ from <= i /\ i <= Len(t) - 1 /\ SubSeq(t, i, i + 1) = EndMarker
  <2>1. i \in 1..Len(t) - 1 /\ from <= i <=> i \in Int /\ from <= i /\ i <= Len(t) - 1
    BY <1>1
  <2> QED
    BY <1>3, <2>1 DEF IsEnd
<1> QED
  BY <1>4, <1>5

\* One sequence is another and then a third.
IsConcat(u, s, t) ==
    /\ Len(u) = Len(s) + Len(t)
    /\ \A i \in 1..Len(s) : u[i] = s[i]
    /\ \A i \in 1..Len(t) : u[Len(s) + i] = t[i]

\* Joined sequences, letter by letter.
LEMMA ConcatLetters ==
  ASSUME NEW A, NEW s \in Seq(A), NEW t \in Seq(A)
  PROVE  s \o t \in Seq(A) /\ IsConcat(s \o t, s, t)
BY DEF IsConcat

\* The letters of a start marker and a body.
LEMMA ThreeAndTwo ==
  ASSUME NEW u, NEW s, NEW t, IsConcat(u, s, t), Len(s) = 3, Len(t) = 2
  PROVE  Len(u) = 5 /\ u[1] = s[1] /\ u[2] = s[2] /\ u[3] = s[3] /\ u[4] = t[1] /\ u[5] = t[2]
BY DEF IsConcat

\* The letters of these and an end marker.
LEMMA FiveAndTwo ==
  ASSUME NEW u, NEW s, NEW t, IsConcat(u, s, t), Len(s) = 5, Len(t) = 2
  PROVE  /\ Len(u) = 7 /\ u[1] = s[1] /\ u[2] = s[2] /\ u[3] = s[3] /\ u[4] = s[4] /\ u[5] = s[5]
         /\ u[6] = t[1] /\ u[7] = t[2]
BY DEF IsConcat

\* The letters of a call.
LEMMA CallLetters ==
  /\ Call \in Text /\ Len(Call) = 7
  /\ Call[1] = "<" /\ Call[2] = "tool" /\ Call[3] = ">" /\ Call[4] = "{" /\ Call[5] = "}"
  /\ Call[6] = "</" /\ Call[7] = "end"
<1> DEFINE body == <<"{", "}">>
           head == StartMarker \o body
<1>1. /\ StartMarker \in Seq(Letters) /\ Len(StartMarker) = 3
      /\ StartMarker[1] = "<" /\ StartMarker[2] = "tool" /\ StartMarker[3] = ">"
  BY DEF StartMarker, Letters
<1>2. EndMarker \in Seq(Letters) /\ Len(EndMarker) = 2 /\ EndMarker[1] = "</" /\ EndMarker[2] = "end"
  BY DEF EndMarker, Letters
<1>3. body \in Seq(Letters) /\ Len(body) = 2 /\ body[1] = "{" /\ body[2] = "}"
  BY DEF Letters
<1>4. Call = head \o EndMarker
  BY DEF Call
<1> HIDE DEF body
<1>5. head \in Seq(Letters) /\ IsConcat(head, StartMarker, body)
  BY <1>1, <1>3, ConcatLetters
<1> HIDE DEF head
<1>6. Call \in Seq(Letters) /\ IsConcat(Call, head, EndMarker)
  BY <1>2, <1>4, <1>5, ConcatLetters
<1>7. /\ Len(head) = 5 /\ head[1] = "<" /\ head[2] = "tool" /\ head[3] = ">"
      /\ head[4] = "{" /\ head[5] = "}"
  BY <1>1, <1>3, <1>5, ThreeAndTwo, ZenonT(30)
<1>8. /\ Len(Call) = 7 /\ Call[6] = "</" /\ Call[7] = "end" /\ Call[1] = head[1] /\ Call[2] = head[2]
      /\ Call[3] = head[3] /\ Call[4] = head[4] /\ Call[5] = head[5]
  <2>1. /\ Len(Call) = 7 /\ Call[6] = EndMarker[1] /\ Call[7] = EndMarker[2] /\ Call[1] = head[1]
        /\ Call[2] = head[2] /\ Call[3] = head[3] /\ Call[4] = head[4] /\ Call[5] = head[5]
    <3>1. IsConcat(Call, head, EndMarker) /\ Len(head) = 5 /\ Len(EndMarker) = 2
      BY <1>2, <1>6, <1>7
    <3> QED
      BY <3>1, FiveAndTwo
  <2> QED
    BY <1>2, <2>1
<1>9. Call \in Text
  BY <1>6 DEF Text
<1> QED
  BY <1>7, <1>8, <1>9

\* Where a whole call is found, letter by letter.
LEMMA CallPlaces ==
  ASSUME NEW t \in Text, NEW from \in Nat \ {0}, NEW i
  PROVE  /\ i \in Places(t, Call, from) <=> IsCall(t, i) /\ from <= i
         /\ IsCall(t, i) => SubSeq(t, i, i + 6) = Call
<1>1. t \in Seq(Letters) /\ Len(t) \in Nat
  BY DEF Text
<1>2. Len(Call) = 7 /\ Call \in Seq(Letters)
  BY CallLetters DEF Text
<1>3. ASSUME NEW j \in Int, 1 <= j, j <= Len(t) - 6
      PROVE  SubSeq(t, j, j + 6) = Call
             <=> /\ t[j] = "<" /\ t[j + 1] = "tool" /\ t[j + 2] = ">" /\ t[j + 3] = "{" /\ t[j + 4] = "}"
                 /\ t[j + 5] = "</" /\ t[j + 6] = "end"
  <2> DEFINE s == SubSeq(t, j, j + 6)
  <2>1. j \in Nat \ {0} /\ j + 6 \in Int /\ j + 6 <= Len(t) /\ (j + 6) - j + 1 = 7
    BY <1>1, <1>3
  <2>2. s \in Seq(Letters) /\ Len(s) = 7 /\ \A k \in 1..7 : s[k] = t[j + k - 1]
    BY <1>1, <2>1, SliceFacts
  <2>3. /\ s[1] = t[j] /\ s[2] = t[j + 1] /\ s[3] = t[j + 2] /\ s[4] = t[j + 3] /\ s[5] = t[j + 4]
        /\ s[6] = t[j + 5] /\ s[7] = t[j + 6]
    BY <2>1, <2>2
  <2> HIDE DEF s
  <2>4. s = Call <=> \A k \in 1..7 : s[k] = Call[k]
    BY <1>2, <2>2, SeqEqual
  <2>5. (\A k \in 1..7 : s[k] = Call[k])
        <=> /\ s[1] = Call[1] /\ s[2] = Call[2] /\ s[3] = Call[3] /\ s[4] = Call[4]
            /\ s[5] = Call[5] /\ s[6] = Call[6] /\ s[7] = Call[7]
    OBVIOUS
  <2> QED
    BY <2>3, <2>4, <2>5, CallLetters DEF s
<1>4. i \in Places(t, Call, from)
      <=> i \in Int /\ from <= i /\ i <= Len(t) - 6 /\ SubSeq(t, i, i + 6) = Call
  <2>1. Len(t) - 7 + 1 = Len(t) - 6 /\ \A j \in Int : j + 7 - 1 = j + 6
    BY <1>1
  <2>2. i \in Places(t, Call, from) <=> i \in from..Len(t) - 6 /\ SubSeq(t, i, i + 7 - 1) = Call
    BY <1>2, <2>1 DEF Places
  <2>3. i \in from..Len(t) - 6 <=> i \in Int /\ from <= i /\ i <= Len(t) - 6
    BY <1>1
  <2>4. i \in Int => SubSeq(t, i, i + 7 - 1) = SubSeq(t, i, i + 6)
    BY <2>1
  <2> QED
    BY <2>2, <2>3, <2>4
<1>5. IsCall(t, i) <=> i \in Int /\ 1 <= i /\ i <= Len(t) - 6 /\ SubSeq(t, i, i + 6) = Call
  <2>1. i \in 1..Len(t) - 6 <=> i \in Int /\ 1 <= i /\ i <= Len(t) - 6
    BY <1>1
  <2> QED
    BY <1>3, <2>1 DEF IsCall
<1>6. i \in Int /\ from <= i => 1 <= i
  OBVIOUS
<1> QED
  BY <1>4, <1>5, <1>6

\* A text cut from a well-formed one: its last call may be incomplete.
Balanced(t) ==
    /\ \A i \in Int : IsStart(t, i) /\ i + 6 <= Len(t) => IsCall(t, i)
    /\ \A i \in Int : IsEnd(t, i) => IsCall(t, i - 5)

\* No call of the text lies across the place.
Clean(t, a) == \A q \in Int : IsCall(t, q) => a <= q \/ q + 7 <= a

\* In a well-formed text every marker is that of a whole call.
LEMMA WellFormedFacts ==
  ASSUME NEW t \in Text, WellFormed(t)
  PROVE  /\ \A i \in Int : IsStart(t, i) => IsCall(t, i)
         /\ \A i \in Int : IsEnd(t, i) => IsCall(t, i - 5)
<1>1. Len(EndMarker) - Len(Call) = -5 /\ Len(EndMarker) = 2 /\ Len(Call) = 7
  <2>1. Len(EndMarker) = 2 /\ Len(Call) = 7
    BY CallLetters DEF EndMarker
  <2> QED
    BY <2>1
<1>2. ASSUME NEW i \in Int, IsStart(t, i) PROVE IsCall(t, i)
  <2>1. i \in Places(t, StartMarker, 1)
    BY <1>2, StartPlaces DEF IsStart
  <2>2. i \in Places(t, Call, 1)
    BY <2>1 DEF WellFormed
  <2> QED
    BY <2>2, CallPlaces
<1>3. ASSUME NEW i \in Int, IsEnd(t, i) PROVE IsCall(t, i - 5)
  <2>1. i \in Places(t, EndMarker, 1)
    BY <1>3, EndPlaces DEF IsEnd
  <2>2. i + Len(EndMarker) - Len(Call) \in Places(t, Call, 1)
    BY <2>1 DEF WellFormed
  <2>3. i + Len(EndMarker) - Len(Call) = i - 5
    BY <1>1, <1>3
  <2> QED
    BY <2>2, <2>3, CallPlaces
<1> QED
  BY <1>2, <1>3

\* The letters of a slice.
LEMMA SliceLetters ==
  ASSUME NEW t \in Text, NEW a \in 1..Len(t) + 1, NEW b \in a - 1..Len(t)
  PROVE  LET s == SubSeq(t, a, b)
         IN  /\ s \in Text /\ Len(s) = b - a + 1
             /\ \A i \in 1..b - a + 1 : s[i] = t[a + i - 1]
<1>1. t \in Seq(Letters) /\ Len(t) \in Nat /\ a \in Nat \ {0} /\ b \in Int /\ b <= Len(t)
  BY DEF Text
<1> QED
  BY <1>1, SliceFacts DEF Text

\* A slice of a slice is a slice.
LEMMA SliceOfSlice ==
  ASSUME NEW t \in Text, NEW a \in 1..Len(t) + 1, NEW b \in a - 1..Len(t),
         NEW i \in 1..b - a + 2, NEW j \in i - 1..b - a + 1
  PROVE  SubSeq(SubSeq(t, a, b), i, j) = SubSeq(t, a + i - 1, a + j - 1)
<1> DEFINE r == SubSeq(t, a, b)
           u == SubSeq(r, i, j)
           x == a + i - 1
           y == a + j - 1
           v == SubSeq(t, x, y)
<1>1. Len(t) \in Nat
  BY DEF Text
<1>2. r \in Text /\ Len(r) = b - a + 1 /\ \A k \in 1..b - a + 1 : r[k] = t[a + k - 1]
  BY SliceLetters
<1>3. x \in 1..Len(t) + 1 /\ y \in x - 1..Len(t) /\ y - x + 1 = j - i + 1
  BY <1>1
<1> HIDE DEF x, y
<1>4. v \in Text /\ Len(v) = j - i + 1 /\ \A k \in 1..j - i + 1 : v[k] = t[x + k - 1]
  BY <1>3, SliceLetters
<1> HIDE DEF r
<1>5. u \in Text /\ Len(u) = j - i + 1 /\ \A k \in 1..j - i + 1 : u[k] = r[i + k - 1]
  <2>1. i \in 1..Len(r) + 1 /\ j \in i - 1..Len(r)
    BY <1>1, <1>2
  <2> QED
    BY <1>2, <2>1, SliceLetters
<1> HIDE DEF u, v
<1>6. ASSUME NEW k \in 1..Len(u) PROVE u[k] = v[k]
  <2>1. k \in 1..j - i + 1
    BY <1>5
  <2>2. i + k - 1 \in 1..b - a + 1 /\ a + (i + k - 1) - 1 = x + k - 1
    BY <1>1, <2>1 DEF x
  <2>3. u[k] = r[i + k - 1] /\ v[k] = t[x + k - 1] /\ r[i + k - 1] = t[a + (i + k - 1) - 1]
    BY <1>2, <1>4, <1>5, <2>1, <2>2
  <2> QED
    BY <2>2, <2>3
<1>7. u = v
  BY <1>4, <1>5, <1>6, SeqEqual DEF Text
<1> QED
  BY <1>7 DEF r, u, v, x, y

\* Before and From of a slice.
LEMMA SliceParts ==
  ASSUME NEW t \in Text, NEW a \in 1..Len(t) + 1, NEW b \in a - 1..Len(t), NEW i \in 1..b - a + 2
  PROVE  LET s == SubSeq(t, a, b)
         IN  Before(s, i) = SubSeq(t, a, a + i - 2) /\ From(s, i) = SubSeq(t, a + i - 1, b)
<1> DEFINE s == SubSeq(t, a, b)
<1>1. Len(t) \in Nat /\ Len(s) = b - a + 1
  BY SliceLetters DEF Text
<1>2. /\ 1 \in 1..b - a + 2 /\ i - 1 \in 1 - 1..b - a + 1 /\ a + 1 - 1 = a /\ a + (i - 1) - 1 = a + i - 2
      /\ b - a + 1 \in i - 1..b - a + 1 /\ a + (b - a + 1) - 1 = b
  BY <1>1
<1>3. SubSeq(s, 1, i - 1) = SubSeq(t, a + 1 - 1, a + (i - 1) - 1)
  BY <1>2, SliceOfSlice
<1>4. SubSeq(s, i, b - a + 1) = SubSeq(t, a + i - 1, a + (b - a + 1) - 1)
  BY <1>2, SliceOfSlice
<1> HIDE DEF s
<1>5. Before(s, i) = SubSeq(t, a, a + i - 2)
  BY <1>2, <1>3 DEF Before
<1>6. From(s, i) = SubSeq(t, a + i - 1, b)
  BY <1>1, <1>2, <1>4 DEF From
<1> QED
  BY <1>5, <1>6 DEF s

\* The markers and calls of a slice are those of the text.
LEMMA SliceCalls ==
  ASSUME NEW t \in Text, NEW a \in 1..Len(t) + 1, NEW b \in a - 1..Len(t), NEW i \in Int
  PROVE  LET s == SubSeq(t, a, b)
         IN  /\ IsCall(s, i) => IsCall(t, a + i - 1)
             /\ IsCall(t, a + i - 1) /\ i >= 1 /\ a + i + 5 <= b => IsCall(s, i)
             /\ IsStart(s, i) => IsStart(t, a + i - 1)
             /\ IsStart(t, a + i - 1) /\ i >= 1 /\ a + i + 1 <= b => IsStart(s, i)
             /\ IsEnd(s, i) => IsEnd(t, a + i - 1)
             /\ IsEnd(t, a + i - 1) /\ i >= 1 /\ a + i <= b => IsEnd(s, i)
<1> DEFINE s == SubSeq(t, a, b)
<1>1. s \in Text /\ Len(s) = b - a + 1 /\ \A k \in 1..b - a + 1 : s[k] = t[a + k - 1]
  BY SliceLetters
<1>2. Len(t) \in Nat
  BY DEF Text
<1> HIDE DEF s
<1>3. /\ IsCall(s, i) => IsCall(t, a + i - 1)
      /\ IsCall(t, a + i - 1) /\ i >= 1 /\ a + i + 5 <= b => IsCall(s, i)
  <2> DEFINE j == a + i - 1
  <2>1. ASSUME i \in 1..Len(s) - 6
        PROVE  /\ s[i] = t[j] /\ s[i + 1] = t[j + 1] /\ s[i + 2] = t[j + 2] /\ s[i + 3] = t[j + 3]
               /\ s[i + 4] = t[j + 4] /\ s[i + 5] = t[j + 5] /\ s[i + 6] = t[j + 6]
    <3>1. ASSUME NEW k \in 0..6 PROVE s[i + k] = t[j + k]
      <4>1. i + k \in 1..b - a + 1 /\ a + (i + k) - 1 = j + k
        BY <1>1, <1>2, <2>1
      <4> QED
        BY <1>1, <4>1
    <3>2. s[i + 0] = s[i] /\ t[j + 0] = t[j]
      BY <1>2
    <3>3. 0 \in 0..6 /\ 1 \in 0..6 /\ 2 \in 0..6 /\ 3 \in 0..6 /\ 4 \in 0..6 /\ 5 \in 0..6 /\ 6 \in 0..6
      OBVIOUS
    <3> HIDE DEF j
    <3> QED
      BY <3>1, <3>2, <3>3
  <2>2. /\ i \in 1..Len(s) - 6 => j \in 1..Len(t) - 6
        /\ i >= 1 /\ a + i + 5 <= b => i \in 1..Len(s) - 6
    BY <1>1, <1>2
  <2> HIDE DEF j
  <2>3. IsCall(s, i) => IsCall(t, j)
    BY <2>1, <2>2 DEF IsCall
  <2>4. IsCall(t, j) /\ i >= 1 /\ a + i + 5 <= b => IsCall(s, i)
    BY <2>1, <2>2 DEF IsCall
  <2> QED
    BY <2>3, <2>4 DEF j
<1>4. /\ IsStart(s, i) => IsStart(t, a + i - 1)
      /\ IsStart(t, a + i - 1) /\ i >= 1 /\ a + i + 1 <= b => IsStart(s, i)
  BY <1>1, <1>2 DEF IsStart
<1>5. /\ IsEnd(s, i) => IsEnd(t, a + i - 1)
      /\ IsEnd(t, a + i - 1) /\ i >= 1 /\ a + i <= b => IsEnd(s, i)
  BY <1>1, <1>2 DEF IsEnd
<1> QED
  BY <1>3, <1>4, <1>5 DEF s

\* A slice that begins at a clean place is balanced.
LEMMA SliceBalanced ==
  ASSUME NEW t \in Text, WellFormed(t), NEW a \in 1..Len(t) + 1, Clean(t, a), NEW b \in a - 1..Len(t)
  PROVE  Balanced(SubSeq(t, a, b))
<1> DEFINE s == SubSeq(t, a, b)
<1>1. Len(s) = b - a + 1 /\ Len(t) \in Nat
  BY SliceLetters DEF Text
<1>2. ASSUME NEW i \in Int, IsStart(s, i), i + 6 <= Len(s) PROVE IsCall(s, i)
  <2>1. IsStart(t, a + i - 1) /\ a + i - 1 \in Int /\ i >= 1
    BY <1>2, SliceCalls DEF IsStart
  <2>2. IsCall(t, a + i - 1)
    BY <2>1, WellFormedFacts
  <2>3. a + i + 5 <= b
    BY <1>1, <1>2
  <2> QED
    BY <2>1, <2>2, <2>3, SliceCalls
<1>3. ASSUME NEW i \in Int, IsEnd(s, i) PROVE IsCall(s, i - 5)
  <2>1. IsEnd(t, a + i - 1) /\ a + i - 1 \in Int /\ i \in 1..Len(s) - 1
    BY <1>3, SliceCalls DEF IsEnd
  <2>2. IsCall(t, (a + i - 1) - 5)
    BY <2>1, WellFormedFacts
  <2>3. (a + i - 1) - 5 = a + (i - 5) - 1 /\ a + (i - 5) - 1 \in Int /\ i - 5 \in Int
    BY <1>3
  <2>4. a <= a + (i - 5) - 1 \/ a + (i - 5) - 1 + 7 <= a
    BY <2>2, <2>3 DEF Clean
  <2>5. i - 5 >= 1 /\ a + (i - 5) + 5 <= b
    BY <1>1, <2>1, <2>4
  <2> QED
    BY <2>2, <2>3, <2>5, SliceCalls
<1> QED
  BY <1>2, <1>3 DEF Balanced

\* Where a call begins, or ends, no other lies across.
LEMMA CleanPlaces ==
  ASSUME NEW t \in Text, NEW a \in Int
  PROVE  /\ a \in 1..Len(t) /\ t[a] = "<" => Clean(t, a)
         /\ IsCall(t, a) => Clean(t, a + 7)
<1>1. ASSUME a \in 1..Len(t), t[a] = "<", NEW q \in Int, IsCall(t, q), ~ (a <= q), ~ (q + 7 <= a)
      PROVE  FALSE
  <2>1. a = q + 1 \/ a = q + 2 \/ a = q + 3 \/ a = q + 4 \/ a = q + 5 \/ a = q + 6
    BY <1>1
  <2> QED
    BY <1>1, <2>1 DEF IsCall
<1>2. ASSUME IsCall(t, a), NEW q \in Int, IsCall(t, q), ~ (a + 7 <= q), ~ (q + 7 <= a + 7)
      PROVE  FALSE
  <2>1. q = a + 1 \/ q = a + 2 \/ q = a + 3 \/ q = a + 4 \/ q = a + 5 \/ q = a + 6
    BY <1>2
  <2> QED
    BY <1>2, <2>1 DEF IsCall
<1> QED
  BY <1>1, <1>2 DEF Clean

-----------------------------------------------------------------------------
(* What the parser makes of calls that follow one another.                 *)

\* A call has its markers, and its text.
LEMMA CallParts ==
  ASSUME NEW t \in Text, NEW i \in Int, IsCall(t, i)
  PROVE  /\ i \in Nat \ {0} /\ i + 6 <= Len(t) /\ SubSeq(t, i, i + 6) = Call
         /\ IsStart(t, i) /\ IsEnd(t, i + 5)
<1>1. Len(t) \in Nat
  BY DEF Text
<1>2. i \in 1..Len(t) - 6
  BY DEF IsCall
<1>3. i \in Nat \ {0} /\ i + 6 <= Len(t) /\ i \in 1..Len(t) - 2 /\ i + 5 \in 1..Len(t) - 1
  BY <1>1, <1>2
<1>4. IsStart(t, i)
  BY <1>3 DEF IsCall, IsStart
<1>5. IsEnd(t, i + 5)
  <2>1. (i + 5) + 1 = i + 6
    OBVIOUS
  <2>2. t[i + 5] = "</" /\ t[i + 6] = "end"
    BY DEF IsCall
  <2>3. t[(i + 5) + 1] = "end"
    BY <2>1, <2>2, Zenon
  <2> QED
    BY <1>3, <2>2, <2>3, Zenon DEF IsEnd
<1>6. SubSeq(t, i, i + 6) = Call
  <2>1. 1 \in Nat \ {0}
    OBVIOUS
  <2> QED
    BY <2>1, CallPlaces
<1> QED
  BY <1>3, <1>4, <1>5, <1>6

CallList(k) == [i \in 1..k |-> "call"]

\* The text of k calls.
CallTexts(k) == Flat(CallList(k))

\* The text of no call and of one call more.
LEMMA CallTextsFacts ==
  ASSUME NEW k \in Nat
  PROVE  /\ CallTexts(k) \in Text /\ CallTexts(0) = <<>>
         /\ CallTexts(k + 1) = Call \o CallTexts(k)
<1> DEFINE one == <<"call">>
           l == CallList(k)
           m == CallList(k + 1)
           z == CallList(0)
<1>1. one \in Seq({"call"}) /\ l \in Seq({"call"}) /\ m \in Seq({"call"})
  BY DEF CallList
<1>2. z \in Seq({"call"}) /\ z \in Seq({}) /\ \A x \in {} : Word(x) = <<>>
  BY DEF CallList
<1>3. m = one \o l
  <2>1. Len(one) = 1 /\ Len(l) = k /\ Len(m) = k + 1
    BY DEF CallList
  <2>2. one \o l \in Seq({"call"}) /\ Len(one \o l) = k + 1
    BY <1>1, <2>1
  <2>3. \A i \in 1..k + 1 : m[i] = "call"
    BY DEF CallList
  <2> DEFINE c == one \o l
  <2>4. \A i \in 1..k + 1 : c[i] = "call"
    BY <2>2
  <2> HIDE DEF c, m
  <2> QED
    BY <1>1, <2>1, <2>2, <2>3, <2>4, SeqEqual DEF c
<1> HIDE DEF one, l, m, z
<1>4. Flat(m) = Flat(one) \o Flat(l)
  BY <1>1, <1>3, FlatConcat
<1>5. Flat(one) = Call
  <2>1. Flat(one) = Word("call")
    BY FlatOne DEF one
  <2> QED
    BY <2>1 DEF Word
<1>6. Flat(l) \in Text
  BY <1>1, FlatType
<1>7. Flat(z) = <<>>
  BY <1>2, FlatSilent
<1> QED
  BY <1>4, <1>5, <1>6, <1>7 DEF CallTexts, l, m, z

\* A block that was started is a call, and ends where the call does.
LEMMA BlockIsCall ==
  ASSUME NEW t \in Text, Balanced(t), NEW i \in 1..Len(t) + 1, BlockAt(t, i)
  PROVE  IsCall(t, i) /\ NextEnd(t, i) = i + 7
<1> DEFINE S == Places(t, EndMarker, i)
           e == Min(S)
<1>1. Len(t) \in Nat /\ i \in Nat \ {0}
  BY DEF Text
<1>2. IsStart(t, i) /\ S # {}
  BY <1>1, StartPlaces DEF BlockAt
<1>3. S \in SUBSET Nat /\ \A j \in Nat : j \in S <=> IsEnd(t, j) /\ i <= j
  BY <1>1, EndPlaces, PlaceFacts, MarkerTypes
<1>4. e \in S /\ \A j \in S : e <= j
  BY <1>2, <1>3, LeastPlace
<1>5. e \in Nat /\ IsEnd(t, e) /\ i <= e /\ e + 1 <= Len(t)
  BY <1>1, <1>3, <1>4 DEF IsEnd
<1> HIDE DEF e, S
<1>6. IsCall(t, e - 5)
  BY <1>5 DEF Balanced
<1>7. i <= e - 5
  <2>1. ASSUME ~ (i <= e - 5) PROVE FALSE
    <3>1. i = (e - 5) + 1 \/ i = (e - 5) + 2 \/ i = (e - 5) + 3 \/ i = (e - 5) + 4 \/ i = (e - 5) + 5
      BY <1>1, <1>5, <2>1
    <3> QED
      BY <1>2, <1>6, <3>1 DEF IsCall, IsStart
  <2> QED
    BY <2>1
<1>8. IsCall(t, i)
  BY <1>1, <1>2, <1>5, <1>7 DEF Balanced
<1>9. IsEnd(t, i + 5) /\ i + 5 \in Nat
  BY <1>1, <1>8, CallParts
<1>10. e <= i + 5
  BY <1>1, <1>3, <1>4, <1>9
<1>11. e = i + 5
  BY <1>1, <1>5, <1>7, <1>10
<1>12. NextEnd(t, i) = e + 2
  BY MarkerTypes DEF NextEnd, e, S
<1> QED
  BY <1>1, <1>8, <1>11, <1>12

\* From any place, EndPosition goes on over calls only.
LEMMA RunIsCalls ==
  ASSUME NEW t \in Text, Balanced(t), NEW i \in 1..Len(t) + 1
  PROVE  LET j == After(t)[i]
         IN  /\ j \in i - 1..Len(t)
             /\ j = i - 1 \/ IsCall(t, j - 6)
             /\ \E k \in Nat : SubSeq(t, i, j) = CallTexts(k)
<1> DEFINE n == Len(t)
           a == After(t)
           Good(m) == /\ a[m] \in m - 1..n
                      /\ a[m] = m - 1 \/ IsCall(t, a[m] - 6)
                      /\ \E k \in Nat : SubSeq(t, m, a[m]) = CallTexts(k)
           G == {m \in 0..n + 1 : m = 0 \/ Good(m)}
<1>1. n \in Nat /\ t \in Seq(Letters)
  BY DEF Text
<1>2. IsAfter(a, t)
  BY AfterFacts
<1>3. /\ \A m \in 1..n + 1 : ~ BlockAt(t, m) => a[m] = m - 1
      /\ \A m \in 1..n + 1 : BlockAt(t, m) => a[m] = a[NextEnd(t, m)]
  BY <1>2 DEF IsAfter
<1> HIDE DEF n, a
<1>4. ASSUME NEW m \in 1..n + 1, ~ BlockAt(t, m) PROVE Good(m)
  <2>1. a[m] = m - 1
    BY <1>3, <1>4
  <2>2. SubSeq(t, m, m - 1) = <<>>
    BY <1>1
  <2>3. SubSeq(t, m, a[m]) = CallTexts(0) /\ 0 \in Nat
    BY <2>1, <2>2, CallTextsFacts
  <2> QED
    BY <1>1, <2>1, <2>3
<1>5. ASSUME NEW m \in 1..n + 1, BlockAt(t, m), m + 7 <= n + 1 => Good(m + 7) PROVE Good(m)
  <2>1. IsCall(t, m) /\ NextEnd(t, m) = m + 7
    BY <1>5, BlockIsCall DEF n
  <2>2. m + 6 <= n
    BY <2>1, CallParts DEF n
  <2>3. a[m] = a[m + 7] /\ Good(m + 7)
    BY <1>1, <1>3, <1>5, <2>1, <2>2
  <2> DEFINE j == a[m + 7]
  <2>4. j \in m + 6..n /\ (j = m + 6 \/ IsCall(t, j - 6))
    BY <1>1, <2>3
  <2>5. PICK k \in Nat : SubSeq(t, m + 7, j) = CallTexts(k)
    BY <2>3
  <2>6. SubSeq(t, m, m + 6) = Call
    BY <2>1, CallParts
  <2> HIDE DEF j, Good
  <2>7. SubSeq(t, m, j) = SubSeq(t, m, m + 6) \o SubSeq(t, m + 7, j)
    <3> DEFINE b == m + 6
    <3>1. m \in 1..Len(t) + 1 /\ b \in m - 1..Len(t) /\ j \in b..Len(t) /\ b + 1 = m + 7
      BY <1>1, <2>2, <2>4 DEF n
    <3> HIDE DEF b
    <3>2. SubSeq(t, m, b) \o SubSeq(t, b + 1, j) = SubSeq(t, m, j)
      BY <1>1, <3>1, ConcatAdjacentSubSeq
    <3> QED
      BY <3>1, <3>2 DEF b
  <2>8. SubSeq(t, m, j) = CallTexts(k + 1) /\ k + 1 \in Nat
    <3>1. CallTexts(k + 1) = Call \o CallTexts(k)
      BY CallTextsFacts
    <3>2. SubSeq(t, m, j) = Call \o CallTexts(k)
      BY <2>5, <2>6, <2>7, Zenon
    <3> QED
      BY <3>1, <3>2
  <2>9. j \in m - 1..n /\ IsCall(t, j - 6)
    <3>1. j = m + 6 => j - 6 = m
      BY <1>1
    <3> QED
      BY <1>1, <2>1, <2>4, <3>1
  <2>10. a[m] = j
    BY <2>3 DEF j
  <2> QED
    BY <2>8, <2>9, <2>10 DEF Good
<1>6. ASSUME NEW m \in 0..n + 1, \A d \in 0..n + 1 : m < d => d \in G PROVE m \in G
  <2>1. CASE m = 0
    BY <2>1
  <2>2. CASE m # 0
    <3>1. m \in 1..n + 1
      BY <1>1, <2>2
    <3>2. m + 7 <= n + 1 => Good(m + 7)
      <4>1. ASSUME m + 7 <= n + 1 PROVE Good(m + 7)
        <5>1. m + 7 \in 0..n + 1 /\ m < m + 7 /\ m + 7 # 0
          BY <1>1, <3>1, <4>1
        <5>2. m + 7 \in G
          BY <1>6, <5>1
        <5> HIDE DEF Good
        <5> QED
          BY <5>1, <5>2
      <4> HIDE DEF Good
      <4> QED
        BY <4>1
    <3> HIDE DEF Good
    <3>3. Good(m)
      BY <1>4, <1>5, <3>1, <3>2
    <3> QED
      BY <3>3
  <2> QED
    BY <2>1, <2>2
<1> HIDE DEF G
<1>7. \A m \in 0..n + 1 : m \in G
  <2>1. n + 1 \in Nat
    BY <1>1
  <2> QED
    BY <1>6, <2>1, BackwardInduction
<1>8. i \in G /\ i # 0
  BY <1>1, <1>7 DEF n
<1>9. Good(i)
  <2> HIDE DEF Good
  <2> QED
    BY <1>8 DEF G
<1> QED
  BY <1>9 DEF n, a

\* At a call, the next block is that call.
LEMMA CallIsNext ==
  ASSUME NEW t \in Text, NEW d \in Int, IsCall(t, d)
  PROVE  Closed(t, d) /\ Opening(t, d) = d + 3 /\ NextEnd(t, d + 3) = d + 7 /\ NextEnd(t, Opening(t, d)) = d + 7
<1> DEFINE S == Places(t, StartMarker, d)
           E == Places(t, EndMarker, d + 3)
<1>1. d \in Nat \ {0} /\ d + 3 \in Nat \ {0} /\ d + 6 <= Len(t) /\ IsStart(t, d) /\ IsEnd(t, d + 5)
  BY CallParts
<1>2. d \in S /\ S \in SUBSET Nat /\ \A q \in S : d <= q
  BY <1>1, StartPlaces, PlaceFacts, MarkerTypes
<1>3. Min(S) = d
  <2>1. Min(S) \in S /\ \A q \in S : Min(S) <= q
    BY <1>2, LeastPlace
  <2> QED
    BY <1>1, <1>2, <2>1
<1>4. Opening(t, d) = d + 3
  BY <1>3, MarkerTypes DEF Opening
<1>5. d + 5 \in E /\ E \in SUBSET Nat
  BY <1>1, EndPlaces, PlaceFacts, MarkerTypes
<1>6. ASSUME NEW q \in E PROVE d + 5 <= q
  <2>1. IsEnd(t, q) /\ d + 3 <= q /\ q \in Nat
    BY <1>1, <1>5, EndPlaces
  <2>2. q = d + 3 \/ q = d + 4 => FALSE
    BY <2>1 DEF IsEnd, IsCall
  <2> QED
    BY <1>1, <2>1, <2>2
<1>7. Min(E) = d + 5
  <2>1. Min(E) \in E /\ \A q \in E : Min(E) <= q
    BY <1>5, LeastPlace
  <2>2. Min(E) \in Nat /\ Min(E) <= d + 5 /\ d + 5 <= Min(E)
    BY <1>5, <1>6, <2>1
  <2> QED
    BY <1>1, <2>2
<1>8. NextEnd(t, d + 3) = d + 7
  <2>1. NextEnd(t, d + 3) = (d + 5) + 2
    BY <1>7, MarkerTypes DEF NextEnd
  <2> QED
    BY <2>1
<1>9. S # {} /\ E # {}
  BY <1>2, <1>5
<1> QED
  BY <1>4, <1>8, <1>9 DEF Closed

\* The parser counts the calls of a text that ends in nothing but calls.
LEMMA CallsAreCounted ==
  ASSUME NEW t \in Text, NEW k \in Nat, NEW i \in 1..Len(t) + 1, From(t, i) = CallTexts(k)
  PROVE  /\ Calls(t)[i] = k
         /\ k > 0 => IsCall(t, i)
<1> DEFINE n == Len(t)
           c == Calls(t)
           Good(m) == \A d \in 1..n + 1 : From(t, d) = CallTexts(m) => c[d] = m
           G == {m \in 0..k : Good(m)}
<1>1. n \in Nat /\ t \in Seq(Letters)
  BY DEF Text
<1>2. IsCalls(c, t)
  BY CallsFacts
<1>3. /\ \A m \in 1..n + 1 : ~ Closed(t, m) => c[m] = 0
      /\ \A m \in 1..n + 1 : Closed(t, m) => c[m] = 1 + c[NextEnd(t, Opening(t, m))]
  BY <1>2 DEF IsCalls
<1> HIDE DEF n, c
<1>4. ASSUME NEW d \in 1..n + 1, NEW m \in Nat, From(t, d) = CallTexts(m + 1)
      PROVE  IsCall(t, d) /\ From(t, d + 7) = CallTexts(m) /\ d + 7 \in 1..n + 1
  <2> DEFINE u == CallTexts(m)
             s == From(t, d)
  <2>1. u \in Text /\ s = Call \o u /\ Len(u) \in Nat
    <3>1. CallTexts(m) \in Text /\ CallTexts(m + 1) = Call \o CallTexts(m)
      BY <1>4, CallTextsFacts
    <3>2. s = Call \o u
      BY <1>4, <3>1, Zenon
    <3>3. u \in Text
      BY <3>1
    <3> HIDE DEF u, s
    <3>4. Len(u) \in Nat
      BY <3>3 DEF Text
    <3> QED
      BY <3>2, <3>3, <3>4
  <2>2. s \in Text /\ Len(s) = n + 1 - d
    BY <1>1, SlicesJoin DEF Text, n
  <2> HIDE DEF u
  <2>3. IsConcat(Call \o u, Call, u)
    <3>1. Call \in Seq(Letters) /\ u \in Seq(Letters)
      BY <2>1, CallLetters DEF Text
    <3> QED
      BY <3>1, ConcatLetters
  <2>4. Len(s) = 7 + Len(u) /\ (\A q \in 1..7 : s[q] = Call[q]) /\ \A q \in 1..Len(u) : s[7 + q] = u[q]
    <3>1. IsConcat(s, Call, u) /\ Len(Call) = 7
      BY <2>1, <2>3, CallLetters
    <3> HIDE DEF s
    <3> QED
      BY <3>1 DEF IsConcat
  <2>5. d \in Nat \ {0} /\ d + 6 <= n /\ d + 7 \in 1..n + 1
    BY <1>1, <2>1, <2>2, <2>4
  <2>6. \A q \in 1..n + 1 - d : s[q] = t[d + q - 1]
    <3>1. d \in 1..Len(t) + 1 /\ n \in d - 1..Len(t) /\ n - d + 1 = n + 1 - d
      BY <1>1 DEF n
    <3>2. s = SubSeq(t, d, n)
      BY DEF From, n
    <3>3. LET x == SubSeq(t, d, n) IN \A q \in 1..n - d + 1 : x[q] = t[d + q - 1]
      BY <3>1, SliceLetters
    <3> QED
      BY <3>1, <3>2, <3>3
  <2> HIDE DEF s
  <2>7. IsCall(t, d)
    <3>1. ASSUME NEW q \in 0..6 PROVE t[d + q] = Call[q + 1]
      <4>1. q + 1 \in 1..7 /\ q + 1 \in 1..n + 1 - d /\ d + (q + 1) - 1 = d + q
        BY <1>1, <2>5
      <4>2. s[q + 1] = t[d + (q + 1) - 1] /\ s[q + 1] = Call[q + 1]
        BY <2>4, <2>6, <4>1
      <4> QED
        BY <4>1, <4>2
    <3>2. /\ t[d + 0] = Call[0 + 1] /\ t[d + 1] = Call[1 + 1] /\ t[d + 2] = Call[2 + 1]
          /\ t[d + 3] = Call[3 + 1] /\ t[d + 4] = Call[4 + 1] /\ t[d + 5] = Call[5 + 1]
          /\ t[d + 6] = Call[6 + 1]
      BY <3>1
    <3>3. /\ t[d] = Call[1] /\ t[d + 1] = Call[2] /\ t[d + 2] = Call[3] /\ t[d + 3] = Call[4]
          /\ t[d + 4] = Call[5] /\ t[d + 5] = Call[6] /\ t[d + 6] = Call[7]
      BY <3>2
    <3>4. d \in 1..Len(t) - 6
      BY <1>1, <2>5 DEF n
    <3> QED
      BY <3>3, <3>4, CallLetters, Zenon DEF IsCall
  <2>8. From(t, d + 7) = u
    <3> DEFINE v == From(t, d + 7)
    <3>1. d + 7 \in 1..Len(t) + 1 /\ n \in (d + 7) - 1..Len(t) /\ n - (d + 7) + 1 = Len(u)
      BY <1>1, <2>2, <2>4, <2>5, SMTT(30) DEF n
    <3>2. LET x == SubSeq(t, d + 7, n)
          IN  x \in Text /\ Len(x) = n - (d + 7) + 1 /\ \A q \in 1..n - (d + 7) + 1 : x[q] = t[(d + 7) + q - 1]
      BY <3>1, SliceLetters
    <3>3. v \in Seq(Letters) /\ Len(v) = Len(u) /\ \A q \in 1..Len(u) : v[q] = t[(d + 7) + q - 1]
      <4>1. v = SubSeq(t, d + 7, n)
        BY DEF From, n
      <4> HIDE DEF v
      <4> QED
        BY <3>1, <3>2, <4>1 DEF Text
    <3> HIDE DEF v
    <3>4. ASSUME NEW q \in 1..Len(u) PROVE v[q] = u[q]
      <4>1. 7 + q \in 1..n + 1 - d /\ d + (7 + q) - 1 = (d + 7) + q - 1
        BY <1>1, <2>1, <2>2, <2>4, <2>5
      <4>2. s[7 + q] = t[d + (7 + q) - 1] /\ s[7 + q] = u[q]
        BY <2>4, <2>6, <4>1
      <4> QED
        BY <3>3, <4>1, <4>2
    <3>5. u \in Seq(Letters)
      BY <2>1 DEF Text
    <3>6. v = u
      BY <3>3, <3>4, <3>5, SeqEqual
    <3> QED
      BY <3>6 DEF v
  <2> QED
    BY <2>5, <2>7, <2>8 DEF u
<1>5. Good(0)
  <2>1. ASSUME NEW d \in 1..n + 1, From(t, d) = CallTexts(0) PROVE c[d] = 0
    <3>1. From(t, d) = <<>> /\ Len(From(t, d)) = n + 1 - d
      BY <2>1, CallTextsFacts, SlicesJoin, <1>1 DEF n
    <3>2. n + 1 - d = 0
      BY <3>1
    <3>3. ~ Closed(t, d)
      <4>1. ASSUME NEW q \in Places(t, StartMarker, d) PROVE FALSE
        <5>1. IsStart(t, q) /\ d <= q
          BY <1>1, StartPlaces DEF n
        <5> QED
          BY <1>1, <3>2, <5>1 DEF IsStart, n
      <4> QED
        BY <4>1 DEF Closed
    <3> QED
      BY <1>3, <3>3
  <2> QED
    BY <2>1
<1>6. ASSUME NEW m \in 0..k, m < k, Good(m) PROVE Good(m + 1)
  <2>1. ASSUME NEW d \in 1..n + 1, From(t, d) = CallTexts(m + 1) PROVE c[d] = m + 1
    <3>1. m \in Nat
      OBVIOUS
    <3>2. IsCall(t, d) /\ From(t, d + 7) = CallTexts(m) /\ d + 7 \in 1..n + 1
      BY <1>4, <2>1, <3>1
    <3>3. c[d + 7] = m
      BY <1>6, <3>2
    <3>4. Closed(t, d) /\ NextEnd(t, Opening(t, d)) = d + 7
      BY <3>2, CallIsNext DEF n
    <3> QED
      BY <1>3, <3>3, <3>4
  <2> HIDE DEF n, c
  <2> QED
    BY <2>1
<1> HIDE DEF Good
<1>7. 0 \in G
  BY <1>5
<1>8. ASSUME NEW m \in 0..k, m < k, m \in G PROVE m + 1 \in G
  BY <1>6, <1>8
<1> HIDE DEF G
<1>9. \A m \in 0..k : m \in G
  BY <1>7, <1>8, BoundedInduction
<1>10. Good(k)
  BY <1>9 DEF G
<1>11. c[i] = k
  BY <1>10 DEF Good, n
<1>12. k > 0 => IsCall(t, i)
  <2>1. ASSUME k > 0 PROVE IsCall(t, i)
    <3>1. k - 1 \in Nat /\ (k - 1) + 1 = k
      BY <2>1
    <3> QED
      BY <1>4, <3>1 DEF n
  <2> QED
    BY <2>1
<1> QED
  BY <1>11, <1>12 DEF c

\* What is emitted for a region that ends in nothing but calls is the region.
LEMMA RegionIsKept ==
  ASSUME NEW r \in Text, NEW k \in Nat, NEW s \in 1..Len(r) + 1, From(r, s) = CallTexts(k + 1),
         \A x \in Int : IsStart(r, x) => s <= x
  PROVE  NormalText(r) \o CallTexts(ClosedCalls(r)) = r
<1> DEFINE c == Calls(r)
           S == Places(r, StartMarker, 1)
<1>1. k + 1 \in Nat /\ k + 1 > 0 /\ s \in Int /\ 1 \in 1..Len(r) + 1 /\ Len(r) \in Nat
  BY DEF Text
<1>2. c[s] = k + 1 /\ IsCall(r, s)
  BY <1>1, CallsAreCounted
<1>3. IsStart(r, s) /\ s \in Nat \ {0}
  BY <1>1, <1>2, CallParts
<1>4. S \in SUBSET Nat /\ s \in S /\ \A x \in S : s <= x
  <2>1. 1 \in Nat \ {0} /\ 1 <= s
    BY <1>3
  <2>2. s \in S /\ \A x \in S : IsStart(r, x)
    BY <1>3, <2>1, StartPlaces
  <2>3. S \in SUBSET Nat
    BY <2>1, PlaceFacts, MarkerTypes
  <2> QED
    BY <2>2, <2>3
<1>5. Min(S) = s
  <2> HIDE DEF S
  <2>1. Min(S) \in S /\ \A x \in S : Min(S) <= x
    BY <1>4, LeastPlace
  <2>2. Min(S) \in Nat /\ s <= Min(S) /\ Min(S) <= s
    BY <1>4, <2>1
  <2> QED
    BY <1>3, <2>2
<1>6. NormalText(r) = Before(r, s)
  BY <1>4, <1>5 DEF NormalText, Occurs
<1>7. Opening(r, 1) = s + 3 /\ Opening(r, s) = s + 3
  <2>1. Opening(r, 1) = s + 3
    BY <1>5, MarkerTypes DEF Opening
  <2> QED
    BY <1>1, <1>2, <2>1, CallIsNext
<1>8. Closed(r, s) /\ Closed(r, 1)
  <2>1. Closed(r, s)
    BY <1>1, <1>2, CallIsNext
  <2> QED
    BY <1>4, <1>7, <2>1 DEF Closed
<1>9. c[1] = c[s]
  <2>1. /\ c[1] = 1 + c[NextEnd(r, Opening(r, 1))]
        /\ c[s] = 1 + c[NextEnd(r, Opening(r, s))]
    BY <1>1, <1>8, CallsFacts DEF IsCalls
  <2> HIDE DEF c
  <2> QED
    BY <1>7, <2>1
<1>10. ClosedCalls(r) = k + 1
  BY <1>2, <1>9, ClosedCallsIsCalls
<1>11. Before(r, s) \o From(r, s) = r
  BY SlicesJoin DEF Text
<1> QED
  BY <1>6, <1>10, <1>11

\* What is emitted for the completed calls of a jail is their region, which ends
\* with a call.
LEMMA CompletedIsKept ==
  ASSUME NEW t \in Text, Balanced(t), Places(t, EndMarker, 1) # {}
  PROVE  LET q == EndPosition(t)
             r == SubSeq(t, 1, q)
         IN  q \in 0..Len(t) /\ IsCall(t, q - 6) /\ NormalText(r) \o CallTexts(ClosedCalls(r)) = r
<1> DEFINE E == Places(t, EndMarker, 1)
           e == Min(E)
           i == e + 2
           s == e - 5
           q == EndPosition(t)
           r == SubSeq(t, 1, q)
<1>1. Len(t) \in Nat
  BY DEF Text
<1>2. E \in SUBSET Nat /\ \A j : j \in E <=> IsEnd(t, j) /\ 1 <= j
  <2>1. 1 \in Nat \ {0}
    OBVIOUS
  <2> QED
    BY <2>1, EndPlaces, PlaceFacts, MarkerTypes
<1>3. e \in E /\ \A j \in E : e <= j
  <2>1. E # {}
    OBVIOUS
  <2> HIDE DEF E
  <2> QED
    BY <1>2, <2>1, LeastPlace
<1>4. q = After(t)[i]
  <2>1. NextEnd(t, 1) = i
    BY MarkerTypes DEF NextEnd
  <2> QED
    BY <2>1, EndPositionIsAfter
<1> HIDE DEF E, e
<1>5. e \in Nat /\ IsEnd(t, e) /\ e + 1 <= Len(t)
  BY <1>1, <1>2, <1>3 DEF IsEnd
<1>6. IsCall(t, s)
  BY <1>5 DEF Balanced
<1>7. s \in Int /\ s \in Nat \ {0} /\ s + 6 = e + 1 /\ SubSeq(t, s, e + 1) = Call
  <2>1. s \in Int /\ s + 6 = e + 1
    BY <1>5
  <2>2. s \in Nat \ {0} /\ SubSeq(t, s, s + 6) = Call
    BY <1>6, <2>1, CallParts
  <2> QED
    BY <2>1, <2>2
<1>8. i \in 1..Len(t) + 1 /\ i - 1 = e + 1
  BY <1>1, <1>5
<1> HIDE DEF q
<1>9. q \in e + 1..Len(t) /\ (q = e + 1 \/ IsCall(t, q - 6))
  BY <1>4, <1>8, RunIsCalls
<1>10. PICK k \in Nat : SubSeq(t, i, q) = CallTexts(k)
  BY <1>4, <1>8, RunIsCalls
<1>11. IsCall(t, q - 6)
  <2>1. q = e + 1 => q - 6 = s
    BY <1>5
  <2> QED
    BY <1>6, <1>9, <2>1
<1>12. q \in 0..Len(t) /\ s \in 1..q + 1
  BY <1>1, <1>5, <1>7, <1>9
<1>13. SubSeq(t, s, q) = CallTexts(k + 1)
  <2> DEFINE b == e + 1
  <2>1. s \in 1..Len(t) + 1 /\ b \in s - 1..Len(t) /\ q \in b..Len(t) /\ b + 1 = i /\ t \in Seq(Letters)
    BY <1>1, <1>5, <1>7, <1>9 DEF Text
  <2> HIDE DEF b, s, i
  <2>2. SubSeq(t, s, b) \o SubSeq(t, b + 1, q) = SubSeq(t, s, q)
    BY <2>1, ConcatAdjacentSubSeq
  <2>3. SubSeq(t, s, q) = Call \o CallTexts(k)
    BY <1>7, <1>10, <2>1, <2>2 DEF b
  <2> QED
    BY <2>3, CallTextsFacts
<1>14. From(r, s) = CallTexts(k + 1)
  <2> HIDE DEF s
  <2>1. /\ 1 \in 1..Len(t) + 1 /\ q \in 1 - 1..Len(t) /\ s \in 1..q - 1 + 2 /\ 1 + s - 1 = s
    BY <1>1, <1>12
  <2>2. From(r, s) = SubSeq(t, s, q)
    BY <2>1, SliceParts
  <2> QED
    BY <1>13, <2>2
<1>15. r \in Text /\ Len(r) = q
  <2>1. 1 \in 1..Len(t) + 1 /\ q \in 1 - 1..Len(t) /\ q - 1 + 1 = q
    BY <1>1, <1>12
  <2> QED
    BY <2>1, SliceLetters
<1>16. ASSUME NEW x \in Int, IsStart(r, x) PROVE s <= x
  <2>1. IsStart(t, x)
    <3>1. 1 \in 1..Len(t) + 1 /\ q \in 1 - 1..Len(t) /\ 1 + x - 1 = x
      BY <1>1, <1>12
    <3>2. IsStart(t, 1 + x - 1)
      BY <1>16, <3>1, SliceCalls
    <3> QED
      BY <3>1, <3>2
  <2>2. ASSUME ~ (s <= x) PROVE FALSE
    <3>1. x + 6 <= Len(t) /\ x + 5 < e
      BY <1>1, <1>5, <2>2
    <3>2. IsCall(t, x)
      BY <2>1, <3>1 DEF Balanced
    <3>3. IsEnd(t, x + 5) /\ x \in Nat \ {0}
      BY <3>2, CallParts
    <3>4. x + 5 \in E
      BY <1>2, <3>3
    <3> QED
      BY <1>3, <1>5, <3>1, <3>3, <3>4
  <2> QED
    BY <2>2
<1>17. NormalText(r) \o CallTexts(ClosedCalls(r)) = r
  <2>1. s \in 1..Len(r) + 1
    BY <1>12, <1>15
  <2> HIDE DEF r, s
  <2> QED
    BY <1>14, <1>15, <1>16, <2>1, RegionIsKept
<1> QED
  BY <1>11, <1>12, <1>17 DEF q
-----------------------------------------------------------------------------
(* Where MarkerMatcher cuts a text.                                        *)

\* Two adjacent slices are one.
LEMMA SlicesMeet ==
  ASSUME NEW t \in Text, NEW a \in 1..Len(t) + 1, NEW p \in a..Len(t) + 1, NEW b \in p - 1..Len(t)
  PROVE  SubSeq(t, a, p - 1) \o SubSeq(t, p, b) = SubSeq(t, a, b)
<1> DEFINE k == p - 1
<1>1. a \in 1..Len(t) + 1 /\ k \in a - 1..Len(t) /\ b \in k..Len(t) /\ k + 1 = p /\ t \in Seq(Letters)
  BY DEF Text
<1> HIDE DEF k
<1>2. SubSeq(t, a, k) \o SubSeq(t, k + 1, b) = SubSeq(t, a, b)
  BY <1>1, ConcatAdjacentSubSeq
<1> QED
  BY <1>1, <1>2 DEF k

\* A prefix, letter by letter.
LEMMA PrefixLetters ==
  ASSUME NEW u \in Text, NEW t \in Text
  PROVE  IsPrefix(u, t) <=> Len(u) <= Len(t) /\ \A i \in 1..Len(u) : u[i] = t[i]
<1>1. u \in Seq(Letters) /\ Len(u) \in Nat /\ Len(t) \in Nat /\ SubSeq(u, 1, Len(u)) = u
  BY SubSeqFull DEF Text
<1>2. CASE Len(u) <= Len(t)
  <2> DEFINE v == SubSeq(t, 1, Len(u))
  <2>1. 1 \in 1..Len(t) + 1 /\ Len(u) \in 1 - 1..Len(t) /\ Len(u) - 1 + 1 = Len(u)
        /\ \A i \in 1..Len(u) : 1 + i - 1 = i
    BY <1>1, <1>2
  <2>2. v \in Text /\ Len(v) = Len(u) - 1 + 1 /\ \A i \in 1..Len(u) - 1 + 1 : v[i] = t[1 + i - 1]
    BY <2>1, SliceLetters
  <2> HIDE DEF v
  <2>3. v \in Seq(Letters) /\ Len(v) = Len(u) /\ \A i \in 1..Len(u) : v[i] = t[i]
    BY <2>1, <2>2 DEF Text
  <2>4. u = v <=> \A i \in 1..Len(u) : u[i] = t[i]
    <3>1. (\A i \in 1..Len(u) : u[i] = v[i]) => u = v
      BY <1>1, <2>3, SeqEqual
    <3> QED
      BY <2>3, <3>1
  <2>5. IsPrefix(u, t) <=> u = v
    BY <1>1, <1>2 DEF IsPrefix, v
  <2> QED
    BY <1>2, <2>4, <2>5
<1>3. CASE ~ (Len(u) <= Len(t))
  BY <1>3 DEF IsPrefix
<1> QED
  BY <1>2, <1>3

\* The beginnings of a start marker.
LEMMA MarkerBeginnings ==
  ASSUME NEW u \in Text
  PROVE  /\ IsStrictPrefix(u, StartMarker) /\ u # <<>> => u[1] = "<"
         /\ Len(u) = 1 /\ u[1] = "<" => IsStrictPrefix(u, StartMarker)
         /\ Len(u) = 2 /\ u[1] = "<" /\ u[2] = "tool" => IsStrictPrefix(u, StartMarker)
<1>1. Len(StartMarker) = 3 /\ StartMarker[1] = "<" /\ StartMarker[2] = "tool" /\ StartMarker \in Text
  BY MarkerTypes DEF StartMarker
<1>2. Len(u) \in Nat /\ (u = <<>> <=> Len(u) = 0)
  BY DEF Text
<1>3. IsPrefix(u, StartMarker) <=> Len(u) <= 3 /\ \A i \in 1..Len(u) : u[i] = StartMarker[i]
  BY <1>1, PrefixLetters
<1>4. ASSUME IsStrictPrefix(u, StartMarker), u # <<>> PROVE u[1] = "<"
  <2>1. 1 \in 1..Len(u)
    BY <1>2, <1>4
  <2> QED
    BY <1>1, <1>3, <1>4, <2>1 DEF IsStrictPrefix
<1>5. Len(u) # 3 => u # StartMarker
  BY <1>1
<1>6. ASSUME Len(u) = 1, u[1] = "<" PROVE IsStrictPrefix(u, StartMarker)
  <2>1. \A i \in 1..Len(u) : i = 1
    BY <1>6
  <2>2. \A i \in 1..Len(u) : u[i] = StartMarker[i]
    BY <1>1, <1>6, <2>1
  <2> QED
    BY <1>3, <1>5, <1>6, <2>2 DEF IsStrictPrefix
<1>7. ASSUME Len(u) = 2, u[1] = "<", u[2] = "tool" PROVE IsStrictPrefix(u, StartMarker)
  <2>1. \A i \in 1..Len(u) : i = 1 \/ i = 2
    BY <1>7
  <2>2. \A i \in 1..Len(u) : u[i] = StartMarker[i]
    BY <1>1, <1>7, <2>1
  <2> QED
    BY <1>3, <1>5, <1>7, <2>2 DEF IsStrictPrefix
<1> QED
  BY <1>4, <1>6, <1>7

\* Where a letter of a slice opens a marker, no call lies across.
LEMMA MarkerIsClean ==
  ASSUME NEW t \in Text, NEW a \in 1..Len(t) + 1, NEW b \in a - 1..Len(t), NEW i \in 1..b - a + 1,
         LET s == SubSeq(t, a, b) IN s[i] = "<"
  PROVE  Clean(t, a + i - 1)
<1> DEFINE s == SubSeq(t, a, b)
<1>1. Len(t) \in Nat /\ s[i] = t[a + i - 1]
  BY SliceLetters DEF Text
<1>2. a + i - 1 \in 1..Len(t)
  BY <1>1
<1>3. t[a + i - 1] = "<"
  BY <1>1
<1> QED
  BY <1>2, <1>3, CleanPlaces

\* A text without a marker, or the beginning of one at its end, stops between calls.
LEMMA NoMarkerIsClean ==
  ASSUME NEW t \in Text, NEW a \in 1..Len(t) + 1, NEW b \in a - 1..Len(t), Clean(t, a),
         ~ Occurs(SubSeq(t, a, b), StartMarker), PartialPlaces(SubSeq(t, a, b)) = {}
  PROVE  Clean(t, b + 1)
<1> DEFINE s == SubSeq(t, a, b)
<1>1. Len(t) \in Nat /\ s \in Text /\ Len(s) = b - a + 1
      /\ \A k \in 1..b - a + 1 : s[k] = t[a + k - 1]
  BY SliceLetters DEF Text
<1>2. ASSUME NEW q \in Int, IsCall(t, q), ~ (b + 1 <= q), ~ (q + 7 <= b + 1) PROVE FALSE
  <2> DEFINE i == q - a + 1
             u == From(s, i)
  <2>1. a <= q
    BY <1>1, <1>2 DEF Clean
  <2>2. i \in 1..b - a + 1 /\ i \in Int /\ a + i - 1 = q /\ i \in 1..Len(s) + 1
    BY <1>1, <1>2, <2>1
  <2>3. t[q] = "<" /\ t[q + 1] = "tool" /\ t[q + 2] = ">"
    BY <1>2 DEF IsCall
  <2>4. u \in Text /\ Len(u) = b + 1 - q /\ \A k \in 1..b + 1 - q : u[k] = t[q + k - 1]
    <3>1. u = SubSeq(t, a + i - 1, b)
      <4>1. i \in 1..b - a + 2
        BY <1>1, <2>2
      <4> HIDE DEF i
      <4> QED
        BY <4>1, SliceParts
    <3>2. u = SubSeq(t, q, b)
      BY <2>2, <3>1
    <3>3. q \in 1..Len(t) + 1 /\ b \in q - 1..Len(t) /\ b - q + 1 = b + 1 - q
      BY <1>1, <1>2, <2>1
    <3> HIDE DEF u
    <3> QED
      BY <3>2, <3>3, SliceLetters
  <2> HIDE DEF u, s
  <2>5. CASE b + 1 - q >= 3
    <3>1. IsStart(s, i)
      <4>1. a + i + 1 <= b /\ i >= 1 /\ i \in 1..Len(s) - 2 /\ IsStart(t, a + i - 1)
        <5>1. IsStart(t, q)
          BY <1>2, CallParts
        <5>2. a + i + 1 <= b /\ i >= 1 /\ i \in 1..Len(s) - 2
          BY <1>1, <2>1, <2>5
        <5> QED
          BY <2>2, <5>1, <5>2
      <4> HIDE DEF i
      <4> QED
        BY <2>2, <4>1, SliceCalls DEF s
    <3>2. i \in Places(s, StartMarker, 1)
      <4>1. 1 \in Nat \ {0} /\ 1 <= i
        BY <2>2
      <4> HIDE DEF i
      <4> QED
        BY <1>1, <3>1, <4>1, StartPlaces
    <3> QED
      BY <3>2 DEF Occurs, s
  <2>6. CASE ~ (b + 1 - q >= 3)
    <3>1. b + 1 - q = 1 \/ b + 1 - q = 2
      BY <1>1, <1>2, <2>6
    <3>2. u[1] = "<"
      <4>1. 1 \in 1..b + 1 - q /\ q + 1 - 1 = q
        BY <3>1
      <4> QED
        BY <2>3, <2>4, <4>1
    <3>3. b + 1 - q = 2 => u[2] = "tool"
      <4>1. b + 1 - q = 2 => 2 \in 1..b + 1 - q
        OBVIOUS
      <4>2. q + 2 - 1 = q + 1
        OBVIOUS
      <4>3. b + 1 - q = 2 => u[2] = t[q + 2 - 1]
        BY <2>4, <4>1
      <4> QED
        BY <2>3, <4>2, <4>3
    <3>4. IsStrictPrefix(u, StartMarker)
      <4>1. Len(u) = 1 \/ (Len(u) = 2 /\ u[2] = "tool")
        BY <2>4, <3>1, <3>3
      <4> QED
        BY <2>4, <3>2, <4>1, MarkerBeginnings
    <3>5. i \in 1..Len(s)
      BY <1>1, <2>2
    <3>6. i \in PartialPlaces(s)
      BY <3>4, <3>5 DEF PartialPlaces, u
    <3> QED
      BY <3>6 DEF s
  <2> QED
    BY <2>5, <2>6
<1> QED
  BY <1>2 DEF Clean

\* Where MarkerMatcher cuts, before a marker or what may become one, or at the end.
LEMMA MatchPlace ==
  ASSUME NEW s \in Text
  PROVE  LET m == Match(s)
         IN  \/ \E i \in 1..Len(s) : m.prefix = Before(s, i) /\ m.rest = From(s, i) /\ s[i] = "<"
             \/ /\ m.prefix = s /\ m.rest = <<>>
                /\ ~ Occurs(s, StartMarker) /\ PartialPlaces(s) = {}
<1> DEFINE m == Match(s)
<1>1. s \in Seq(Letters) /\ Len(s) \in Nat
  BY DEF Text
<1>2. CASE Occurs(s, StartMarker)
  <2> DEFINE S == Places(s, StartMarker, 1)
             i == Min(S)
  <2>1. 1 \in Nat \ {0} /\ S # {}
    BY <1>2 DEF Occurs
  <2>2. S \in SUBSET Nat /\ \A k \in S : IsStart(s, k)
    BY <2>1, PlaceFacts, StartPlaces, MarkerTypes
  <2>3. i \in S
    <3> HIDE DEF S
    <3> QED
      BY <2>1, <2>2, LeastPlace
  <2>4. m = [kind |-> "complete", prefix |-> Before(s, i), rest |-> From(s, i)]
    BY <1>2 DEF Match
  <2> HIDE DEF S, i, m
  <2>5. IsStart(s, i)
    BY <2>2, <2>3
  <2>6. i \in 1..Len(s) /\ s[i] = "<"
    BY <1>1, <2>5 DEF IsStart
  <2>7. m.prefix = Before(s, i) /\ m.rest = From(s, i)
    BY <2>4
  <2> QED
    BY <2>6, <2>7 DEF m
<1>3. CASE ~ Occurs(s, StartMarker) /\ PartialPlaces(s) # {}
  <2> DEFINE S == PartialPlaces(s)
             i == Min(S)
             u == From(s, i)
  <2>1. S \in SUBSET Nat /\ S # {} /\ \A k \in S : k \in 1..Len(s) /\ IsStrictPrefix(From(s, k), StartMarker)
    BY <1>3 DEF PartialPlaces
  <2>2. i \in S
    <3> HIDE DEF S
    <3> QED
      BY <2>1, LeastPlace
  <2>3. m = [kind |-> "partial", prefix |-> Before(s, i), rest |-> From(s, i)]
    BY <1>3 DEF Match
  <2> HIDE DEF S, i, m
  <2>4. i \in 1..Len(s) /\ IsStrictPrefix(u, StartMarker)
    BY <2>1, <2>2
  <2>5. u \in Text /\ Len(u) = Len(s) - i + 1 /\ u[1] = s[i]
    <3>1. i \in 1..Len(s) + 1 /\ Len(s) \in i - 1..Len(s) /\ 1 \in 1..Len(s) - i + 1 /\ i + 1 - 1 = i
      BY <1>1, <2>4
    <3> DEFINE v == SubSeq(s, i, Len(s))
    <3>2. v \in Text /\ Len(v) = Len(s) - i + 1 /\ \A k \in 1..Len(s) - i + 1 : v[k] = s[i + k - 1]
      BY <3>1, SliceLetters
    <3>3. v[1] = s[i + 1 - 1]
      BY <3>1, <3>2
    <3>4. u = v
      BY DEF From
    <3> HIDE DEF u, v
    <3> QED
      BY <3>1, <3>2, <3>3, <3>4
  <2> HIDE DEF u
  <2>6. u # <<>>
    BY <1>1, <2>4, <2>5
  <2>7. s[i] = "<"
    BY <2>4, <2>5, <2>6, MarkerBeginnings
  <2>8. m.prefix = Before(s, i) /\ m.rest = From(s, i)
    BY <2>3
  <2> QED
    BY <2>4, <2>7, <2>8 DEF m
<1>4. CASE ~ Occurs(s, StartMarker) /\ PartialPlaces(s) = {}
  <2>1. m = [kind |-> "none", prefix |-> s, rest |-> <<>>]
    BY <1>4 DEF Match
  <2> QED
    BY <1>4, <2>1
<1> QED
  BY <1>2, <1>3, <1>4

\* A match divides a slice at a place p where no call lies across.
IsCut(m, t, a, p, b) ==
    /\ p \in a..b + 1 /\ Clean(t, p)
    /\ m.prefix = SubSeq(t, a, p - 1) /\ m.rest = SubSeq(t, p, b)

\* MarkerMatcher cuts what was not sent yet at a place where no call lies across.
LEMMA MatchCuts ==
  ASSUME NEW t \in Text, NEW a \in 1..Len(t) + 1, NEW b \in a - 1..Len(t), Clean(t, a)
  PROVE  \E p \in a..b + 1 : IsCut(Match(SubSeq(t, a, b)), t, a, p, b)
<1> DEFINE s == SubSeq(t, a, b)
           m == Match(s)
<1>1. Len(t) \in Nat /\ s \in Text /\ Len(s) = b - a + 1
  BY SliceLetters DEF Text
<1> HIDE DEF s, m
<1>2. ASSUME NEW i \in 1..Len(s), m.prefix = Before(s, i), m.rest = From(s, i), s[i] = "<"
      PROVE  \E p \in a..b + 1 : IsCut(m, t, a, p, b)
  <2> DEFINE p == a + i - 1
  <2>1. i \in 1..b - a + 1 /\ i \in 1..b - a + 2 /\ p \in a..b + 1 /\ a + i - 2 = p - 1
    BY <1>1
  <2>2. Before(s, i) = SubSeq(t, a, a + i - 2) /\ From(s, i) = SubSeq(t, a + i - 1, b)
    BY <2>1, SliceParts DEF s
  <2>3. Clean(t, p)
    BY <1>2, <2>1, MarkerIsClean DEF s
  <2>4. m.prefix = SubSeq(t, a, p - 1) /\ m.rest = SubSeq(t, p, b)
    BY <1>2, <2>1, <2>2
  <2> HIDE DEF p
  <2>5. IsCut(m, t, a, p, b)
    BY <2>1, <2>3, <2>4 DEF IsCut
  <2> QED
    BY <2>1, <2>5
<1>3. ASSUME m.prefix = s, m.rest = <<>>, ~ Occurs(s, StartMarker), PartialPlaces(s) = {}
      PROVE  \E p \in a..b + 1 : IsCut(m, t, a, p, b)
  <2> DEFINE p == b + 1
  <2>1. p \in a..b + 1 /\ p - 1 = b
    BY <1>1
  <2>2. Clean(t, p)
    BY <1>3, NoMarkerIsClean DEF s
  <2>3. SubSeq(t, p, b) = <<>>
    BY <1>1
  <2>4. m.prefix = SubSeq(t, a, p - 1) /\ m.rest = SubSeq(t, p, b)
    BY <1>3, <2>1, <2>3 DEF s
  <2> HIDE DEF p
  <2>5. IsCut(m, t, a, p, b)
    BY <2>1, <2>2, <2>4 DEF IsCut
  <2> QED
    BY <2>1, <2>5
<1>4. \/ \E i \in 1..Len(s) : m.prefix = Before(s, i) /\ m.rest = From(s, i) /\ s[i] = "<"
      \/ m.prefix = s /\ m.rest = <<>> /\ ~ Occurs(s, StartMarker) /\ PartialPlaces(s) = {}
  BY <1>1, MatchPlace DEF m
<1>5. \E p \in a..b + 1 : IsCut(m, t, a, p, b)
  BY <1>2, <1>3, <1>4
<1> QED
  BY <1>5 DEF m, s

-----------------------------------------------------------------------------
(* The text of the emissions of a chunk.                                   *)

\* What an emission writes.
SaidBy(e) == e.text \o CallTexts(e.calls)

\* Delivered one after the other, the emissions have the text w.
Writes(es, w) ==
    \E d \in [0..Len(es) -> Text] :
        /\ d[0] = <<>> /\ d[Len(es)] = w
        /\ \A i \in 1..Len(es) : d[i] = d[i - 1] \o SaidBy(es[i])

\* What an emission writes is a text.
LEMMA SaidType ==
  ASSUME NEW e \in Emissions
  PROVE  SaidBy(e) \in Text
<1>1. e.text \in Text /\ e.calls \in Nat
  BY DEF Emissions
<1>2. CallTexts(e.calls) \in Text
  BY <1>1, CallTextsFacts
<1> QED
  BY <1>1, <1>2, ConcatProperties DEF SaidBy, Text

\* No emissions write nothing.
LEMMA WritesNothing == Writes(<<>>, <<>>)
<1> DEFINE z == <<>>
           d == [i \in 0..0 |-> z]
<1>1. z \in Text /\ Len(z) = 0
  BY DEF Text
<1> HIDE DEF z
<1>2. d \in [0..0 -> Text] /\ d[0] = z
  BY <1>1
<1>3. \A i \in 1..0 : d[i] = d[i - 1] \o SaidBy(z[i])
  OBVIOUS
<1>4. Writes(z, z)
  <2> HIDE DEF d
  <2>1. d \in [0..Len(z) -> Text] /\ d[0] = <<>> /\ d[Len(z)] = z
    BY <1>1, <1>2 DEF z
  <2> QED
    BY <1>1, <1>3, <2>1 DEF Writes
<1> QED
  BY <1>4 DEF z

\* One emission more writes its text after theirs.
LEMMA WritesMore ==
  ASSUME NEW es \in Seq(Emissions), NEW e \in Emissions, NEW w, Writes(es, w)
  PROVE  w \in Text /\ Writes(Append(es, e), w \o SaidBy(e))
<1> DEFINE n == Len(es)
           fs == Append(es, e)
<1>1. PICK d \in [0..n -> Text] :
        /\ d[0] = <<>> /\ d[n] = w
        /\ \A i \in 1..n : d[i] = d[i - 1] \o SaidBy(es[i])
  BY DEF Writes
<1>2. n \in Nat /\ Len(fs) = n + 1 /\ fs[n + 1] = e /\ \A i \in 1..n : fs[i] = es[i]
  OBVIOUS
<1>3. w \in Text
  BY <1>1, <1>2
<1>4. w \o SaidBy(e) \in Text
  BY <1>3, SaidType, ConcatProperties DEF Text
<1> DEFINE v == w \o SaidBy(e)
           f == [i \in 0..n + 1 |-> IF i = n + 1 THEN v ELSE d[i]]
<1> HIDE DEF n, fs, v
<1>5. /\ f \in [0..n + 1 -> Text] /\ f[0] = <<>> /\ f[n + 1] = v
      /\ \A i \in 0..n : f[i] = d[i]
  BY <1>1, <1>2, <1>4 DEF v
<1> HIDE DEF f
<1>6. ASSUME NEW i \in 1..n + 1 PROVE f[i] = f[i - 1] \o SaidBy(fs[i])
  <2>1. CASE i = n + 1
    <3>1. i - 1 = n /\ n \in 0..n
      BY <1>2, <2>1
    <3>2. f[i - 1] = w /\ fs[i] = e /\ f[i] = v
      BY <1>1, <1>2, <1>5, <2>1, <3>1
    <3> QED
      BY <3>2 DEF v
  <2>2. CASE i # n + 1
    <3>1. i \in 1..n /\ i \in 0..n /\ i - 1 \in 0..n
      BY <1>2, <2>2
    <3>2. f[i] = d[i] /\ f[i - 1] = d[i - 1] /\ fs[i] = es[i]
      BY <1>2, <1>5, <3>1
    <3> QED
      BY <1>1, <3>1, <3>2
  <2> QED
    BY <2>1, <2>2
<1>7. Writes(fs, v)
  BY <1>2, <1>5, <1>6 DEF Writes
<1> QED
  BY <1>3, <1>7 DEF fs, v

\* It does not depend on finish reasons and reasoning.
LEMMA WritesSame ==
  ASSUME NEW es, NEW fs, Len(fs) = Len(es), NEW w, Writes(es, w),
         \A i \in 1..Len(es) : fs[i].text = es[i].text /\ fs[i].calls = es[i].calls
  PROVE  Writes(fs, w)
<1>1. PICK d \in [0..Len(es) -> Text] :
        /\ d[0] = <<>> /\ d[Len(es)] = w
        /\ \A i \in 1..Len(es) : d[i] = d[i - 1] \o SaidBy(es[i])
  BY DEF Writes
<1>2. \A i \in 1..Len(es) : SaidBy(fs[i]) = SaidBy(es[i])
  BY DEF SaidBy
<1>3. \A i \in 1..Len(fs) : d[i] = d[i - 1] \o SaidBy(fs[i])
  BY <1>1, <1>2
<1>4. d \in [0..Len(fs) -> Text] /\ d[0] = <<>> /\ d[Len(fs)] = w
  BY <1>1
<1> QED
  BY <1>3, <1>4 DEF Writes

\* Four texts in a row, and texts joined in another order.
LEMMA TextsAssociate ==
  ASSUME NEW t \in Text, NEW u \in Text, NEW v \in Text
  PROVE  (t \o u) \o v = t \o (u \o v) /\ t \o <<>> = t /\ <<>> \o t = t
BY ConcatAssociative, ConcatEmptySeq DEF Text

\* What one emission adds to the text of the output.
LEMMA DeliverWrites ==
  ASSUME NEW o \in Seq(Outputs), NEW e \in Emissions
  PROVE  Flat(Deliver(o, e)) = Flat(o) \o SaidBy(e)
<1> DEFINE r == [i \in 1..e.reasoning |-> "reasoning"]
           t == e.text
           c == [i \in 1..e.calls |-> "call"]
           b1 == o \o r
           b2 == b1 \o t
           body == b2 \o c
           told == IF e.finish = "stop" /\ Contains(body, "call") THEN "tool_calls" ELSE e.finish
           u == CallTexts(e.calls)
           f == Flat(o)
<1>1. Deliver(o, e) = IF e.finish = None THEN body ELSE Append(body, told)
  BY DEF Deliver
<1>2. e.reasoning \in Nat /\ t \in Text /\ e.calls \in Nat /\ e.finish \in Reasons
  BY DEF Emissions
<1>3. r \in Seq({"reasoning"}) /\ c \in Seq({"call"})
  <2>1. r \in [1..e.reasoning -> {"reasoning"}] /\ c \in [1..e.calls -> {"call"}]
    OBVIOUS
  <2> QED
    BY <1>2, <2>1
<1>4. u = Flat(c) /\ u \in Text
  BY <1>2, CallTextsFacts DEF CallTexts, CallList
<1>5. e.finish # None => told \in FinishReasons
  BY <1>2 DEF Reasons, EngineReasons, FinishReasons
<1>6. t \in Seq(Letters)
  BY <1>2 DEF Text
<1> HIDE DEF r, t, c, told, u
<1>7. r \in Seq(Outputs) /\ t \in Seq(Outputs) /\ c \in Seq(Outputs)
  BY <1>3, <1>6 DEF Outputs
<1>8. Flat(r) = <<>>
  <2>1. \A x \in {"reasoning"} : Word(x) = <<>>
    BY DEF Word, Letters
  <2> QED
    BY <1>3, <2>1, FlatSilent
<1>9. Flat(t) = t /\ f \in Text
  BY <1>2, FlatText, FlatType
<1>10. b1 \in Seq(Outputs) /\ Flat(b1) = f \o Flat(r)
  BY <1>7, FlatConcat, ConcatProperties
<1> HIDE DEF b1, f
<1>11. Flat(b1) = f
  BY <1>8, <1>9, <1>10, TextsAssociate
<1>12. b2 \in Seq(Outputs) /\ Flat(b2) = Flat(b1) \o Flat(t)
  BY <1>7, <1>10, FlatConcat, ConcatProperties
<1> HIDE DEF b2
<1>13. Flat(b2) = f \o t
  BY <1>9, <1>11, <1>12
<1>14. body \in Seq(Outputs) /\ Flat(body) = Flat(b2) \o Flat(c)
  BY <1>7, <1>12, FlatConcat, ConcatProperties
<1> HIDE DEF body
<1>15. Flat(body) = f \o (t \o u)
  <2>1. Flat(body) = (f \o t) \o u
    BY <1>4, <1>13, <1>14
  <2> QED
    BY <1>2, <1>4, <1>9, <2>1, TextsAssociate
<1>16. e.finish # None => Flat(Append(body, told)) = Flat(body)
  <2> SUFFICES ASSUME e.finish # None PROVE Flat(Append(body, told)) = Flat(body)
    OBVIOUS
  <2> DEFINE l == <<told>>
  <2>1. told \in FinishReasons /\ told \in Outputs /\ told # "call" /\ told \notin Letters
    BY <1>5, WordsDiffer DEF Outputs
  <2>2. Word(told) = <<>>
    BY <2>1 DEF Word
  <2>3. l \in Seq(Outputs) /\ Append(body, told) = body \o l
    <3>1. l \in Seq(Outputs)
      BY <2>1
    <3>2. Append(body, told) = body \o l
      BY <1>14, <2>1, AppendIsConcat
    <3> QED
      BY <3>1, <3>2
  <2>4. Flat(l) = <<>>
    BY <2>2, FlatOne
  <2> HIDE DEF l
  <2>5. Flat(body \o l) = Flat(body) \o Flat(l) /\ Flat(body) \in Text
    BY <1>14, <2>3, FlatConcat, FlatType
  <2> QED
    BY <2>3, <2>4, <2>5, TextsAssociate
<1>17. Flat(Deliver(o, e)) = f \o (t \o u)
  BY <1>1, <1>15, <1>16
<1> QED
  BY <1>17 DEF f, t, u, SaidBy

\* The client gets the text of the emissions after what it had.
LEMMA YieldWrites ==
  ASSUME NEW o \in Seq(Outputs), NEW es \in Seq(Emissions), InOrder(es), NEW w, Writes(es, w)
  PROVE  Flat(YieldAll(o, es)) = Flat(o) \o w
<1> DEFINE n == Len(es)
<1>1. PICK v \in [0..n -> Text] :
        /\ v[0] = <<>> /\ v[n] = w
        /\ \A i \in 1..n : v[i] = v[i - 1] \o SaidBy(es[i])
  BY DEF Writes
<1>2. PICK d : IsFold(d, o, es)
  BY FoldExists
<1>3. /\ d \in [0..n -> Seq(Outputs)] /\ d[0] = o
      /\ \A i \in 1..n : d[i] = Deliver(d[i - 1], es[i])
  BY <1>2 DEF IsFold
<1>4. YieldAll(o, es) = d[n]
  BY <1>2, BucketsKeepOrder
<1>5. n \in Nat /\ \A i \in 1..n : es[i] \in Emissions
  OBVIOUS
<1> DEFINE Good(k) == Flat(d[k]) = Flat(o) \o v[k]
           G == {k \in 0..n : Good(k)}
<1> HIDE DEF n
<1>6. Good(0)
  <2>1. Flat(o) \in Text
    BY FlatType
  <2>2. Flat(o) \o <<>> = Flat(o)
    BY <2>1, TextsAssociate
  <2> QED
    BY <1>1, <1>3, <2>2
<1>7. ASSUME NEW k \in 0..n, k < n, Good(k) PROVE Good(k + 1)
  <2> DEFINE i == k + 1
  <2>1. i \in 1..n /\ i - 1 = k
    BY <1>5, <1>7
  <2> HIDE DEF i
  <2>2. d[i] = Deliver(d[k], es[i]) /\ v[i] = v[k] \o SaidBy(es[i]) /\ es[i] \in Emissions
    BY <1>1, <1>3, <1>5, <2>1
  <2>3. d[k] \in Seq(Outputs) /\ v[k] \in Text /\ Flat(o) \in Text /\ SaidBy(es[i]) \in Text
    BY <1>1, <1>3, <1>7, <2>2, FlatType, SaidType
  <2>4. Flat(d[i]) = Flat(d[k]) \o SaidBy(es[i])
    BY <2>2, <2>3, DeliverWrites
  <2>5. Flat(d[i]) = (Flat(o) \o v[k]) \o SaidBy(es[i])
    BY <1>7, <2>4
  <2>6. Flat(d[i]) = Flat(o) \o v[i]
    <3> DEFINE x == Flat(o)
               y == v[k]
               z == SaidBy(es[i])
    <3>1. x \in Text /\ y \in Text /\ z \in Text
      BY <2>3
    <3>2. Flat(d[i]) = (x \o y) \o z /\ v[i] = y \o z
      BY <2>2, <2>5
    <3> HIDE DEF x, y, z
    <3>3. (x \o y) \o z = x \o (y \o z)
      BY <3>1, TextsAssociate
    <3>4. Flat(d[i]) = x \o v[i]
      BY <3>2, <3>3, Zenon
    <3> QED
      BY <3>4 DEF x
  <2> QED
    BY <2>6 DEF i
<1> HIDE DEF Good
<1>8. \A k \in 0..n : k \in G
  <2>1. 0 \in G
    BY <1>5, <1>6
  <2>2. ASSUME NEW k \in 0..n, k < n, k \in G PROVE k + 1 \in G
    <3>1. k + 1 \in 0..n
      BY <1>5, <2>2
    <3> QED
      BY <1>7, <2>2, <3>1
  <2> HIDE DEF G
  <2> QED
    BY <1>5, <2>1, <2>2, BoundedInduction
<1>9. Good(n)
  BY <1>5, <1>8
<1> QED
  BY <1>1, <1>4, <1>9 DEF Good

\* The emission of a text, which may be empty, and of a text with calls.
LEMMA EmitWrites ==
  ASSUME NEW r \in Results, NEW w, Writes(r.emissions, w), NEW kind \in Kinds, NEW t \in Text, NEW k \in Nat
  PROVE  /\ w \in Text
         /\ Writes(Emit(r, Emission(kind, t, k)).emissions, w \o (t \o CallTexts(k)))
         /\ Writes(Emit(r, Emission(kind, t, 0)).emissions, w \o t)
         /\ Writes(EmitText(r, kind, t).emissions, w \o t)
<1>1. r.emissions \in Seq(Emissions)
  BY DEF Results
<1>2. ASSUME NEW j \in Nat
      PROVE  w \in Text /\ Writes(Emit(r, Emission(kind, t, j)).emissions, w \o (t \o CallTexts(j)))
  <2> DEFINE e == Emission(kind, t, j)
  <2>1. e \in Emissions /\ e.text = t /\ e.calls = j
    BY BareEmission
  <2> HIDE DEF e
  <2>2. Emit(r, e).emissions = Append(r.emissions, e)
    BY <2>1, EmitFacts
  <2>3. w \in Text /\ Writes(Append(r.emissions, e), w \o SaidBy(e))
    BY <1>1, <2>1, WritesMore
  <2>4. SaidBy(e) = t \o CallTexts(j)
    BY <2>1 DEF SaidBy
  <2> QED
    BY <2>2, <2>3, <2>4 DEF e
<1>3. t \o CallTexts(0) = t /\ 0 \in Nat
  <2>1. CallTexts(0) = <<>>
    BY CallTextsFacts
  <2> QED
    BY <2>1, TextsAssociate
<1>4. Writes(Emit(r, Emission(kind, t, 0)).emissions, w \o t)
  BY <1>2, <1>3
<1>5. Writes(EmitText(r, kind, t).emissions, w \o t)
  <2>1. CASE t = <<>>
    <3>1. EmitText(r, kind, t) = r
      BY <2>1 DEF EmitText
    <3>2. w \o t = w
      BY <1>2, <1>3, <2>1, TextsAssociate
    <3> QED
      BY <3>1, <3>2
  <2>2. CASE t # <<>>
    BY <1>4, <2>2 DEF EmitText
  <2> QED
    BY <2>1, <2>2
<1> QED
  BY <1>2, <1>4, <1>5

-----------------------------------------------------------------------------
(* A chunk loses nothing: of the slice of t from a to b, which a choice    *)
(* held or got, the beginning is emitted and the rest is held.             *)

\* r, which may be a state between, has emitted up to p and holds the rest.
Kept(r, t, a, b) ==
    \E p \in a..b + 1 :
        /\ Writes(r.emissions, SubSeq(t, a, p - 1)) /\ Clean(t, p)
        /\ r.state.accumulated \o r.state.partial = SubSeq(t, p, b)

\* What was emitted of the slice, before a place where no call lies across.
Emitted(r, t, a, p) == r \in Results /\ Writes(r.emissions, SubSeq(t, a, p - 1)) /\ Clean(t, p)

\* The prefix of a match is emitted.
LEMMA PrefixEmitted ==
  ASSUME NEW t \in Text, NEW a \in 1..Len(t) + 1, NEW b \in a - 1..Len(t), NEW p \in a..b + 1,
         NEW q \in p..b + 1, NEW r, Emitted(r, t, a, p), NEW m, IsCut(m, t, p, q, b), NEW kind \in Kinds
  PROVE  /\ m.prefix \in Text /\ m.rest \in Text
         /\ Emitted(EmitText(r, kind, m.prefix), t, a, q)
         /\ EmitText(r, kind, m.prefix).state = r.state
         /\ Emitted(Emit(r, Emission(kind, m.prefix, 0)), t, a, q)
         /\ Emit(r, Emission(kind, m.prefix, 0)).state = r.state
<1> DEFINE w == SubSeq(t, a, p - 1)
           x == EmitText(r, kind, m.prefix)
           y == Emit(r, Emission(kind, m.prefix, 0))
<1>1. Len(t) \in Nat
  BY DEF Text
<1>2. /\ p \in 1..Len(t) + 1 /\ q - 1 \in p - 1..Len(t) /\ q \in 1..Len(t) + 1 /\ b \in q - 1..Len(t)
      /\ p \in a..Len(t) + 1
  BY <1>1
<1>3. m.prefix = SubSeq(t, p, q - 1) /\ m.rest = SubSeq(t, q, b) /\ Clean(t, q)
  BY DEF IsCut
<1>4. m.prefix \in Text /\ m.rest \in Text
  BY <1>2, <1>3, SliceLetters
<1>5. r \in Results /\ Writes(r.emissions, w)
  BY DEF Emitted
<1>6. w \o m.prefix = SubSeq(t, a, q - 1)
  BY <1>2, <1>3, SlicesMeet
<1> HIDE DEF w
<1>7. Writes(x.emissions, w \o m.prefix) /\ Writes(y.emissions, w \o m.prefix)
  <2>1. 0 \in Nat
    OBVIOUS
  <2> QED
    BY <1>4, <1>5, <2>1, EmitWrites
<1>8. x \in Results /\ x.state = r.state
  BY <1>4, <1>5, EmitTextFacts
<1>9. y \in Results /\ y.state = r.state
  <2>1. Emission(kind, m.prefix, 0) \in Emissions
    BY <1>4, BareEmission
  <2> QED
    BY <1>5, <2>1, EmitFacts
<1> HIDE DEF x, y
<1>10. Emitted(x, t, a, q) /\ Emitted(y, t, a, q)
  BY <1>3, <1>6, <1>7, <1>8, <1>9 DEF Emitted
<1> QED
  BY <1>4, <1>8, <1>9, <1>10 DEF x, y

\* The rest is held: as a jail, as a partial marker, or there is none.
LEMMA RestIsKept ==
  ASSUME NEW t, NEW a, NEW b, NEW p \in a..b + 1, NEW r, Emitted(r, t, a, p),
         NEW rest \in Text, rest = SubSeq(t, p, b)
  PROVE  /\ Kept(BeginJail(r, rest), t, a, b)
         /\ r.state.accumulated = <<>> => Kept(Hold(r, rest), t, a, b)
         /\ r.state.accumulated = <<>> /\ r.state.partial = rest => Kept(r, t, a, b)
         /\ r.state.accumulated = rest /\ r.state.partial = <<>> => Kept(r, t, a, b)
<1>1. r \in Results /\ Writes(r.emissions, SubSeq(t, a, p - 1)) /\ Clean(t, p) /\ r.state \in States
  BY DEF Emitted, Results
<1>2. rest \o <<>> = rest /\ <<>> \o rest = rest
  BY TextsAssociate
<1>3. Kept(BeginJail(r, rest), t, a, b)
  <2> DEFINE x == BeginJail(r, rest)
  <2>1. x.emissions = r.emissions /\ x.state
          = [r.state EXCEPT !.is_jailed = TRUE, !.accumulated = rest, !.partial = <<>>, !.searched = 0]
    BY <1>1, HoldingFacts
  <2> HIDE DEF x
  <2>2. x.state.accumulated = rest /\ x.state.partial = <<>>
    BY <1>1, <2>1 DEF States
  <2>3. Kept(x, t, a, b)
    BY <1>1, <1>2, <2>1, <2>2 DEF Kept
  <2> QED
    BY <2>3 DEF x
<1>4. ASSUME r.state.accumulated = <<>> PROVE Kept(Hold(r, rest), t, a, b)
  <2> DEFINE x == Hold(r, rest)
  <2>1. x.emissions = r.emissions /\ x.state = [r.state EXCEPT !.partial = rest]
    BY <1>1, HoldingFacts
  <2> HIDE DEF x
  <2>2. x.state.accumulated = <<>> /\ x.state.partial = rest
    BY <1>1, <1>4, <2>1 DEF States
  <2>3. Kept(x, t, a, b)
    BY <1>1, <1>2, <2>1, <2>2 DEF Kept
  <2> QED
    BY <2>3 DEF x
<1>5. r.state.accumulated = <<>> /\ r.state.partial = rest => Kept(r, t, a, b)
  BY <1>1, <1>2 DEF Kept
<1>6. r.state.accumulated = rest /\ r.state.partial = <<>> => Kept(r, t, a, b)
  BY <1>1, <1>2 DEF Kept
<1> QED
  BY <1>3, <1>4, <1>5, <1>6

\* What trails completed calls is kept.
LEMMA TrailingIsKept ==
  ASSUME NEW t \in Text, NEW a \in 1..Len(t) + 1, NEW b \in a - 1..Len(t), NEW p \in a..b + 1,
         NEW r, Emitted(r, t, a, p), Empty(r.state)
  PROVE  Kept(HandleTrailing(r, SubSeq(t, p, b)), t, a, b)
<1> DEFINE content == SubSeq(t, p, b)
           text == r.state.partial \o content
           m == Match(text)
           clear == Hold(r, <<>>)
           head == EmitText(clear, "trailing", m.prefix)
           x == HandleTrailing(r, content)
<1>1. /\ x = IF content = <<>> THEN r
             ELSE IF m.kind = "complete" THEN BeginJail(head, m.rest)
             ELSE IF m.kind = "partial" THEN Hold(head, m.rest)
             ELSE IF ShouldStartJail(text) THEN BeginJail(clear, text)
             ELSE EmitText(clear, "trailing", text)
  BY DEF HandleTrailing
<1>2. Len(t) \in Nat /\ p \in 1..Len(t) + 1 /\ b \in p - 1..Len(t) /\ Clean(t, p) /\ r \in Results
  BY DEF Text, Emitted
<1>3. content \in Text /\ <<>> \in Text
  BY <1>2, SliceLetters DEF Text
<1>4. r.state.accumulated = <<>> /\ r.state.partial = <<>>
  BY DEF Empty
<1>5. text = content
  <2> HIDE DEF content
  <2> QED
    BY <1>3, <1>4, TextsAssociate
<1>6. clear.state = [r.state EXCEPT !.partial = <<>>] /\ clear.emissions = r.emissions /\ clear \in Results
  BY <1>2, <1>3, HoldingFacts
<1>7. IsMatch(m, content)
  BY <1>3, <1>5, MatchFacts
<1>8. PICK q \in p..b + 1 : IsCut(m, t, p, q, b)
  <2>1. \E q \in p..b + 1 : IsCut(Match(SubSeq(t, p, b)), t, p, q, b)
    BY <1>2, MatchCuts
  <2> QED
    BY <1>5, <2>1
<1>9. m.rest = SubSeq(t, q, b) /\ q \in a..b + 1 /\ b \in Int
  BY <1>2, <1>8 DEF IsCut
<1> HIDE DEF text, m, clear, x
<1>10. clear.state.accumulated = <<>> /\ clear.state.partial = <<>>
  BY <1>2, <1>4, <1>6 DEF Results, States
<1>11. Emitted(clear, t, a, p)
  BY <1>6 DEF Emitted
<1>12. m.prefix \in Text /\ m.rest \in Text /\ Emitted(head, t, a, q) /\ head.state = clear.state
  <2>1. "trailing" \in Kinds
    BY DEF Kinds
  <2> HIDE DEF head
  <2> QED
    BY <1>8, <1>11, <2>1, PrefixEmitted DEF head
<1> HIDE DEF head
<1>13. CASE content = <<>>
  <2>1. x = r
    BY <1>1, <1>13
  <2> QED
    BY <1>3, <1>4, <1>13, <2>1, RestIsKept DEF x
<1>14. CASE content # <<>> /\ m.kind = "complete"
  <2>1. x = BeginJail(head, m.rest)
    BY <1>1, <1>14
  <2> QED
    BY <1>9, <1>12, <2>1, RestIsKept DEF x
<1>15. CASE content # <<>> /\ m.kind = "partial"
  <2>1. x = Hold(head, m.rest)
    BY <1>1, <1>15
  <2>2. head.state.accumulated = <<>>
    BY <1>10, <1>12
  <2> QED
    BY <1>9, <1>12, <2>1, <2>2, RestIsKept DEF x
<1>16. CASE content # <<>> /\ m.kind \notin {"complete", "partial"} /\ ShouldStartJail(text)
  <2>1. x = BeginJail(clear, content)
    BY <1>1, <1>5, <1>16
  <2> QED
    BY <1>3, <1>11, <2>1, RestIsKept DEF x
<1>17. CASE content # <<>> /\ m.kind \notin {"complete", "partial"} /\ ~ ShouldStartJail(text)
  <2>1. m.kind = "none"
    BY <1>7, <1>17 DEF IsMatch
  <2>2. m.prefix = content /\ m.rest = <<>>
    BY <1>7, <2>1 DEF IsMatch
  <2>3. x = head
    BY <1>1, <1>5, <1>17, <2>2 DEF head
  <2>4. head.state.accumulated = <<>> /\ head.state.partial = m.rest
    BY <1>10, <1>12, <2>2
  <2> QED
    BY <1>9, <1>12, <2>3, <2>4, RestIsKept DEF x
<1> QED
  BY <1>13, <1>14, <1>15, <1>16, <1>17

\* Completed calls are emitted as they were written, and what trails them is kept.
LEMMA CallsAreKept ==
  ASSUME NEW t \in Text, WellFormed(t), NEW a \in 1..Len(t) + 1, NEW b \in a - 1..Len(t), NEW p \in a..b + 1,
         NEW r, Emitted(r, t, a, p), r.state.accumulated = SubSeq(t, p, b), r.state.partial = <<>>,
         Places(r.state.accumulated, EndMarker, 1) # {}
  PROVE  Kept(EmitCompleted(r, EndPosition(r.state.accumulated)), t, a, b)
<1> DEFINE text == r.state.accumulated
           split == EndPosition(text)
           region == SubSeq(text, 1, split)
           normal == NormalText(region)
           calls == ClosedCalls(region)
           e == Emission("call", normal, calls)
           y == Emit(r, e)
           done == EndJail(y)
           content == From(text, split + 1)
           q == p + split
           w == SubSeq(t, a, p - 1)
<1>1. EmitCompleted(r, split) = HandleTrailing(done, content)
  BY DEF EmitCompleted
<1>2. /\ Len(t) \in Nat /\ p \in 1..Len(t) + 1 /\ b \in p - 1..Len(t) /\ p \in a..Len(t) + 1
      /\ Clean(t, p) /\ r \in Results /\ Writes(r.emissions, w) /\ text = SubSeq(t, p, b)
  BY DEF Text, Emitted
<1>3. text \in Text /\ Len(text) = b - p + 1 /\ Places(text, EndMarker, 1) # {}
  <2>1. SubSeq(t, p, b) \in Text /\ Len(SubSeq(t, p, b)) = b - p + 1
    BY <1>2, SliceLetters
  <2> QED
    BY <1>2, <2>1
<1>4. Balanced(text)
  <2>1. Balanced(SubSeq(t, p, b))
    BY <1>2, SliceBalanced
  <2> QED
    BY <1>2, <2>1
<1> HIDE DEF text
<1>5. split \in 0..Len(text) /\ IsCall(text, split - 6) /\ normal \o CallTexts(calls) = region
  BY <1>3, <1>4, CompletedIsKept
<1> HIDE DEF split
<1>6. region = SubSeq(t, p, q - 1) /\ content = SubSeq(t, q, b)
  <2>1. /\ split + 1 \in 1..b - p + 2 /\ p + (split + 1) - 1 = q
        /\ p + (split + 1) - 2 = q - 1 /\ (split + 1) - 1 = split
    BY <1>2, <1>3, <1>5
  <2>2. /\ Before(SubSeq(t, p, b), split + 1) = SubSeq(t, p, p + (split + 1) - 2)
        /\ From(SubSeq(t, p, b), split + 1) = SubSeq(t, p + (split + 1) - 1, b)
    BY <1>2, <2>1, SliceParts
  <2>3. Before(text, split + 1) = SubSeq(t, p, q - 1) /\ From(text, split + 1) = SubSeq(t, q, b)
    BY <1>2, <2>1, <2>2
  <2>4. Before(text, split + 1) = region
    BY <2>1 DEF Before
  <2> QED
    BY <2>3, <2>4
<1>7. q \in p..b + 1 /\ q \in a..b + 1 /\ q - 1 \in p - 1..Len(t) /\ q \in Int
  BY <1>2, <1>3, <1>5, SMTT(30)
<1>8. Clean(t, q)
  <2> DEFINE i == split - 6
  <2>1. i \in Int /\ (p + i - 1) + 7 = q /\ p + i - 1 \in Int
    BY <1>2, <1>5
  <2> HIDE DEF i, q
  <2>2. IsCall(SubSeq(t, p, b), i)
    BY <1>2, <1>5 DEF i
  <2>3. IsCall(t, p + i - 1)
    BY <1>2, <2>1, <2>2, SliceCalls
  <2>4. Clean(t, (p + i - 1) + 7)
    BY <2>1, <2>3, CleanPlaces
  <2> QED
    BY <2>1, <2>4
<1> HIDE DEF q
<1>9. region \in Text
  <2>1. SubSeq(t, p, q - 1) \in Text
    BY <1>2, <1>7, SliceLetters
  <2> QED
    BY <1>6, <2>1
<1> HIDE DEF region
<1>10. normal \in Text /\ calls \in Nat
  BY <1>9, NormalTextType, CallCounts
<1>11. e \in Emissions
  <2>1. "call" \in Kinds
    BY DEF Kinds
  <2> HIDE DEF normal, calls
  <2> QED
    BY <1>10, <2>1, BareEmission
<1>12. w \o region = SubSeq(t, a, q - 1)
  <2>1. SubSeq(t, a, p - 1) \o SubSeq(t, p, q - 1) = SubSeq(t, a, q - 1)
    BY <1>2, <1>7, SlicesMeet
  <2> QED
    BY <1>6, <2>1
<1>13. Writes(y.emissions, SubSeq(t, a, q - 1))
  <2>1. "call" \in Kinds
    BY DEF Kinds
  <2> HIDE DEF normal, calls, w, e
  <2>2. Writes(Emit(r, Emission("call", normal, calls)).emissions, w \o (normal \o CallTexts(calls)))
    BY <1>2, <1>10, <2>1, EmitWrites
  <2>3. Writes(y.emissions, w \o region)
    BY <1>5, <2>2 DEF e
  <2> QED
    BY <1>12, <2>3
<1> HIDE DEF normal, calls, e, w
<1>14. y \in Results /\ y.state = r.state
  BY <1>2, <1>11, EmitFacts
<1> HIDE DEF y
<1>15. /\ done \in Results /\ done.emissions = y.emissions
       /\ done.state = [y.state EXCEPT !.is_jailed = FALSE, !.accumulated = <<>>, !.searched = 0]
  <2>1. <<>> \in Text
    BY DEF Text
  <2> QED
    BY <1>14, <2>1, HoldingFacts
<1> HIDE DEF done
<1>16. Empty(done.state)
  <2>1. r.state \in States
    BY <1>2 DEF Results
  <2> QED
    BY <1>14, <1>15, <2>1 DEF Empty, States
<1>17. Emitted(done, t, a, q)
  BY <1>8, <1>13, <1>15 DEF Emitted
<1>18. Kept(HandleTrailing(done, content), t, a, b)
  BY <1>6, <1>7, <1>16, <1>17, TrailingIsKept
<1> QED
  BY <1>1, <1>18 DEF split, text

\* A jail that is searched is kept, whether it holds a completed call or not.
LEMMA JailIsKept ==
  ASSUME NEW t \in Text, WellFormed(t), NEW a \in 1..Len(t) + 1, NEW b \in a - 1..Len(t), NEW p \in a..b + 1,
         NEW r, Emitted(r, t, a, p), r.state.accumulated = SubSeq(t, p, b), Unsearched(r.state)
  PROVE  Kept(TryComplete(r), t, a, b)
<1> DEFINE text == r.state.accumulated
<1>1. r \in Results /\ r.state \in States /\ r.state.partial = <<>>
      /\ r = [state |-> r.state, emissions |-> r.emissions]
  BY DEF Emitted, Unsearched, Results
<1>2. CASE NewEndMarkers(r.state) = {}
  <2> DEFINE x == [r EXCEPT !.state.searched = Len(text)]
  <2>1. TryComplete(r) = x
    BY <1>2 DEF TryComplete
  <2>2. /\ x.emissions = r.emissions /\ x.state.accumulated = text /\ x.state.partial = <<>>
        /\ x \in Results
    <3>1. text \in Text /\ Len(text) \in Nat
      <4>1. text \in Text
        BY <1>1 DEF States
      <4> HIDE DEF text
      <4> QED
        BY <4>1 DEF Text
    <3>2. x = [state |-> [r.state EXCEPT !.searched = Len(text)], emissions |-> r.emissions]
      BY <1>1
    <3>3. [r.state EXCEPT !.searched = Len(text)] \in States
      BY <1>1, <3>1 DEF States
    <3> HIDE DEF x
    <3> QED
      BY <1>1, <3>2, <3>3 DEF States, Results
  <2> HIDE DEF x
  <2>3. Emitted(x, t, a, p)
    BY <2>2 DEF Emitted
  <2>4. text \in Text
    BY <1>1 DEF States
  <2> QED
    BY <2>1, <2>2, <2>3, <2>4, RestIsKept
<1>3. CASE NewEndMarkers(r.state) # {}
  <2>1. Places(text, EndMarker, 1) # {}
    BY <1>1, <1>3, SearchIsEnough
  <2>2. TryComplete(r) = EmitCompleted(r, EndPosition(text))
    BY <1>3 DEF TryComplete
  <2> QED
    BY <1>1, <2>1, <2>2, CallsAreKept
<1> QED
  BY <1>2, <1>3

\* A chunk with content: with what the choice held, all of it is emitted or held.
LEMMA ContentIsKept ==
  ASSUME NEW t \in Text, WellFormed(t), NEW a \in 1..Len(t) + 1, NEW n \in a - 1..Len(t), NEW b \in n..Len(t),
         Clean(t, a), NEW s \in States, Settled(s), s.accumulated \o s.partial = SubSeq(t, a, n)
  PROVE  Kept(ProcessContent(s, SubSeq(t, n + 1, b)), t, a, b)
<1> DEFINE content == SubSeq(t, n + 1, b)
           r == [state |-> s, emissions |-> <<>>]
           added == [r EXCEPT !.state.accumulated = @ \o content]
           text == s.partial \o content
           m == Match(text)
           head == EmitText(r, "pass", m.prefix)
           clear == Hold(r, <<>>)
           head2 == EmitText(clear, "pass", m.prefix)
           begun == BeginJail(head, m.rest)
           x == ProcessContent(s, content)
<1>1. x = IF s.is_jailed THEN TryComplete(added)
          ELSE IF m.kind = "complete" THEN TryComplete(begun)
          ELSE IF m.kind = "partial" THEN Hold(head, m.rest)
          ELSE IF ShouldStartJail(text) THEN BeginJail(r, text)
          ELSE IF s.reasoning > 0 THEN Emit(clear, Emission("pass", text, 0))
          ELSE EmitText(clear, "pass", text)
  BY DEF ProcessContent
<1>2. /\ Len(t) \in Nat /\ a \in a..b + 1 /\ b \in a - 1..Len(t) /\ b \in Int
      /\ n + 1 \in 1..Len(t) + 1 /\ n + 1 \in a..Len(t) + 1 /\ b \in (n + 1) - 1..Len(t) /\ (n + 1) - 1 = n
  BY DEF Text
<1>3. content \in Text /\ <<>> \in Text /\ "pass" \in Kinds
  BY <1>2, SliceLetters DEF Text, Kinds
<1>4. SubSeq(t, a, n) \o content = SubSeq(t, a, b)
  <2>1. SubSeq(t, a, (n + 1) - 1) \o SubSeq(t, n + 1, b) = SubSeq(t, a, b)
    BY <1>2, SlicesMeet
  <2> QED
    BY <1>2, <2>1
<1>5. s.accumulated \in Text /\ s.partial \in Text /\ SubSeq(t, a, b) \in Text
  <2>1. SubSeq(t, a, b) \in Text
    BY <1>2, SliceLetters
  <2> QED
    BY <2>1 DEF States
<1>6. r \in Results /\ r.state = s /\ r.emissions = <<>>
  BY DEF Results
<1> HIDE DEF content
<1>7. Emitted(r, t, a, a)
  <2>1. SubSeq(t, a, a - 1) = <<>>
    BY <1>2
  <2> QED
    BY <1>6, <2>1, WritesNothing DEF Emitted
<1>8. CASE s.is_jailed
  <2>1. x = TryComplete(added)
    BY <1>1, <1>8
  <2>2. /\ added \in Results /\ Unsearched(added.state) /\ added.emissions = <<>>
        /\ added.state.accumulated = s.accumulated \o content
    <3>1. Added(added, s, content)
      BY <1>3, <1>8, AddedFacts
    <3> HIDE DEF added
    <3> QED
      BY <3>1 DEF Added
  <2>3. s.partial = <<>>
    BY <1>8 DEF Settled
  <2>4. s.accumulated = SubSeq(t, a, n)
    BY <1>5, <2>3, TextsAssociate
  <2> HIDE DEF added, x
  <2>5. added.state.accumulated = SubSeq(t, a, b)
    BY <1>4, <2>2, <2>4
  <2>6. Emitted(added, t, a, a)
    BY <1>6, <1>7, <2>2 DEF Emitted
  <2>7. Kept(TryComplete(added), t, a, b)
    BY <1>2, <2>2, <2>5, <2>6, JailIsKept
  <2> QED
    BY <2>1, <2>7 DEF x, content
<1> SUFFICES ASSUME ~ s.is_jailed PROVE Kept(x, t, a, b)
  BY <1>8 DEF content
<1>9. s.accumulated = <<>> /\ s.searched = 0
  BY DEF Settled
<1>10. text = SubSeq(t, a, b)
  <2>1. s.partial = SubSeq(t, a, n)
    BY <1>5, <1>9, TextsAssociate
  <2> QED
    BY <1>4, <2>1
<1>11. IsMatch(m, text)
  <2>1. text \in Text
    BY <1>5, <1>10
  <2> HIDE DEF text
  <2> QED
    BY <2>1, MatchFacts
<1>12. PICK q \in a..b + 1 : IsCut(m, t, a, q, b)
  <2>1. \E q \in a..b + 1 : IsCut(Match(SubSeq(t, a, b)), t, a, q, b)
    BY <1>2, MatchCuts
  <2> QED
    BY <1>10, <2>1
<1>13. m.rest = SubSeq(t, q, b)
  BY <1>12 DEF IsCut
<1>14. clear \in Results /\ clear.emissions = <<>> /\ clear.state = [s EXCEPT !.partial = <<>>]
  <2> HIDE DEF r
  <2> QED
    BY <1>3, <1>6, HoldingFacts
<1>15. Emitted(clear, t, a, a) /\ clear.state.accumulated = <<>> /\ clear.state.partial = <<>>
  <2> HIDE DEF clear
  <2>1. Emitted(clear, t, a, a)
    BY <1>6, <1>7, <1>14 DEF Emitted
  <2> QED
    BY <1>9, <1>14, <2>1 DEF States
<1> HIDE DEF r, text, m, clear, x
<1>16. /\ m.prefix \in Text /\ m.rest \in Text
       /\ Emitted(head, t, a, q) /\ head.state = s
       /\ Emitted(head2, t, a, q) /\ head2.state = clear.state
       /\ Emitted(Emit(clear, Emission("pass", m.prefix, 0)), t, a, q)
       /\ Emit(clear, Emission("pass", m.prefix, 0)).state = clear.state
  <2>1. /\ m.prefix \in Text /\ m.rest \in Text /\ Emitted(head, t, a, q) /\ head.state = s
    BY <1>2, <1>3, <1>6, <1>7, <1>12, PrefixEmitted
  <2>2. /\ Emitted(head2, t, a, q) /\ head2.state = clear.state
        /\ Emitted(Emit(clear, Emission("pass", m.prefix, 0)), t, a, q)
        /\ Emit(clear, Emission("pass", m.prefix, 0)).state = clear.state
    BY <1>2, <1>3, <1>12, <1>15, PrefixEmitted
  <2> QED
    BY <2>1, <2>2
<1> HIDE DEF head
<1>17. CASE m.kind = "complete"
  <2>1. x = TryComplete(begun)
    BY <1>1, <1>17
  <2>2. /\ begun \in Results /\ begun.emissions = head.emissions
        /\ begun.state = [s EXCEPT !.is_jailed = TRUE, !.accumulated = m.rest, !.partial = <<>>, !.searched = 0]
    <3>1. head \in Results
      BY <1>16 DEF Emitted
    <3> QED
      BY <1>16, <3>1, HoldingFacts
  <2> HIDE DEF begun
  <2>3. begun.state.is_jailed /\ begun.state.partial = <<>> /\ begun.state.searched = 0
        /\ begun.state.accumulated = m.rest
    BY <2>2 DEF States
  <2>4. Unsearched(begun.state)
    <3>1. Len(m.rest) \in Nat /\ 1 \in Nat \ {0}
      BY <1>16 DEF Text
    <3>2. \A i \in Places(m.rest, EndMarker, 1) : 0 < i + 1
      BY DEF Places
    <3> QED
      BY <2>3, <3>1, <3>2 DEF Unsearched
  <2>5. Emitted(begun, t, a, q)
    BY <1>16, <2>2 DEF Emitted
  <2>6. begun.state.accumulated = SubSeq(t, q, b)
    BY <1>13, <2>3
  <2>7. Kept(TryComplete(begun), t, a, b)
    BY <1>2, <2>4, <2>5, <2>6, JailIsKept
  <2> QED
    BY <2>1, <2>7
<1>18. CASE m.kind = "partial"
  <2>1. x = Hold(head, m.rest)
    BY <1>1, <1>18
  <2> QED
    BY <1>9, <1>13, <1>16, <2>1, RestIsKept
<1>19. CASE m.kind \notin {"complete", "partial"} /\ ShouldStartJail(text)
  <2>1. x = BeginJail(r, text)
    BY <1>1, <1>19
  <2> QED
    BY <1>2, <1>5, <1>7, <1>10, <2>1, RestIsKept
<1>20. CASE m.kind \notin {"complete", "partial"} /\ ~ ShouldStartJail(text)
  <2>1. m.kind = "none"
    BY <1>11, <1>20 DEF IsMatch
  <2>2. m.prefix = text /\ m.rest = <<>>
    BY <1>11, <2>1 DEF IsMatch
  <2>3. x = Emit(clear, Emission("pass", m.prefix, 0)) \/ x = head2
    BY <1>1, <1>20, <2>2
  <2> DEFINE y == Emit(clear, Emission("pass", m.prefix, 0))
  <2>4. y.state.accumulated = <<>> /\ y.state.partial = m.rest
        /\ head2.state.accumulated = <<>> /\ head2.state.partial = m.rest
    BY <1>15, <1>16, <2>2
  <2>5. Emitted(y, t, a, q) /\ Emitted(head2, t, a, q)
    BY <1>16
  <2> HIDE DEF y, head2
  <2>6. Kept(y, t, a, b) /\ Kept(head2, t, a, b)
    BY <1>13, <1>16, <2>4, <2>5, RestIsKept
  <2> QED
    BY <2>3, <2>6 DEF y
<1> QED
  BY <1>17, <1>18, <1>19, <1>20

\* The finish reason adds no text.
LEMMA NormalizeKeeps ==
  ASSUME NEW r \in Results, NEW why \in Reasons, NEW w, Writes(r.emissions, w)
  PROVE  Writes(Normalize(r, why).emissions, w) /\ Normalize(r, why).state = r.state
<1> DEFINE es == r.emissions
           n == Len(es)
           x == Normalize(r, why)
<1>1. es \in Seq(Emissions) /\ n \in Nat /\ r = [state |-> r.state, emissions |-> es]
  BY DEF Results
<1>2. CASE why = None \/ HasDeferredOutput(r.state)
  BY <1>2 DEF Normalize
<1>3. CASE ~ (why = None \/ HasDeferredOutput(r.state)) /\ n = 0
  <2> DEFINE bare == Emission("pass", <<>>, 0)
             e == [bare EXCEPT !.finish = why]
  <2>1. "pass" \in Kinds /\ <<>> \in Text /\ 0 \in Nat
    BY DEF Kinds, Text
  <2>2. bare \in Emissions /\ bare.text = <<>> /\ bare.calls = 0
    BY <2>1, BareEmission
  <2>3. e \in Emissions /\ e.text = <<>> /\ e.calls = 0
    <3> HIDE DEF bare
    <3> QED
      BY <2>2 DEF Emissions
  <2>4. x = Emit(r, e)
    BY <1>3 DEF Normalize
  <2> HIDE DEF e
  <2>5. x.state = r.state /\ x.emissions = Append(es, e)
    BY <2>3, <2>4, EmitFacts
  <2>6. SaidBy(e) = <<>>
    <3>1. CallTexts(0) = <<>> /\ <<>> \o <<>> = <<>>
      BY <2>1, CallTextsFacts, TextsAssociate
    <3> QED
      BY <2>3, <3>1 DEF SaidBy
  <2>7. w \in Text /\ Writes(Append(es, e), w \o SaidBy(e))
    BY <1>1, <2>3, WritesMore
  <2>8. w \o SaidBy(e) = w
    BY <2>6, <2>7, TextsAssociate
  <2> QED
    BY <2>5, <2>7, <2>8
<1>4. CASE ~ (why = None \/ HasDeferredOutput(r.state)) /\ n # 0
  <2> DEFINE last == [es[n] EXCEPT !.finish = why]
             fs == [es EXCEPT ![n] = last]
  <2>1. x = [r EXCEPT !.emissions = fs]
    BY <1>4 DEF Normalize
  <2>2. n \in 1..n /\ es[n] \in Emissions
    BY <1>1, <1>4
  <2>3. last \in Emissions /\ last.text = es[n].text /\ last.calls = es[n].calls
    BY <2>2 DEF Emissions
  <2> HIDE DEF last
  <2>4. fs \in Seq(Emissions) /\ Len(fs) = n /\ \A i \in 1..n : fs[i] = IF i = n THEN last ELSE es[i]
    BY <1>1, <2>2, <2>3, ExceptSeq
  <2> HIDE DEF fs
  <2>5. x.emissions = fs /\ x.state = r.state
    BY <1>1, <2>1
  <2>6. \A i \in 1..n : fs[i].text = es[i].text /\ fs[i].calls = es[i].calls
    BY <2>3, <2>4
  <2>7. Writes(fs, w)
    BY <2>4, <2>6, WritesSame, SMTT(30)
  <2> QED
    BY <2>5, <2>7
<1> QED
  BY <1>2, <1>3, <1>4

\* Nor does the reasoning.
LEMMA AttachKeeps ==
  ASSUME NEW r \in Results, NEW w, Writes(r.emissions, w)
  PROVE  LET x == AttachReasoning(r)
         IN  /\ Writes(x.emissions, w)
             /\ x.state.accumulated = r.state.accumulated /\ x.state.partial = r.state.partial
<1> DEFINE es == r.emissions
           n == Len(es)
           s == r.state
           x == AttachReasoning(r)
<1>1. es \in Seq(Emissions) /\ n \in Nat /\ s \in States /\ r = [state |-> s, emissions |-> es]
  BY DEF Results
<1>2. CASE es = <<>>
  BY <1>2 DEF AttachReasoning
<1>3. CASE es # <<>>
  <2> DEFINE first == [es[1] EXCEPT !.reasoning = s.reasoning]
             fs == [es EXCEPT ![1] = first]
             t == [s EXCEPT !.reasoning = 0]
  <2>1. x = [state |-> t, emissions |-> fs]
    BY <1>1, <1>3 DEF AttachReasoning
  <2>2. 1 \in 1..n /\ es[1] \in Emissions /\ s.reasoning \in Nat
    BY <1>1, <1>3 DEF States
  <2>3. first \in Emissions /\ first.text = es[1].text /\ first.calls = es[1].calls
    BY <2>2 DEF Emissions
  <2>4. t.accumulated = s.accumulated /\ t.partial = s.partial
    BY <1>1 DEF States
  <2> HIDE DEF first, t
  <2>5. fs \in Seq(Emissions) /\ Len(fs) = n /\ \A i \in 1..n : fs[i] = IF i = 1 THEN first ELSE es[i]
    BY <1>1, <2>2, <2>3, ExceptSeq
  <2> HIDE DEF fs
  <2>6. \A i \in 1..n : fs[i].text = es[i].text /\ fs[i].calls = es[i].calls
    BY <2>3, <2>5
  <2>7. Writes(fs, w)
    BY <2>5, <2>6, WritesSame
  <2>8. x.emissions = fs /\ x.state = t
    BY <2>1
  <2> QED
    BY <2>4, <2>7, <2>8
<1> QED
  BY <1>2, <1>3

\* The whole handler of a chunk with content loses nothing.
LEMMA ChunkIsKept ==
  ASSUME NEW t \in Text, WellFormed(t), NEW a \in 1..Len(t) + 1, NEW n \in a - 1..Len(t), NEW b \in n..Len(t),
         Clean(t, a), NEW s \in States, Settled(s), s.accumulated \o s.partial = SubSeq(t, a, n)
  PROVE  Kept(AttachReasoning(Normalize(ProcessContent(s, SubSeq(t, n + 1, b)), s.finish)), t, a, b)
<1> DEFINE content == SubSeq(t, n + 1, b)
           r == ProcessContent(s, content)
           q == Normalize(r, s.finish)
           x == AttachReasoning(q)
<1>1. Kept(r, t, a, b)
  BY ContentIsKept
<1>2. content \in Text
  <2>1. Len(t) \in Nat
    BY DEF Text
  <2>2. n + 1 \in 1..Len(t) + 1 /\ b \in (n + 1) - 1..Len(t)
    BY <2>1
  <2> QED
    BY <2>2, SliceLetters
<1> HIDE DEF content
<1>3. IsOutcome(r, s)
  BY <1>2, ProcessContentFacts
<1> HIDE DEF r
<1>4. r \in Results /\ Bare(r.emissions) /\ InOrder(r.emissions) /\ s.finish \in Reasons
  BY <1>3 DEF IsOutcome, States
<1>5. q \in Results
  BY <1>4, NormalizeFacts
<1>6. PICK p \in a..b + 1 :
        /\ Writes(r.emissions, SubSeq(t, a, p - 1)) /\ Clean(t, p)
        /\ r.state.accumulated \o r.state.partial = SubSeq(t, p, b)
  BY <1>1 DEF Kept
<1>7. Writes(q.emissions, SubSeq(t, a, p - 1)) /\ q.state = r.state
  BY <1>4, <1>6, NormalizeKeeps
<1> HIDE DEF q
<1>8. /\ Writes(x.emissions, SubSeq(t, a, p - 1))
      /\ x.state.accumulated = q.state.accumulated /\ x.state.partial = q.state.partial
  BY <1>5, <1>7, AttachKeeps
<1> HIDE DEF x
<1>9. Kept(x, t, a, b)
  BY <1>6, <1>7, <1>8 DEF Kept
<1> QED
  BY <1>9 DEF x, q, r, content

-----------------------------------------------------------------------------
(* Nothing is lost: the inductive invariant and its theorem.               *)

\* The client has the text t up to some place, and the choice holds the rest of
\* the n letters that were streamed; no call lies across that place.
Held(t, o, s, n) ==
    \E a \in 1..n + 1 :
        /\ Flat(o) = SubSeq(t, 1, a - 1) /\ s.accumulated \o s.partial = SubSeq(t, a, n)
        /\ Clean(t, a)

\* The inductive invariant, together with JailInv.
LostInv == phase # "ended" => \A c \in Indices : Held(input[c], out[c], state[c], pos[c])

\* What is sent of a slice that is kept follows what the client had.
LEMMA HeldNext ==
  ASSUME NEW t \in Text, NEW a \in 1..Len(t) + 1, NEW b \in a - 1..Len(t), NEW o \in Seq(Outputs),
         Flat(o) = SubSeq(t, 1, a - 1), NEW r, Kept(r, t, a, b),
         r.emissions \in Seq(Emissions), InOrder(r.emissions)
  PROVE  Held(t, YieldAll(o, r.emissions), r.state, b)
<1>1. PICK p \in a..b + 1 :
        /\ Writes(r.emissions, SubSeq(t, a, p - 1)) /\ Clean(t, p)
        /\ r.state.accumulated \o r.state.partial = SubSeq(t, p, b)
  BY DEF Kept
<1>2. Flat(YieldAll(o, r.emissions)) = Flat(o) \o SubSeq(t, a, p - 1)
  BY <1>1, YieldWrites
<1>3. Len(t) \in Nat
  BY DEF Text
<1>4. SubSeq(t, 1, a - 1) \o SubSeq(t, a, p - 1) = SubSeq(t, 1, p - 1)
  <2>1. 1 \in 1..Len(t) + 1 /\ a \in 1..Len(t) + 1 /\ p - 1 \in a - 1..Len(t)
    BY <1>3
  <2> QED
    BY <2>1, SlicesMeet
<1>5. p \in 1..b + 1
  BY <1>3
<1>6. Flat(YieldAll(o, r.emissions)) = SubSeq(t, 1, p - 1)
  BY <1>2, <1>4
<1> QED
  BY <1>1, <1>5, <1>6 DEF Held

\* Texts are well formed, and what was streamed is a part of them.
LEMMA HeldTypes ==
  ASSUME JailTypes, NEW c \in Indices
  PROVE  /\ input[c] \in Text /\ WellFormed(input[c]) /\ Len(input[c]) \in Nat
         /\ pos[c] \in Nat /\ pos[c] <= Len(input[c])
<1>1. input \in Inputs /\ pos[c] \in Nat /\ pos[c] <= Len(input[c])
  BY DEF JailTypes
<1>2. input[c] \in Text /\ Len(input[c]) \in Nat
  BY <1>1, InputTypes DEF Text
<1>3. WellFormed(input[c])
  BY <1>1, CallsAreValid
<1> QED
  BY <1>1, <1>2, <1>3

\* Nothing is held and nothing sent of an input that was not streamed.
LEMMA NothingHeld ==
  ASSUME Init
  PROVE  LostInv
<1> SUFFICES ASSUME NEW c \in Indices PROVE Held(input[c], out[c], state[c], pos[c])
  BY DEF LostInv
<1> DEFINE t == input[c]
<1>1. t \in Text
  BY InputTypes DEF Init, Text
<1> HIDE DEF t
<1>2. out[c] = <<>> /\ pos[c] = 0 /\ state[c].accumulated = <<>> /\ state[c].partial = <<>>
  BY DEF Init, InitialState
<1>3. Flat(<<>>) = <<>> /\ <<>> \o <<>> = <<>>
  <2>1. <<>> \in Text
    BY DEF Text
  <2> QED
    BY <2>1, FlatText, TextsAssociate
<1>4. SubSeq(t, 1, 0) = <<>>
  BY <1>1 DEF Text
<1>5. Clean(t, 1)
  <2>1. Len(t) \in Nat
    BY <1>1 DEF Text
  <2>2. ASSUME NEW q \in Int, IsCall(t, q) PROVE 1 <= q
    <3>1. q \in 1..Len(t) - 6
      BY <2>2 DEF IsCall
    <3> QED
      BY <2>1, <3>1
  <2> QED
    BY <2>2 DEF Clean
<1>6. Held(t, <<>>, state[c], 0)
  <2>1. 1 \in 1..0 + 1 /\ 1 - 1 = 0
    OBVIOUS
  <2> QED
    BY <1>2, <1>3, <1>4, <1>5, <2>1 DEF Held
<1> QED
  BY <1>2, <1>6 DEF t

\* A chunk with content.
LEMMA ContentHolds ==
  ASSUME JailInv, LostInv, NEW c \in Indices, Content(c)
  PROVE  LostInv'
<1>1. PICK n \in 0..Len(input[c]), why \in EngineReasons \union {None}, reasons \in BOOLEAN :
        /\ Send(c, n, why, reasons)
        /\ LET s == [state[c] EXCEPT !.finish = why, !.reasoning = @ + (IF reasons THEN 1 ELSE 0)]
               text == SubSeq(input[c], pos[c] + 1, pos[c] + n)
           IN  Yield(c, AttachReasoning(Normalize(ProcessContent(s, text), why)))
  BY DEF Content
<1> DEFINE more == IF reasons THEN 1 ELSE 0
           s == [state[c] EXCEPT !.finish = why, !.reasoning = @ + more]
           t == input[c]
           m == pos[c]
           b == m + n
           o == out[c]
           r == AttachReasoning(Normalize(ProcessContent(s, SubSeq(t, m + 1, b)), why))
<1>2. JailTypes /\ phase = "streaming" /\ Streaming(c)
  BY <1>1 DEF JailInv, Send
<1>3. t \in Text /\ WellFormed(t) /\ Len(t) \in Nat /\ m \in Nat
  BY <1>2, HeldTypes
<1>4. state[c] \in States /\ Settled(state[c]) /\ o \in Seq(Outputs)
  BY <1>2 DEF Streaming, Live
<1>5. why \in Reasons /\ more \in Nat /\ state[c].reasoning \in Nat
  BY <1>4 DEF Reasons, States
<1>6. s \in States /\ s.finish = why
      /\ s.is_jailed = state[c].is_jailed /\ s.accumulated = state[c].accumulated
      /\ s.partial = state[c].partial /\ s.searched = state[c].searched
  <2> HIDE DEF more
  <2>1. state[c].reasoning + more \in Nat
    BY <1>5
  <2> QED
    BY <1>4, <1>5, <2>1 DEF States
<1>7. /\ input' = input /\ pos' = [pos EXCEPT ![c] = b] /\ b <= Len(t)
      /\ state' = [state EXCEPT ![c] = r.state]
      /\ out' = [out EXCEPT ![c] = YieldAll(o, r.emissions)]
  BY <1>1 DEF Send, Yield
<1>8. \A d \in Indices : Held(input[d], out[d], state[d], pos[d])
  BY <1>2 DEF LostInv
<1> HIDE DEF s
<1>9. Settled(s)
  BY <1>4, <1>6 DEF Settled
<1>10. PICK a \in 1..m + 1 :
        /\ Flat(o) = SubSeq(t, 1, a - 1) /\ state[c].accumulated \o state[c].partial = SubSeq(t, a, m)
        /\ Clean(t, a)
  <2>1. Held(t, o, state[c], m)
    BY <1>8
  <2> QED
    BY <2>1 DEF Held
<1> DEFINE content == SubSeq(t, m + 1, b)
<1> HIDE DEF t, m, o
<1>11. /\ a \in 1..Len(t) + 1 /\ m \in a - 1..Len(t) /\ b \in m..Len(t) /\ b \in a - 1..Len(t)
       /\ m + 1 \in 1..Len(t) + 1 /\ b \in (m + 1) - 1..Len(t)
  BY <1>1, <1>3, <1>7 DEF t
<1> HIDE DEF b
<1>12. content \in Text
  BY <1>3, <1>11, SliceLetters
<1>13. s.accumulated \o s.partial = SubSeq(t, a, m)
  BY <1>6, <1>10
<1>14. Kept(r, t, a, b)
  <2>1. Kept(AttachReasoning(Normalize(ProcessContent(s, SubSeq(t, m + 1, b)), s.finish)), t, a, b)
    BY <1>3, <1>6, <1>9, <1>10, <1>11, <1>13, ChunkIsKept
  <2> QED
    BY <1>6, <2>1
<1>15. r.emissions \in Seq(Emissions) /\ InOrder(r.emissions)
  <2>1. IsChunk(AttachReasoning(Normalize(ProcessContent(s, content), s.finish)), s.finish, s.reasoning)
    BY <1>6, <1>9, <1>12, ContentChunk
  <2> QED
    BY <1>6, <2>1 DEF IsChunk, Shaped
<1> HIDE DEF r
<1>16. Held(t, YieldAll(o, r.emissions), r.state, b)
  BY <1>3, <1>4, <1>10, <1>11, <1>14, <1>15, HeldNext
<1>17. ASSUME NEW d \in Indices PROVE Held(input'[d], out'[d], state'[d], pos'[d])
  <2>1. CASE d = c
    <3>1. input'[c] = t /\ out'[c] = YieldAll(o, r.emissions) /\ state'[c] = r.state /\ pos'[c] = b
      BY <1>2, <1>7 DEF JailTypes, t
    <3> QED
      BY <1>16, <2>1, <3>1
  <2>2. CASE d # c
    <3>1. input'[d] = input[d] /\ out'[d] = out[d] /\ state'[d] = state[d] /\ pos'[d] = pos[d]
      BY <1>2, <1>7, <2>2 DEF JailTypes
    <3> QED
      BY <1>8, <3>1
  <2> QED
    BY <2>1, <2>2
<1> QED
  BY <1>17 DEF LostInv

\* An emission with only reasoning or a finish reason has no text.
LEMMA BlankWrites ==
  ASSUME NEW more \in Nat, NEW why \in Reasons
  PROVE  LET es == <<[Emission("pass", <<>>, 0) EXCEPT !.reasoning = more, !.finish = why]>>
         IN  es \in Seq(Emissions) /\ InOrder(es) /\ Writes(es, <<>>)
<1> DEFINE bare == Emission("pass", <<>>, 0)
           e == [bare EXCEPT !.reasoning = more, !.finish = why]
           none == <<>>
           es == Append(none, e)
<1>1. "pass" \in Kinds /\ none \in Text /\ 0 \in Nat /\ none \in Seq(Emissions)
  BY DEF Kinds, Text
<1>2. bare \in Emissions /\ bare.text = none /\ bare.calls = 0 /\ bare.kind = "pass"
  BY <1>1, BareEmission
<1> HIDE DEF bare
<1>3. e \in Emissions /\ e.text = none /\ e.calls = 0 /\ e.kind = "pass"
  BY <1>2 DEF Emissions
<1>4. <<e>> = es /\ es \in Seq(Emissions) /\ Len(es) = 1 /\ es[1] = e
  BY <1>3
<1> HIDE DEF e
<1>5. InOrder(es)
  <2> HIDE DEF es
  <2>1. AllPass(es)
    BY <1>3, <1>4 DEF AllPass
  <2> QED
    BY <1>3, <1>4, <2>1, AppendOrder
<1>6. SaidBy(e) = none
  <2>1. CallTexts(0) = none /\ none \o none = none
    BY <1>1, CallTextsFacts, TextsAssociate
  <2> QED
    BY <1>3, <2>1 DEF SaidBy
<1>7. Writes(none, none)
  BY WritesNothing
<1>8. Writes(es, none \o SaidBy(e))
  BY <1>1, <1>3, <1>7, WritesMore
<1>9. none \o SaidBy(e) = none
  BY <1>1, <1>6, TextsAssociate
<1> QED
  BY <1>4, <1>5, <1>8, <1>9 DEF e, bare

\* A chunk without content.
LEMMA ContentlessHolds ==
  ASSUME JailInv, LostInv, NEW c \in Indices, Contentless(c)
  PROVE  LostInv'
<1>1. PICK why \in EngineReasons \union {None}, reasons \in BOOLEAN :
        /\ Send(c, 0, why, reasons)
        /\ LET s == [state[c] EXCEPT !.finish = IF why = None THEN @ ELSE why]
               pass == [Emission("pass", <<>>, 0) EXCEPT
                           !.reasoning = s.reasoning + (IF reasons THEN 1 ELSE 0),
                           !.finish = IF HasDeferredOutput(s) THEN None ELSE why]
           IN  Yield(c, IF reasons \/ ~ HasDeferredOutput(s)
                        THEN [state |-> [s EXCEPT !.reasoning = 0], emissions |-> <<pass>>]
                        ELSE [state |-> s, emissions |-> <<>>])
  BY DEF Contentless
<1> DEFINE more == IF reasons THEN 1 ELSE 0
           s == [state[c] EXCEPT !.finish = IF why = None THEN @ ELSE why]
           total == s.reasoning + more
           last == IF HasDeferredOutput(s) THEN None ELSE why
           es == <<[Emission("pass", <<>>, 0) EXCEPT !.reasoning = total, !.finish = last]>>
           z == [s EXCEPT !.reasoning = 0]
           full == [state |-> z, emissions |-> es]
           none == [state |-> s, emissions |-> <<>>]
           r == IF reasons \/ ~ HasDeferredOutput(s) THEN full ELSE none
           t == input[c]
           m == pos[c]
           o == out[c]
<1>2. JailTypes /\ phase = "streaming" /\ Streaming(c)
  BY <1>1 DEF JailInv, Send
<1>3. t \in Text /\ Len(t) \in Nat /\ m \in Nat /\ m <= Len(t)
  BY <1>2, HeldTypes
<1>4. state[c] \in States /\ o \in Seq(Outputs)
  BY <1>2 DEF Streaming, Live
<1>5. why \in Reasons /\ last \in Reasons /\ more \in Nat /\ state[c].reasoning \in Nat
  BY <1>4 DEF Reasons, States
<1>6. s \in States /\ s.reasoning \in Nat
      /\ s.accumulated = state[c].accumulated /\ s.partial = state[c].partial
  BY <1>4, <1>5 DEF States
<1>7. z.accumulated = s.accumulated /\ z.partial = s.partial
  <2> HIDE DEF s
  <2> QED
    BY <1>6 DEF States
<1>8. /\ input' = input /\ pos' = [pos EXCEPT ![c] = m + 0]
      /\ state' = [state EXCEPT ![c] = r.state]
      /\ out' = [out EXCEPT ![c] = YieldAll(o, r.emissions)]
  BY <1>1 DEF Send, Yield
<1>9. \A d \in Indices : Held(input[d], out[d], state[d], pos[d])
  BY <1>2 DEF LostInv
<1>10. PICK a \in 1..m + 1 :
        /\ Flat(o) = SubSeq(t, 1, a - 1) /\ state[c].accumulated \o state[c].partial = SubSeq(t, a, m)
        /\ Clean(t, a)
  <2>1. Held(t, o, state[c], m)
    BY <1>9
  <2> QED
    BY <2>1 DEF Held
<1> HIDE DEF s, t, m, o, last, more
<1>11. a \in 1..Len(t) + 1 /\ m \in a - 1..Len(t) /\ m + 0 = m /\ total \in Nat
  BY <1>3, <1>5, <1>6
<1> HIDE DEF total
<1>12. es \in Seq(Emissions) /\ InOrder(es) /\ Writes(es, <<>>)
  BY <1>5, <1>11, BlankWrites
<1>13. <<>> \in Seq(Emissions) /\ InOrder(<<>>) /\ Writes(<<>>, <<>>)
  <2>1. <<>> \in Seq(Emissions)
    OBVIOUS
  <2>2. InOrder(<<>>)
    <3>1. 0 \in 0..Len(<<>>) /\ 0 \in 0..Len(<<>>) /\ \A i \in 1..Len(<<>>) : FALSE
      OBVIOUS
    <3> QED
      BY <3>1 DEF InOrder
  <2> QED
    BY <2>1, <2>2, WritesNothing
<1> HIDE DEF es, z
<1>14. /\ r.emissions \in Seq(Emissions) /\ InOrder(r.emissions) /\ Writes(r.emissions, <<>>)
       /\ r.state.accumulated \o r.state.partial = SubSeq(t, a, m)
  <2>1. CASE r = full
    <3>1. r.emissions = es /\ r.state = z
      BY <2>1
    <3> QED
      BY <1>6, <1>7, <1>10, <1>12, <3>1
  <2>2. CASE r = none
    <3>1. r.emissions = <<>> /\ r.state = s
      BY <2>2
    <3> QED
      BY <1>6, <1>10, <1>13, <3>1
  <2>3. r = full \/ r = none
    OBVIOUS
  <2> QED
    BY <2>1, <2>2, <2>3
<1> HIDE DEF r
<1>15. Kept(r, t, a, m)
  <2>1. a \in a..m + 1
    BY <1>3, <1>10
  <2>2. SubSeq(t, a, a - 1) = <<>>
    BY <1>3, <1>11 DEF Text
  <2> QED
    BY <1>10, <1>14, <2>1, <2>2 DEF Kept
<1>16. Held(t, YieldAll(o, r.emissions), r.state, m)
  BY <1>3, <1>4, <1>10, <1>11, <1>14, <1>15, HeldNext
<1>17. ASSUME NEW d \in Indices PROVE Held(input'[d], out'[d], state'[d], pos'[d])
  <2>1. CASE d = c
    <3>1. input'[c] = t /\ out'[c] = YieldAll(o, r.emissions) /\ state'[c] = r.state /\ pos'[c] = m
      BY <1>2, <1>8, <1>11 DEF JailTypes, t
    <3> QED
      BY <1>16, <2>1, <3>1
  <2>2. CASE d # c
    <3>1. input'[d] = input[d] /\ out'[d] = out[d] /\ state'[d] = state[d] /\ pos'[d] = pos[d]
      BY <1>2, <1>8, <2>2 DEF JailTypes
    <3> QED
      BY <1>9, <3>1
  <2> QED
    BY <2>1, <2>2
<1> QED
  BY <1>17 DEF LostInv

\* The usage-only chunk, which adds at most a finish reason.
LEMMA UsageHolds ==
  ASSUME JailInv, LostInv, Usage
  PROVE  LostInv'
<1> DEFINE made == Unterminated(out, terminated)
           why == "tool_calls"
<1>1. JailTypes /\ phase = "streaming" /\ \A c \in Indices : Held(input[c], out[c], state[c], pos[c])
  BY DEF JailInv, LostInv, Usage
<1>2. /\ out' = [c \in Indices |-> IF c \in made THEN Append(out[c], why) ELSE out[c]]
      /\ input' = input /\ pos' = pos /\ state' = state
  BY DEF Usage, Synthesize, engine
<1> HIDE DEF made
<1>3. why \in Outputs /\ Word(why) = <<>>
  BY DEF Outputs, FinishReasons, Word, Letters
<1> HIDE DEF why
<1>4. ASSUME NEW c \in Indices PROVE Held(input'[c], out'[c], state'[c], pos'[c])
  <2>1. out[c] \in Seq(Outputs)
    BY <1>1 DEF JailTypes
  <2>2. Flat(Append(out[c], why)) = Flat(out[c])
    <3> DEFINE l == <<why>>
               o == out[c]
    <3>1. l \in Seq(Outputs) /\ Append(o, why) = o \o l
      BY <1>3, <2>1, AppendIsConcat
    <3>2. Flat(l) = <<>>
      BY <1>3, FlatOne
    <3> HIDE DEF l, o
    <3>3. o \in Seq(Outputs)
      BY <2>1 DEF o
    <3>4. Flat(o \o l) = Flat(o) \o Flat(l) /\ Flat(o) \in Text
      BY <3>1, <3>3, FlatConcat, FlatType
    <3>5. Flat(Append(o, why)) = Flat(o)
      BY <3>1, <3>2, <3>4, TextsAssociate
    <3> QED
      BY <3>5 DEF o
  <2>3. Flat(out'[c]) = Flat(out[c])
    BY <1>2, <2>2
  <2> QED
    BY <1>1, <1>2, <2>3 DEF Held
<1> QED
  BY <1>4 DEF LostInv

\* The invariant holds of every behaviour.
LEMMA LostInvariant == Spec => []LostInv
<1>1. Init => LostInv
  BY NothingHeld
<1>2. JailInv /\ LostInv /\ [Next]_vars => LostInv'
  <2> SUFFICES ASSUME JailInv, LostInv, [Next]_vars PROVE LostInv'
    OBVIOUS
  <2>1. ASSUME NEW c \in Indices, Content(c) PROVE LostInv'
    BY <2>1, ContentHolds
  <2>2. ASSUME NEW c \in Indices, Contentless(c) PROVE LostInv'
    BY <2>2, ContentlessHolds
  <2>3. CASE Usage
    BY <2>3, UsageHolds
  <2>4. CASE EndOfStream
    BY <2>4 DEF EndOfStream, LostInv
  <2>5. CASE UNCHANGED vars
    BY <2>5 DEF vars, engine, LostInv
  <2> QED
    BY <2>1, <2>2, <2>3, <2>4, <2>5 DEF Next
<1> QED
  BY <1>1, <1>2, JailInvariant, PTL DEF Spec

\* Until the stream ends, what a choice has sent, each call as the engine wrote
\* it, and what it holds make up what the engine streamed, in order, wherever the
\* chunks cut its markers and calls (process_content, emit_completed_jail and
\* handle_trailing_content of the jail).
THEOREM NothingLost == Spec => []NothingIsLost
<1>1. JailInv /\ LostInv => NothingIsLost
  <2> SUFFICES ASSUME JailInv, LostInv, phase # "ended", NEW c \in Indices
               PROVE  Written(c) \o state[c].accumulated \o state[c].partial = Streamed(c)
    BY DEF NothingIsLost
  <2> DEFINE t == input[c]
             m == pos[c]
             o == out[c]
             x == state[c].accumulated
             y == state[c].partial
  <2>1. JailTypes /\ Held(t, o, state[c], m)
    BY DEF JailInv, LostInv
  <2>2. t \in Text /\ Len(t) \in Nat /\ m \in Nat /\ m <= Len(t)
    BY <2>1, HeldTypes
  <2>3. o \in Seq(Outputs) /\ x \in Text /\ y \in Text
    BY <2>1 DEF JailTypes, States
  <2>4. Written(c) = Flat(o)
    BY DEF Written, Flat, Word
  <2>5. Streamed(c) = SubSeq(t, 1, m)
    BY DEF Streamed
  <2>6. PICK a \in 1..m + 1 : Flat(o) = SubSeq(t, 1, a - 1) /\ x \o y = SubSeq(t, a, m)
    BY <2>1 DEF Held
  <2> HIDE DEF t, m, o, x, y
  <2>7. SubSeq(t, 1, a - 1) \o SubSeq(t, a, m) = SubSeq(t, 1, m)
    <3>1. 1 \in 1..Len(t) + 1 /\ a \in 1..Len(t) + 1 /\ m \in a - 1..Len(t)
      BY <2>2, <2>6
    <3> QED
      BY <2>2, <3>1, SlicesMeet
  <2>8. (Flat(o) \o x) \o y = Flat(o) \o (x \o y)
    BY <2>3, FlatType, TextsAssociate
  <2>9. (Flat(o) \o x) \o y = SubSeq(t, 1, m)
    BY <2>6, <2>7, <2>8
  <2> QED
    BY <2>4, <2>5, <2>9 DEF x, y
<1> QED
  BY <1>1, JailInvariant, LostInvariant, PTL
=============================================================================
