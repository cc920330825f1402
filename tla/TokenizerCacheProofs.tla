----------------------- MODULE TokenizerCacheProofs -----------------------
(***************************************************************************)
(* The cache never changes a result, and what a growing conversation gains *)
(* from it: what holds of TokenizerCache for any number of threads and     *)
(* wrappers, any texts and any order of evictions.                         *)
(***************************************************************************)
EXTENDS TokenizerCache, SpecialTokensProofs

-----------------------------------------------------------------------------
(* Facts about cuts and keys.                                              *)

LEMMA EncodeTypes ==
  ASSUME NEW w \in Wrappers, NEW x \in Seq(Chars)
  PROVE  EncodeText(w, x) \in TokenIds
<1>1. Specials[w] \in SUBSET Seq(Chars) /\ <<>> \notin Specials[w] /\ Select \in Selections
  BY CacheConstants
<1>2. Encode(Select, Specials[w], x) \in Seq(Tokens(Chars))
  BY <1>1, EncodeType
<1> QED
  BY <1>2 DEF EncodeText, TokenIds, Tokens

LEMMA SegmentTypes ==
  ASSUME NEW w \in Wrappers, NEW seg \in Segments
  PROVE  EncodeSegment(w, seg) \in TokenIds
<1> DEFINE toks == IF seg.special THEN Specials[w] ELSE {}
<1>1. toks \in SUBSET Seq(Chars) /\ <<>> \notin toks /\ Select \in Selections /\ seg.text \in Seq(Chars)
  BY CacheConstants
<1> HIDE DEF toks
<1>2. Encode(Select, toks, seg.text) \in Seq(Tokens(Chars))
  BY <1>1, EncodeType
<1> QED
  BY <1>2 DEF EncodeSegment, TokenIds, Tokens, toks

LEMMA PieceTypes ==
  ASSUME NEW w \in Wrappers, NEW text \in Texts, NEW a \in 0..Len(text), NEW b \in 0..Len(text)
  PROVE  EncodeText(w, Cut(text, a, b)) \in TokenIds
<1>1. text \in Seq(Chars)
  BY CacheConstants
<1>2. Cut(text, a, b) \in Seq(Chars)
  BY <1>1 DEF Cut
<1> QED
  BY <1>2, EncodeTypes

LEMMA CutsSafe ==
  ASSUME NEW w \in Wrappers, Enabled(w), NEW text \in Texts
  PROVE  CutsAreSafe(Select, Specials[w], text)
<1>1. /\ Specials[w] \in SUBSET Seq(Chars) /\ <<>> \notin Specials[w] /\ ~ UnsafeOverlap(Specials[w])
      /\ text \in Seq(Chars) /\ Select \in Selections
  BY CacheConstants DEF Enabled
<1> QED
  BY <1>1, AcceptedCutsAreSafe

LEMMA BoundaryRange ==
  ASSUME NEW w \in Wrappers, NEW text \in Texts, NEW b \in BoundariesOf(w, text)
  PROVE  b \in 1..Len(text) - 1 /\ Len(text) \in Nat /\ text \in Seq(Chars)
BY CacheConstants DEF BoundariesOf, Boundaries

LEMMA WholeText ==
  ASSUME NEW text \in Texts
  PROVE  Cut(text, 0, Len(text)) = text
<1>1. text \in Seq(Chars)
  BY CacheConstants
<1> QED
  BY <1>1, WholeCut

\* The tokens of two adjacent pieces are the tokens of both.
LEMMA Joins ==
  ASSUME NEW w \in Wrappers, Enabled(w), NEW text \in Texts,
         NEW a \in BoundariesOf(w, text), NEW b \in BoundariesOf(w, text) \union {Len(text)}, a < b
  PROVE  EncodeText(w, Cut(text, 0, a)) \o EncodeText(w, Cut(text, a, b)) = EncodeText(w, Cut(text, 0, b))
BY CutsSafe DEF CutsAreSafe, EncodeText, BoundariesOf

\* Nothing yet, and then the first piece.
LEMMA JoinsFirst ==
  ASSUME NEW w \in Wrappers, NEW text \in Texts, NEW b \in 0..Len(text)
  PROVE  <<>> \o EncodeText(w, Cut(text, 0, b)) = EncodeText(w, Cut(text, 0, b))
<1>1. EncodeText(w, Cut(text, 0, b)) \in Seq(BOOLEAN \X Seq(Chars))
  <2>1. 0 \in 0..Len(text)
    OBVIOUS
  <2> QED
    BY <2>1, PieceTypes DEF TokenIds
<1> QED
  BY <1>1

\* A boundary lies behind a special token, so its entry is never empty.
LEMMA PrefixNotEmpty ==
  ASSUME NEW w \in Wrappers, NEW text \in Texts, NEW b \in BoundariesOf(w, text)
  PROVE  EncodeText(w, Cut(text, 0, b)) # <<>>
<1>1. b \in 1..Len(text) - 1 /\ text \in Seq(Chars) /\ b \in 0..Len(text) /\ b > 0
  BY BoundaryRange
<1> DEFINE x == Cut(text, 0, b)
<1>2. x \in Seq(Chars) /\ Len(x) > 0
  BY <1>1, PrefixFacts
<1>3. Specials[w] \in SUBSET Seq(Chars) /\ <<>> \notin Specials[w] /\ Select \in Selections
  BY CacheConstants
<1> HIDE DEF x
<1>4. Encode(Select, Specials[w], x) # <<>>
  BY <1>2, <1>3, EncodeNotEmpty
<1> QED
  BY <1>4 DEF EncodeText, x

LEMMA SegmentBytes ==
  ASSUME NEW seg \in Segments
  PROVE  LET bytes == <<Tag, seg.special>> \o seg.text
         IN  /\ Len(bytes) = Len(seg.text) + 2 /\ bytes[1] = Tag /\ bytes[2] = seg.special
             /\ \A i \in 1..Len(seg.text) : bytes[i + 2] = seg.text[i]
<1>1. seg.text \in Seq(Chars)
  BY CacheConstants
<1> QED
  BY <1>1

\* The tag keeps the two key spaces apart.
LEMMA KeySpacesDisjoint ==
  ASSUME NEW w \in Wrappers, NEW text \in Texts, NEW b \in BoundariesOf(w, text),
         NEW v \in Wrappers, NEW seg \in Segments
  PROVE  PrefixKey(w, Cut(text, 0, b)) # SegmentKey(v, seg)
<1>1. Cut(text, 0, b)[1] \in Chars
  BY BoundaryRange DEF Cut
<1>2. (<<Tag, seg.special>> \o seg.text)[1] = Tag
  BY SegmentBytes
<1> QED
  BY <1>1, <1>2, CacheConstants DEF PrefixKey, SegmentKey

\* Within its space a key names one text, or one segment, of one tokenizer.
LEMMA SegmentKeysExact ==
  ASSUME NEW w \in Wrappers, NEW v \in Wrappers, NEW s \in Segments, NEW u \in Segments,
         SegmentKey(w, s) = SegmentKey(v, u)
  PROVE  EncodeSegment(w, s) = EncodeSegment(v, u)
<1>1. Namespace[w] = Namespace[v] /\ <<Tag, s.special>> \o s.text = <<Tag, u.special>> \o u.text
  BY DEF SegmentKey
<1>2. s.text \in Seq(Chars) /\ u.text \in Seq(Chars)
  BY CacheConstants
<1>3. s.special = u.special /\ Len(s.text) = Len(u.text)
  BY <1>1, <1>2, SegmentBytes
<1>4. \A i \in 1..Len(s.text) : s.text[i] = u.text[i]
  BY <1>1, <1>2, <1>3, SegmentBytes
<1>5. s.text = u.text
  BY <1>2, <1>3, <1>4
<1> QED
  BY <1>1, <1>3, <1>5, CacheConstants DEF EncodeSegment

LEMMA PrefixKeysExact ==
  ASSUME NEW w \in Wrappers, NEW v \in Wrappers, NEW x, NEW y, PrefixKey(w, x) = PrefixKey(v, y)
  PROVE  EncodeText(w, x) = EncodeText(v, y) /\ (Enabled(w) <=> Enabled(v))
BY CacheConstants DEF PrefixKey, EncodeText, Enabled

-----------------------------------------------------------------------------
(* The inductive invariant.                                                *)

Types ==
    /\ pc \in [Threads -> Labels]
    /\ wrapper \in [Threads -> Wrappers]
    /\ input \in [Threads -> Inputs]
    /\ at \in [Threads -> Nat]
    /\ DOMAIN todo = Threads
    /\ DOMAIN tokens = Threads
    /\ DOMAIN cached = Threads

\* Thread t has the tokens of the text up to `at`, exactly.
TextInv(t) ==
    LET w == wrapper[t] text == input[t] bs == BoundariesOf(wrapper[t], input[t]) IN
    /\ pc[t] \in {"lookup", "populate", "hit"} =>
         /\ text \in Texts /\ Enabled(w) /\ todo[t] \subseteq bs
    /\ pc[t] = "lookup" => at[t] = 0 /\ tokens[t] = <<>>
    /\ pc[t] = "populate" =>
         /\ \A b \in todo[t] : at[t] < b
         /\ \/ at[t] = 0 /\ tokens[t] = <<>>
            \/ at[t] \in bs /\ tokens[t] = EncodeText(w, Cut(text, 0, at[t]))
    /\ pc[t] = "hit" => at[t] \in bs /\ tokens[t] = EncodeText(w, Cut(text, 0, at[t]))
    /\ pc[t] = "encoded" => text \in Texts /\ tokens[t] = EncodeText(w, text)

SegmentInv(t) ==
    /\ pc[t] \in {"segments", "insert"} => input[t] \in SegmentLists /\ Enabled(wrapper[t])
    /\ pc[t] = "insert" => at[t] < Len(input[t])

ThreadInv == \A t \in Threads : TextInv(t) /\ SegmentInv(t)

IInv == Types /\ ThreadInv /\ EntriesAreExact

\* Inserting what a key names keeps the entries exact, whoever does it.
LEMMA InsertPrefix ==
  ASSUME EntriesAreExact, NEW w \in Wrappers, Enabled(w), NEW text \in Texts,
         NEW b \in BoundariesOf(w, text),
         Insert(PrefixKey(w, Cut(text, 0, b)), EncodeText(w, Cut(text, 0, b)))
  PROVE  EntriesAreExact'
<1> DEFINE k == PrefixKey(w, Cut(text, 0, b))
<1>1. ASSUME NEW v \in Wrappers, Enabled(v), NEW x \in Texts, NEW c \in BoundariesOf(v, x),
             PrefixKey(v, Cut(x, 0, c)) \in DOMAIN entries'
      PROVE  entries'[PrefixKey(v, Cut(x, 0, c))] = EncodeText(v, Cut(x, 0, c))
  <2>1. CASE PrefixKey(v, Cut(x, 0, c)) = k
    BY <2>1, PrefixKeysExact DEF Insert
  <2>2. CASE PrefixKey(v, Cut(x, 0, c)) # k
    BY <1>1, <2>2 DEF Insert, EntriesAreExact
  <2> QED
    BY <2>1, <2>2
<1>2. ASSUME NEW v \in Wrappers, Enabled(v), NEW seg \in Segments, SegmentKey(v, seg) \in DOMAIN entries'
      PROVE  entries'[SegmentKey(v, seg)] = EncodeSegment(v, seg)
  BY <1>2, KeySpacesDisjoint DEF Insert, EntriesAreExact
<1> QED
  BY <1>1, <1>2 DEF EntriesAreExact

LEMMA InsertSegmentEntry ==
  ASSUME EntriesAreExact, NEW w \in Wrappers, NEW s \in Segments,
         Insert(SegmentKey(w, s), EncodeSegment(w, s))
  PROVE  EntriesAreExact'
<1>1. ASSUME NEW v \in Wrappers, Enabled(v), NEW x \in Texts, NEW c \in BoundariesOf(v, x),
             PrefixKey(v, Cut(x, 0, c)) \in DOMAIN entries'
      PROVE  entries'[PrefixKey(v, Cut(x, 0, c))] = EncodeText(v, Cut(x, 0, c))
  BY <1>1, KeySpacesDisjoint DEF Insert, EntriesAreExact
<1>2. ASSUME NEW v \in Wrappers, Enabled(v), NEW seg \in Segments, SegmentKey(v, seg) \in DOMAIN entries'
      PROVE  entries'[SegmentKey(v, seg)] = EncodeSegment(v, seg)
  <2>1. CASE SegmentKey(v, seg) = SegmentKey(w, s)
    BY <2>1, SegmentKeysExact DEF Insert
  <2>2. CASE SegmentKey(v, seg) # SegmentKey(w, s)
    BY <1>2, <2>2 DEF Insert, EntriesAreExact
  <2> QED
    BY <2>1, <2>2
<1> QED
  BY <1>1, <1>2 DEF EntriesAreExact

LEMMA InitIInv == Init => IInv
<1> SUFFICES ASSUME Init PROVE IInv
  OBVIOUS
<1> USE CacheConstants
<1>1. Types
  BY DEF Init, Types, Labels, Inputs
<1>2. ThreadInv
  BY DEF Init, ThreadInv, TextInv, SegmentInv
<1>3. EntriesAreExact
  BY DEF Init, EntriesAreExact
<1> QED
  BY <1>1, <1>2, <1>3 DEF IInv
-----------------------------------------------------------------------------
(* One lemma per kind of step.                                             *)

LEMMA StartSteps ==
  ASSUME IInv, NEW t \in Threads, NEW w \in Wrappers,
         \/ \E text \in Texts : StartText(t, w, text)
         \/ \E segs \in SegmentLists : StartSegments(t, w, segs)
  PROVE  IInv'
<1>1. ASSUME NEW text \in Texts, StartText(t, w, text)
      PROVE  IInv'
  <2>1. \A b \in BoundariesOf(w, text) : b > 0
    BY BoundaryRange
  <2>2. Types'
    <3>1. /\ \E l \in {"lookup", "encoded"} : pc' = [pc EXCEPT ![t] = l]
          /\ wrapper' = [wrapper EXCEPT ![t] = w] /\ input' = [input EXCEPT ![t] = text]
          /\ at' = [at EXCEPT ![t] = 0]
          /\ DOMAIN todo' = DOMAIN todo /\ DOMAIN tokens' = DOMAIN tokens /\ DOMAIN cached' = DOMAIN cached
      BY <1>1 DEF StartText, Start, Goto
    <3> QED
      BY <3>1 DEF IInv, Types, Labels, TextLabels, Inputs
  <2>3. ThreadInv'
    BY <1>1, <2>1 DEF StartText, Start, Goto, IInv, Types, ThreadInv, TextInv, SegmentInv
  <2>4. EntriesAreExact'
    BY <1>1 DEF StartText, Start, IInv, EntriesAreExact
  <2> QED
    BY <2>2, <2>3, <2>4 DEF IInv
<1>2. ASSUME NEW segs \in SegmentLists, StartSegments(t, w, segs)
      PROVE  IInv'
  <2>1. Types'
    BY <1>2 DEF StartSegments, Start, Goto, IInv, Types, Labels, SegmentLabels, Inputs
  <2>2. ThreadInv'
    BY <1>2 DEF StartSegments, Start, Goto, IInv, Types, ThreadInv, TextInv, SegmentInv
  <2>3. EntriesAreExact'
    BY <1>2 DEF StartSegments, Start, IInv, EntriesAreExact
  <2> QED
    BY <2>1, <2>2, <2>3 DEF IInv
<1> QED
  BY <1>1, <1>2

\* Steps that leave the tokens alone, or forget them.
LEMMA QuietSteps ==
  ASSUME IInv, NEW t \in Threads, Miss(t) \/ Join(t) \/ Fail(t) \/ Return(t)
  PROVE  IInv'
<1> USE DEF IInv, Types, Labels, TextLabels, SegmentLabels, Ended, ThreadInv, TextInv, SegmentInv, call, progress, Goto
<1>1. CASE Miss(t)
  <2>1. \A b \in BoundariesOf(wrapper[t], input[t]) : b > 0
    BY <1>1, BoundaryRange DEF Miss
  <2>2. Types' /\ EntriesAreExact'
    BY <1>1 DEF Miss, EntriesAreExact
  <2>3. ThreadInv'
    BY <1>1, <2>1 DEF Miss
  <2> QED
    BY <2>2, <2>3
<1>2. CASE Join(t)
  BY <1>2 DEF Join, EntriesAreExact
<1>3. CASE Fail(t)
  BY <1>3 DEF Fail, EntriesAreExact
<1>4. CASE Return(t)
  BY <1>4 DEF Return, EntriesAreExact
<1> QED
  BY <1>1, <1>2, <1>3, <1>4

LEMMA LookupStep ==
  ASSUME IInv, NEW t \in Threads, Lookup(t)
  PROVE  IInv'
<1> DEFINE w == wrapper[t] text == input[t] key(b) == PrefixKey(w, Cut(text, 0, b))
<1>1. text \in Texts /\ Enabled(w) /\ w \in Wrappers /\ todo[t] \subseteq BoundariesOf(w, text)
      /\ at[t] = 0 /\ tokens[t] = <<>>
  BY DEF Lookup, IInv, Types, ThreadInv, TextInv
<1>2. UNCHANGED <<entries, call>>
  BY DEF Lookup
<1>3. EntriesAreExact'
  BY <1>2 DEF IInv, EntriesAreExact
<1>4. PICK b \in todo[t] :
        IF key(b) \in DOMAIN entries
        THEN FromCache(t, key(b)) /\ at' = [at EXCEPT ![t] = b] /\ Goto(t, "hit") /\ UNCHANGED todo
        ELSE todo' = [todo EXCEPT ![t] = @ \ {b}] /\ UNCHANGED <<pc, at, tokens, cached>>
  BY DEF Lookup
<1>5. b \in BoundariesOf(w, text) /\ b \in 0..Len(text) /\ b \in Nat
  BY <1>1, <1>4, BoundaryRange
<1>6. CASE key(b) \in DOMAIN entries
  <2>1. entries[key(b)] = EncodeText(w, Cut(text, 0, b))
    BY <1>1, <1>5, <1>6 DEF IInv, EntriesAreExact
  <2>2. tokens' = [tokens EXCEPT ![t] = EncodeText(w, Cut(text, 0, b))]
    BY <1>1, <1>4, <1>5, <1>6, <2>1, JoinsFirst DEF FromCache
  <2>3. Types'
    BY <1>2, <1>4, <1>5, <1>6, <2>2 DEF call, FromCache, Goto, IInv, Types, Labels, TextLabels
  <2>4. ThreadInv'
    BY <1>1, <1>2, <1>4, <1>5, <1>6, <2>2 DEF call, FromCache, Goto, IInv, Types, ThreadInv, TextInv, SegmentInv
  <2> QED
    BY <1>3, <2>3, <2>4 DEF IInv
<1>7. CASE key(b) \notin DOMAIN entries
  BY <1>2, <1>3, <1>4, <1>7 DEF call, IInv, Types, ThreadInv, TextInv, SegmentInv
<1> QED
  BY <1>6, <1>7

LEMMA PopulateStep ==
  ASSUME IInv, NEW t \in Threads, Populate(t)
  PROVE  IInv'
<1> DEFINE w == wrapper[t] text == input[t] ids(b) == tokens[t] \o EncodeText(w, Cut(text, at[t], b))
<1>1. /\ text \in Texts /\ Enabled(w) /\ w \in Wrappers /\ todo[t] \subseteq BoundariesOf(w, text)
      /\ \A b \in todo[t] : at[t] < b
      /\ \/ at[t] = 0 /\ tokens[t] = <<>>
         \/ at[t] \in BoundariesOf(w, text) /\ tokens[t] = EncodeText(w, Cut(text, 0, at[t]))
  BY DEF Populate, IInv, Types, ThreadInv, TextInv
<1>2. PICK b \in todo[t] :
        /\ \A c \in todo[t] : b <= c
        /\ tokens' = [tokens EXCEPT ![t] = ids(b)]
        /\ Insert(PrefixKey(w, Cut(text, 0, b)), ids(b))
        /\ at' = [at EXCEPT ![t] = b]
        /\ todo' = [todo EXCEPT ![t] = @ \ {b}]
  BY DEF Populate
<1>3. b \in BoundariesOf(w, text) /\ b \in 0..Len(text) /\ b \in Nat
      /\ \A c \in BoundariesOf(w, text) : c \in Nat
  BY <1>1, <1>2, BoundaryRange
<1>4. ids(b) = EncodeText(w, Cut(text, 0, b))
  <2>1. CASE at[t] = 0 /\ tokens[t] = <<>>
    BY <1>1, <1>3, <2>1, JoinsFirst
  <2>2. CASE at[t] \in BoundariesOf(w, text) /\ tokens[t] = EncodeText(w, Cut(text, 0, at[t]))
    BY <1>1, <1>2, <1>3, <2>2, Joins
  <2> QED
    BY <1>1, <2>1, <2>2
<1>5. EntriesAreExact'
  BY <1>1, <1>2, <1>3, <1>4, InsertPrefix DEF IInv
<1>6. pc' = pc /\ wrapper' = wrapper /\ input' = input /\ cached' = cached
  BY DEF Populate, call
<1>7. Types'
  BY <1>2, <1>3, <1>6 DEF IInv, Types
<1>8. ThreadInv'
  <2>1. ASSUME NEW c \in todo[t] \ {b}
        PROVE  b < c
    <3>1. c \in Nat /\ b \in Nat
      BY <1>1, <1>3
    <3>2. b <= c /\ b # c
      BY <1>2
    <3> QED
      BY <3>1, <3>2
  <2>2. /\ pc'[t] = "populate" /\ wrapper'[t] = w /\ input'[t] = text
        /\ at'[t] = b /\ todo'[t] = todo[t] \ {b} /\ tokens'[t] = EncodeText(w, Cut(text, 0, b))
    BY <1>2, <1>4, <1>6 DEF Populate, IInv, Types
  <2>3. TextInv(t)' /\ SegmentInv(t)'
    BY <1>1, <1>3, <2>1, <2>2 DEF TextInv, SegmentInv
  <2>4. ASSUME NEW u \in Threads, u # t
        PROVE  TextInv(u)' /\ SegmentInv(u)'
    <3>1. /\ pc'[u] = pc[u] /\ wrapper'[u] = wrapper[u] /\ input'[u] = input[u]
          /\ at'[u] = at[u] /\ todo'[u] = todo[u] /\ tokens'[u] = tokens[u]
      BY <1>2, <1>6, <2>4 DEF IInv, Types
    <3>2. TextInv(u) /\ SegmentInv(u)
      BY DEF IInv, ThreadInv
    <3> QED
      BY <3>1, <3>2 DEF TextInv, SegmentInv
  <2> QED
    BY <2>3, <2>4 DEF ThreadInv
<1> QED
  BY <1>5, <1>7, <1>8 DEF IInv

LEMMA EncodeTailStep ==
  ASSUME IInv, NEW t \in Threads, EncodeTail(t)
  PROVE  IInv'
<1> DEFINE w == wrapper[t] text == input[t]
<1>1. /\ text \in Texts /\ Enabled(w) /\ w \in Wrappers
      /\ \/ at[t] = 0 /\ tokens[t] = <<>>
         \/ at[t] \in BoundariesOf(w, text) /\ tokens[t] = EncodeText(w, Cut(text, 0, at[t]))
  BY DEF EncodeTail, IInv, Types, ThreadInv, TextInv
<1>2. Len(text) \in 0..Len(text)
  BY <1>1, CacheConstants
<1>3. tokens[t] \o EncodeText(w, Rest(t)) = EncodeText(w, text)
  <2>1. CASE at[t] = 0 /\ tokens[t] = <<>>
    BY <1>1, <1>2, <2>1, JoinsFirst, WholeText DEF Rest
  <2>2. CASE at[t] \in BoundariesOf(w, text) /\ tokens[t] = EncodeText(w, Cut(text, 0, at[t]))
    <3>1. at[t] < Len(text)
      BY <1>1, <2>2, BoundaryRange
    <3>2. EncodeText(w, Cut(text, 0, at[t])) \o EncodeText(w, Cut(text, at[t], Len(text)))
             = EncodeText(w, Cut(text, 0, Len(text)))
      BY <1>1, <2>2, <3>1, Joins
    <3> QED
      BY <1>1, <2>2, <3>2, WholeText DEF Rest
  <2> QED
    BY <1>1, <2>1, <2>2
<1>4. /\ tokens' = [tokens EXCEPT ![t] = EncodeText(w, text)]
      /\ pc' = [pc EXCEPT ![t] = "encoded"]
      /\ UNCHANGED <<entries, wrapper, input, at, todo, cached>>
  BY <1>3 DEF EncodeTail, Emit, Goto, call
<1>5. Types' /\ EntriesAreExact'
  BY <1>4 DEF IInv, Types, Labels, TextLabels, EntriesAreExact
<1>6. ThreadInv'
  BY <1>1, <1>4 DEF IInv, Types, ThreadInv, TextInv, SegmentInv
<1> QED
  BY <1>5, <1>6 DEF IInv

LEMMA ExtendHitStep ==
  ASSUME IInv, NEW t \in Threads, ExtendHit(t)
  PROVE  IInv'
<1> DEFINE w == wrapper[t] text == input[t]
           upto(d) == tokens[t] \o EncodeText(w, Cut(text, at[t], d))
<1>1. /\ text \in Texts /\ Enabled(w) /\ w \in Wrappers
      /\ at[t] \in BoundariesOf(w, text) /\ tokens[t] = EncodeText(w, Cut(text, 0, at[t]))
  BY DEF ExtendHit, IInv, Types, ThreadInv, TextInv
<1>2. PICK d \in BoundariesOf(w, text) :
        /\ d > at[t]
        /\ Insert(PrefixKey(w, Cut(text, 0, d)), upto(d))
        /\ tokens' = [tokens EXCEPT ![t] = upto(d) \o EncodeText(w, Cut(text, d, Len(text)))]
  BY DEF ExtendHit
<1>3. upto(d) = EncodeText(w, Cut(text, 0, d))
  BY <1>1, <1>2, BoundaryRange, Joins
<1>4. upto(d) \o EncodeText(w, Cut(text, d, Len(text))) = EncodeText(w, text)
  <2>1. d < Len(text)
    BY <1>1, <1>2, BoundaryRange
  <2>2. EncodeText(w, Cut(text, 0, d)) \o EncodeText(w, Cut(text, d, Len(text)))
           = EncodeText(w, Cut(text, 0, Len(text)))
    BY <1>1, <1>2, <2>1, Joins
  <2> QED
    BY <1>1, <1>3, <2>2, WholeText
<1>5. EntriesAreExact'
  BY <1>1, <1>2, <1>3, InsertPrefix DEF IInv
<1>6. /\ pc' = [pc EXCEPT ![t] = "encoded"]
      /\ UNCHANGED <<wrapper, input, at, todo, cached>>
  BY DEF ExtendHit, Goto, call
<1>7. Types'
  BY <1>2, <1>6 DEF IInv, Types, Labels, TextLabels
<1>8. ThreadInv'
  BY <1>1, <1>2, <1>4, <1>6 DEF IInv, Types, ThreadInv, TextInv, SegmentInv
<1> QED
  BY <1>5, <1>7, <1>8 DEF IInv

LEMMA SegmentSteps ==
  ASSUME IInv, NEW t \in Threads, Segment(t) \/ InsertSegment(t)
  PROVE  IInv'
<1> USE DEF IInv, Types, Labels, TextLabels, SegmentLabels, call, Goto
<1>1. CASE Segment(t)
  <2>1. EntriesAreExact'
    BY <1>1 DEF Segment, EntriesAreExact
  <2>2. Types'
    <3>1. /\ pc' = pc \/ pc' = [pc EXCEPT ![t] = "insert"]
          /\ at' = at \/ at' = [at EXCEPT ![t] = @ + 1]
          /\ UNCHANGED <<wrapper, input, todo>>
          /\ DOMAIN tokens' = DOMAIN tokens /\ DOMAIN cached' = DOMAIN cached
      BY <1>1 DEF Segment, Emit, FromCache
    <3> QED
      BY <3>1
  <2>3. ThreadInv'
    BY <1>1 DEF Segment, Emit, FromCache, ThreadInv, TextInv, SegmentInv
  <2> QED
    BY <2>1, <2>2, <2>3
<1>2. CASE InsertSegment(t)
  <2>1. wrapper[t] \in Wrappers /\ input[t] \in Seq(Segments) /\ at[t] \in Nat /\ at[t] < Len(input[t])
    BY <1>2, CacheConstants DEF InsertSegment, ThreadInv, SegmentInv
  <2>2. Here(t) \in Segments
    BY <2>1 DEF Here
  <2>3. EntriesAreExact'
    BY <1>2, <2>1, <2>2, InsertSegmentEntry DEF InsertSegment
  <2>4. Types'
    BY <1>2 DEF InsertSegment, Emit
  <2>5. ThreadInv'
    BY <1>2 DEF InsertSegment, Emit, ThreadInv, TextInv, SegmentInv
  <2> QED
    BY <2>3, <2>4, <2>5
<1> QED
  BY <1>1, <1>2

LEMMA EvictStep ==
  ASSUME IInv, NEW k, Evict(k)
  PROVE  IInv'
<1>1. UNCHANGED <<pc, wrapper, input, at, todo, tokens, cached>>
  BY DEF Evict, call, progress
<1>2. EntriesAreExact'
  BY DEF Evict, IInv, EntriesAreExact
<1> QED
  BY <1>1, <1>2 DEF IInv, Types, ThreadInv, TextInv, SegmentInv

LEMMA NextIInv == IInv /\ [Next]_vars => IInv'
<1> SUFFICES ASSUME IInv, [Next]_vars PROVE IInv'
  OBVIOUS
<1>1. CASE Next
  BY <1>1, StartSteps, QuietSteps, LookupStep, PopulateStep, EncodeTailStep, ExtendHitStep,
     SegmentSteps, EvictStep DEF Next, Step
<1>2. CASE UNCHANGED vars
  BY <1>2 DEF vars, call, progress, IInv, Types, ThreadInv, TextInv, SegmentInv, EntriesAreExact
<1> QED
  BY <1>1, <1>2

-----------------------------------------------------------------------------
(* The theorems.                                                           *)

\* The inductive invariant holds throughout.
THEOREM InductiveInvariant == Spec => []IInv
BY InitIInv, NextIInv, PTL DEF Spec

\* Every entry, prefix or segment, is exactly what the tokenizer of its
\* namespace makes of what its key names (l1.rs, populate_boundaries and
\* extend_after_match; mod.rs, encode_segments).
THEOREM CacheIsExact == Spec => []EntriesAreExact
<1>1. IInv => EntriesAreExact
  BY DEF IInv
<1> QED
  BY <1>1, InductiveInvariant, PTL

\* encode returns what the inner tokenizer returns without a cache, however its
\* threads interleave and whatever moka evicts (the contract of CachedTokenizer).
THEOREM EncodeIsTransparent == Spec => []TextResultsAreExact
<1>1. IInv => TextResultsAreExact
  BY DEF IInv, ThreadInv, TextInv, TextResultsAreExact
<1> QED
  BY <1>1, InductiveInvariant, PTL

-----------------------------------------------------------------------------
(* What a call leaves in the cache, and what it reports: the second        *)
(* inductive invariant, on top of IInv.                                    *)

Key(t, b) == PrefixKey(wrapper[t], Cut(input[t], 0, b))
Depths(t) == BoundariesOf(wrapper[t], input[t])

\* How many of a call's tokens came from the cache.
CountInv(t) ==
    /\ pc[t] \in {"lookup", "populate"} => cached[t] = 0
    /\ pc[t] = "hit" => cached[t] # 0 /\ cached[t] = Len(tokens[t])
    /\ pc[t] \in {"segments", "insert", "joined", "encoded"} => cached[t] <= Len(tokens[t])
    /\ pc[t] = "encoded" /\ cached[t] # 0 =>
         cached[t] = Len(EncodeText(wrapper[t], Cut(input[t], 0, at[t])))

\* What a call has left in the cache, if nothing was evicted.
DepthInv(t) ==
    /\ pc[t] = "populate" => \A b \in Depths(t) : b \in todo[t] \/ Key(t, b) \in DOMAIN entries
    /\ pc[t] = "hit" => Key(t, at[t]) \in DOMAIN entries
    /\ pc[t] = "encoded" /\ Enabled(wrapper[t]) /\ (cached[t] = 0 \/ Extend[wrapper[t]]) =>
         \A d \in Depths(t) : IsDeepest(d, Depths(t)) => Key(t, d) \in DOMAIN entries

UInv ==
    /\ TypeOK
    /\ \A t \in Threads : CountInv(t)
    /\ evictions = 0 => \A t \in Threads : DepthInv(t)

-----------------------------------------------------------------------------
(* Tokens and entries.                                                     *)

LEMMA TokensJoin ==
  ASSUME NEW x \in TokenIds, NEW y \in TokenIds
  PROVE  /\ x \o y \in TokenIds /\ Len(x \o y) = Len(x) + Len(y)
         /\ Len(x) \in Nat /\ Len(y) \in Nat /\ Len(x \o y) \in Nat /\ Len(x) <= Len(x \o y)
<1>1. x \o y \in TokenIds /\ Len(x \o y) = Len(x) + Len(y) /\ Len(x) \in Nat /\ Len(y) \in Nat
  BY DEF TokenIds
<1>2. \A m, n \in Nat : m + n \in Nat /\ m <= m + n
  OBVIOUS
<1> QED
  BY <1>1, <1>2

LEMMA TextTypes ==
  ASSUME NEW w \in Wrappers, NEW text \in Texts
  PROVE  EncodeText(w, text) \in TokenIds /\ Len(text) \in Nat
<1>1. 0 \in 0..Len(text) /\ Len(text) \in 0..Len(text)
  BY CacheConstants
<1> QED
  BY <1>1, PieceTypes, WholeText

LEMMA InsertTypes ==
  ASSUME \A k \in DOMAIN entries : entries[k] \in TokenIds, NEW k, NEW ids \in TokenIds, Insert(k, ids)
  PROVE  \A x \in DOMAIN entries' : entries'[x] \in TokenIds
BY DEF Insert

LEMMA InsertKeeps ==
  ASSUME NEW k, NEW ids, Insert(k, ids)
  PROVE  DOMAIN entries' = DOMAIN entries \union {k}
BY DEF Insert

\* A thread that does not move keeps what it knows while the cache only grows.
LEMMA UsageFrame ==
  ASSUME NEW t \in Threads, pc'[t] = pc[t], wrapper'[t] = wrapper[t], input'[t] = input[t],
         at'[t] = at[t], todo'[t] = todo[t], tokens'[t] = tokens[t], cached'[t] = cached[t]
  PROVE  /\ CountInv(t) => CountInv(t)'
         /\ DepthInv(t) /\ DOMAIN entries \subseteq DOMAIN entries' => DepthInv(t)'
<1>1. Depths(t)' = Depths(t) /\ \A b : Key(t, b)' = Key(t, b)
  BY DEF Depths, Key
<1> QED
  BY <1>1 DEF CountInv, DepthInv

\* So it is enough to look at the thread that moves.
LEMMA OneThread ==
  ASSUME UInv, NEW t \in Threads, TypeOK',
         \A u \in Threads \ {t} : /\ pc'[u] = pc[u] /\ wrapper'[u] = wrapper[u] /\ input'[u] = input[u]
                                  /\ at'[u] = at[u] /\ todo'[u] = todo[u] /\ tokens'[u] = tokens[u]
                                  /\ cached'[u] = cached[u],
         DOMAIN entries \subseteq DOMAIN entries', evictions' = evictions,
         CountInv(t)', evictions = 0 => DepthInv(t)'
  PROVE  UInv'
BY UsageFrame DEF UInv

-----------------------------------------------------------------------------
(* One lemma per kind of step.                                             *)

LEMMA InitUInv == Init => UInv
<1> SUFFICES ASSUME Init PROVE UInv
  OBVIOUS
<1>1. <<>> \in TokenIds
  BY DEF TokenIds
<1>2. TypeOK
  BY <1>1, CacheConstants DEF Init, TypeOK, Labels, Inputs
<1>3. \A t \in Threads : CountInv(t) /\ DepthInv(t)
  BY DEF Init, CountInv, DepthInv
<1> QED
  BY <1>2, <1>3 DEF UInv

LEMMA UsageStart ==
  ASSUME IInv, UInv, NEW t \in Threads, NEW w \in Wrappers,
         \/ \E text \in Texts : StartText(t, w, text)
         \/ \E segs \in SegmentLists : StartSegments(t, w, segs)
  PROVE  UInv'
<1>1. TypeOK /\ <<>> \in TokenIds /\ Len(<<>>) = 0
  BY DEF UInv, TokenIds
<1>2. PICK x \in Inputs, l \in {"lookup", "encoded", "segments"}, bs \in SUBSET Nat, ids \in TokenIds :
        /\ Start(t, w, x, l, bs) /\ tokens' = [tokens EXCEPT ![t] = ids]
        /\ l = "encoded" => ~Enabled(w)
  <2>1. ASSUME NEW text \in Texts, StartText(t, w, text)
        PROVE  \E x \in Inputs, l \in {"lookup", "encoded", "segments"}, bs \in SUBSET Nat, ids \in TokenIds :
                  /\ Start(t, w, x, l, bs) /\ tokens' = [tokens EXCEPT ![t] = ids]
                  /\ l = "encoded" => ~Enabled(w)
    <3>1. BoundariesOf(w, text) \in SUBSET Nat /\ EncodeText(w, text) \in TokenIds /\ text \in Inputs
      BY BoundaryRange, TextTypes DEF Inputs
    <3> QED
      BY <1>1, <2>1, <3>1 DEF StartText
  <2>2. ASSUME NEW segs \in SegmentLists, StartSegments(t, w, segs)
        PROVE  \E x \in Inputs, l \in {"lookup", "encoded", "segments"}, bs \in SUBSET Nat, ids \in TokenIds :
                  /\ Start(t, w, x, l, bs) /\ tokens' = [tokens EXCEPT ![t] = ids]
                  /\ l = "encoded" => ~Enabled(w)
    BY <1>1, <2>2 DEF StartSegments, Inputs
  <2> QED
    BY <2>1, <2>2
<1>3. /\ pc' = [pc EXCEPT ![t] = l] /\ wrapper' = [wrapper EXCEPT ![t] = w]
      /\ input' = [input EXCEPT ![t] = x] /\ at' = [at EXCEPT ![t] = 0] /\ todo' = [todo EXCEPT ![t] = bs]
      /\ cached' = [cached EXCEPT ![t] = 0] /\ calls' = calls + 1
      /\ entries' = entries /\ evictions' = evictions
  BY <1>2 DEF Start, Goto
<1>4. TypeOK'
  BY <1>1, <1>2, <1>3 DEF TypeOK, Labels, TextLabels, SegmentLabels, TokenIds, Inputs
<1>5. /\ pc'[t] = l /\ wrapper'[t] = w /\ cached'[t] = 0 /\ tokens'[t] = ids
  BY <1>1, <1>2, <1>3 DEF TypeOK
<1>6. Len(ids) \in Nat
  BY <1>2 DEF TokenIds
<1>7. CountInv(t)' /\ DepthInv(t)'
  BY <1>2, <1>5, <1>6 DEF CountInv, DepthInv
<1> QED
  BY <1>1, <1>2, <1>3, <1>4, <1>7, OneThread DEF TypeOK

\* Steps that leave tokens and entries alone, or forget the tokens.
LEMMA UsageQuiet ==
  ASSUME IInv, UInv, NEW t \in Threads, Miss(t) \/ Join(t) \/ Fail(t) \/ Return(t)
  PROVE  UInv'
<1>1. TypeOK /\ CountInv(t) /\ <<>> \in TokenIds
  BY DEF UInv, TokenIds
<1>2. UNCHANGED <<entries, wrapper, input, calls, evictions>>
  BY DEF Miss, Join, Fail, Return, call
<1>3. CASE Miss(t)
  <2>1. Depths(t) \subseteq Nat
    BY <1>3, BoundaryRange DEF Miss, Depths, IInv, Types, ThreadInv, TextInv
  <2>2. /\ pc[t] = "lookup" /\ pc' = [pc EXCEPT ![t] = "populate"] /\ todo' = [todo EXCEPT ![t] = Depths(t)]
        /\ at' = at /\ tokens' = tokens /\ cached' = cached
    BY <1>3 DEF Miss, Goto, Depths
  <2>3. TypeOK'
    BY <1>1, <1>2, <2>1, <2>2 DEF TypeOK, Labels, TextLabels, TokenIds, Inputs
  <2>4. CountInv(t)' /\ DepthInv(t)'
    BY <1>1, <1>2, <2>2 DEF TypeOK, CountInv, DepthInv, Depths, Key
  <2> QED
    BY <1>1, <1>2, <2>2, <2>3, <2>4, OneThread DEF TypeOK
<1>4. CASE Join(t) \/ Fail(t)
  <2>1. /\ (pc' = [pc EXCEPT ![t] = "joined"] /\ pc[t] = "segments") \/ pc' = [pc EXCEPT ![t] = "failed"]
        /\ at' = at /\ tokens' = tokens /\ cached' = cached /\ todo' = todo
    BY <1>4 DEF Join, Fail, Goto, progress
  <2>2. TypeOK'
    BY <1>1, <1>2, <2>1 DEF TypeOK, Labels, SegmentLabels, TokenIds, Inputs
  <2>3. CountInv(t)' /\ DepthInv(t)'
    BY <1>1, <1>2, <2>1 DEF TypeOK, CountInv, DepthInv
  <2> QED
    BY <1>1, <1>2, <2>1, <2>2, <2>3, OneThread DEF TypeOK
<1>5. CASE Return(t)
  <2>1. /\ pc' = [pc EXCEPT ![t] = "idle"] /\ at' = [at EXCEPT ![t] = 0] /\ todo' = [todo EXCEPT ![t] = {}]
        /\ tokens' = [tokens EXCEPT ![t] = <<>>] /\ cached' = [cached EXCEPT ![t] = 0]
    BY <1>5 DEF Return, Goto
  <2>2. TypeOK'
    BY <1>1, <1>2, <2>1 DEF TypeOK, Labels, TokenIds, Inputs
  <2>3. CountInv(t)' /\ DepthInv(t)'
    BY <1>1, <1>2, <2>1 DEF TypeOK, CountInv, DepthInv
  <2> QED
    BY <1>1, <1>2, <2>1, <2>2, <2>3, OneThread DEF TypeOK
<1> QED
  BY <1>3, <1>4, <1>5

\* A hit counts the tokens of the entry, and an entry has some.
LEMMA UsageLookup ==
  ASSUME IInv, UInv, NEW t \in Threads, Lookup(t)
  PROVE  UInv'
<1> DEFINE w == wrapper[t]
           text == input[t]
<1>1. TypeOK /\ CountInv(t)
  BY DEF UInv
<1>2. /\ text \in Texts /\ Enabled(w) /\ w \in Wrappers /\ todo[t] \subseteq Depths(t)
      /\ tokens[t] = <<>> /\ pc[t] = "lookup"
  BY DEF Lookup, IInv, Types, ThreadInv, TextInv, Depths
<1>3. UNCHANGED <<entries, wrapper, input, calls, evictions>>
  BY DEF Lookup, call
<1>4. PICK b \in todo[t] :
        IF Key(t, b) \in DOMAIN entries
        THEN FromCache(t, Key(t, b)) /\ at' = [at EXCEPT ![t] = b] /\ Goto(t, "hit") /\ UNCHANGED todo
        ELSE todo' = [todo EXCEPT ![t] = @ \ {b}] /\ UNCHANGED <<pc, at, tokens, cached>>
  BY DEF Lookup, Key
<1>5. CASE Key(t, b) \in DOMAIN entries
  <2> DEFINE ids == entries[Key(t, b)]
  <2>1. ids \in TokenIds /\ ids = EncodeText(w, Cut(text, 0, b)) /\ b \in Nat
    BY <1>2, <1>4, <1>1, <1>5, BoundaryRange DEF TypeOK, Key, Depths, IInv, EntriesAreExact
  <2>2. ids # <<>>
    BY <1>2, <1>4, <2>1, PrefixNotEmpty DEF Depths
  <2>3. Len(ids) \in Nat /\ Len(ids) # 0 /\ <<>> \o ids = ids
    BY <2>1, <2>2 DEF TokenIds
  <2>4. /\ pc' = [pc EXCEPT ![t] = "hit"] /\ at' = [at EXCEPT ![t] = b] /\ todo' = todo
        /\ tokens' = [tokens EXCEPT ![t] = ids] /\ cached' = [cached EXCEPT ![t] = Len(ids)]
    <3>1. cached[t] = 0
      BY <1>2, <1>1 DEF CountInv
    <3> QED
      BY <1>2, <1>4, <1>5, <2>3, <3>1 DEF FromCache, Goto
  <2>5. TypeOK'
    BY <1>3, <1>1, <2>1, <2>3, <2>4 DEF TypeOK, Labels, TextLabels, TokenIds, Inputs
  <2>6. CountInv(t)' /\ DepthInv(t)'
    BY <1>3, <1>1, <1>5, <2>3, <2>4 DEF TypeOK, CountInv, DepthInv, Key
  <2> QED
    BY <1>3, <1>1, <2>4, <2>5, <2>6, OneThread DEF TypeOK
<1>6. CASE Key(t, b) \notin DOMAIN entries
  <2>1. todo' = [todo EXCEPT ![t] = todo[t] \ {b}] /\ UNCHANGED <<pc, at, tokens, cached>>
    BY <1>4, <1>6
  <2>2. TypeOK'
    BY <1>3, <1>1, <2>1 DEF TypeOK, TokenIds, Inputs
  <2>3. CountInv(t)' /\ DepthInv(t)'
    BY <1>2, <1>3, <1>1, <2>1 DEF CountInv, DepthInv
  <2> QED
    BY <1>3, <1>1, <2>1, <2>2, <2>3, OneThread DEF TypeOK
<1> QED
  BY <1>5, <1>6

\* Each boundary a miss passes is in the cache from then on.
LEMMA UsagePopulate ==
  ASSUME IInv, UInv, NEW t \in Threads, Populate(t)
  PROVE  UInv'
<1> DEFINE w == wrapper[t]
           text == input[t]
           ids(b) == tokens[t] \o EncodeText(w, Cut(text, at[t], b))
<1>1. TypeOK /\ CountInv(t)
  BY DEF UInv
<1>2. /\ text \in Texts /\ w \in Wrappers /\ todo[t] \subseteq Depths(t) /\ pc[t] = "populate"
      /\ at[t] = 0 \/ at[t] \in Depths(t)
  BY DEF Populate, IInv, Types, ThreadInv, TextInv, Depths
<1>3. PICK b \in todo[t] :
        /\ tokens' = [tokens EXCEPT ![t] = ids(b)] /\ Insert(Key(t, b), ids(b))
        /\ at' = [at EXCEPT ![t] = b] /\ todo' = [todo EXCEPT ![t] = todo[t] \ {b}]
  BY DEF Populate, Key
<1>4. UNCHANGED <<pc, wrapper, input, cached, calls, evictions>>
  BY DEF Populate, call
<1>5. b \in 0..Len(text) /\ at[t] \in 0..Len(text) /\ b \in Nat
  BY <1>2, <1>3, BoundaryRange, TextTypes DEF Depths
<1>6. ids(b) \in TokenIds
  BY <1>1, <1>2, <1>5, PieceTypes, TokensJoin DEF TypeOK
<1>7. TypeOK'
  <2>1. \A x \in DOMAIN entries' : entries'[x] \in TokenIds
    BY <1>1, <1>3, <1>6, InsertTypes DEF TypeOK
  <2> QED
    BY <1>1, <1>3, <1>4, <1>5, <1>6, <2>1 DEF TypeOK, Labels, TokenIds, Inputs
<1>8. DOMAIN entries' = DOMAIN entries \union {Key(t, b)}
  BY <1>3, InsertKeeps
<1>9. CountInv(t)'
  BY <1>1, <1>2, <1>4 DEF CountInv
<1>10. ASSUME DepthInv(t) PROVE DepthInv(t)'
  <2>1. todo'[t] = todo[t] \ {b} /\ Depths(t)' = Depths(t) /\ \A c : Key(t, c)' = Key(t, c)
    BY <1>1, <1>3, <1>4 DEF TypeOK, Depths, Key
  <2> QED
    BY <1>2, <1>4, <1>8, <1>10, <2>1 DEF DepthInv
<1>11. evictions = 0 => DepthInv(t)'
  BY <1>10 DEF UInv
<1> QED
  BY <1>1, <1>3, <1>4, <1>7, <1>8, <1>9, <1>11, OneThread DEF TypeOK

LEMMA UsageTail ==
  ASSUME IInv, UInv, NEW t \in Threads, EncodeTail(t)
  PROVE  UInv'
<1> DEFINE w == wrapper[t]
           text == input[t]
           rest == EncodeText(w, Rest(t))
<1>1. TypeOK /\ CountInv(t)
  BY DEF UInv
<1>2. /\ text \in Texts /\ w \in Wrappers /\ pc[t] \in {"populate", "hit"}
      /\ at[t] = 0 \/ at[t] \in Depths(t)
      /\ pc[t] = "hit" => at[t] \in Depths(t) /\ tokens[t] = EncodeText(w, Cut(text, 0, at[t]))
  BY DEF EncodeTail, IInv, Types, ThreadInv, TextInv, Depths
<1>3. /\ tokens' = [tokens EXCEPT ![t] = tokens[t] \o rest] /\ pc' = [pc EXCEPT ![t] = "encoded"]
      /\ UNCHANGED <<entries, wrapper, input, at, todo, cached, calls, evictions>>
  BY DEF EncodeTail, Emit, Goto, call
<1>4. at[t] \in 0..Len(text) /\ Len(text) \in 0..Len(text)
  BY <1>2, BoundaryRange, TextTypes DEF Depths
<1>5. /\ tokens[t] \o rest \in TokenIds
      /\ Len(tokens[t]) \in Nat /\ Len(tokens[t] \o rest) \in Nat /\ Len(tokens[t]) <= Len(tokens[t] \o rest)
  <2>1. rest \in TokenIds /\ tokens[t] \in TokenIds
    BY <1>1, <1>2, <1>4, PieceTypes DEF Rest, TypeOK
  <2> QED
    BY <2>1, TokensJoin
<1>6. TypeOK'
  BY <1>1, <1>3, <1>5 DEF TypeOK, Labels, TextLabels, TokenIds, Inputs
<1>7. CountInv(t)'
  <2>1. /\ pc'[t] = "encoded" /\ tokens'[t] = tokens[t] \o rest /\ cached'[t] = cached[t]
        /\ at'[t] = at[t] /\ wrapper'[t] = w /\ input'[t] = text
    BY <1>1, <1>3 DEF TypeOK
  <2>2. cached[t] <= Len(tokens[t] \o rest)
    <3>1. CASE cached[t] = 0
      <4>1. \A n \in Nat : 0 <= n
        OBVIOUS
      <4> QED
        BY <1>5, <3>1, <4>1, Zenon
    <3>2. CASE cached[t] # 0
      BY <1>1, <1>2, <1>5, <3>2 DEF CountInv
    <3> QED
      BY <3>1, <3>2
  <2>3. cached[t] # 0 => cached[t] = Len(EncodeText(w, Cut(text, 0, at[t])))
    BY <1>1, <1>2 DEF CountInv
  <2> QED
    BY <2>1, <2>2, <2>3 DEF CountInv
<1>8. ASSUME DepthInv(t) PROVE DepthInv(t)'
  <2>1. pc'[t] = "encoded" /\ Depths(t)' = Depths(t) /\ \A c : Key(t, c)' = Key(t, c)
    BY <1>1, <1>3 DEF TypeOK, Depths, Key
  <2>2. CASE pc[t] = "populate"
    <3>1. todo[t] = {}
      BY <2>2 DEF EncodeTail
    <3> QED
      BY <1>3, <1>8, <2>1, <2>2, <3>1 DEF DepthInv
  <2>3. CASE pc[t] = "hit"
    <3>1. cached[t] # 0 /\ Key(t, at[t]) \in DOMAIN entries
      BY <1>1, <1>8, <2>3 DEF CountInv, DepthInv
    <3>2. ASSUME Extend[w], NEW d \in Depths(t), IsDeepest(d, Depths(t)) PROVE d = at[t]
      <4>1. d <= at[t] /\ at[t] <= d
        BY <1>2, <2>3, <3>2 DEF EncodeTail, IsDeepest, Depths
      <4>2. d \in Int /\ at[t] \in Int
        BY <1>2, <1>4, <3>2, BoundaryRange DEF Depths
      <4> QED
        BY <4>1, <4>2
    <3> QED
      BY <1>3, <2>1, <2>3, <3>1, <3>2 DEF DepthInv
  <2> QED
    BY <1>2, <2>2, <2>3
<1>9. evictions = 0 => DepthInv(t)'
  BY <1>8 DEF UInv
<1> QED
  BY <1>1, <1>3, <1>6, <1>7, <1>9, OneThread DEF TypeOK

\* A shallower hit leaves the deepest boundary in the cache.
LEMMA UsageExtend ==
  ASSUME IInv, UInv, NEW t \in Threads, ExtendHit(t)
  PROVE  UInv'
<1> DEFINE w == wrapper[t]
           text == input[t]
           upto(d) == tokens[t] \o EncodeText(w, Cut(text, at[t], d))
           all(d) == upto(d) \o EncodeText(w, Cut(text, d, Len(text)))
<1>1. TypeOK /\ CountInv(t)
  BY DEF UInv
<1>2. /\ text \in Texts /\ w \in Wrappers /\ pc[t] = "hit" /\ at[t] \in Depths(t)
      /\ tokens[t] = EncodeText(w, Cut(text, 0, at[t]))
  BY DEF ExtendHit, IInv, Types, ThreadInv, TextInv, Depths
<1>3. PICK d \in Depths(t) :
        /\ IsDeepest(d, Depths(t)) /\ Insert(Key(t, d), upto(d))
        /\ tokens' = [tokens EXCEPT ![t] = all(d)]
  BY DEF ExtendHit, Key, Depths
<1>4. pc' = [pc EXCEPT ![t] = "encoded"] /\ UNCHANGED <<wrapper, input, at, todo, cached, calls, evictions>>
  BY DEF ExtendHit, Goto, call
<1>5. d \in 0..Len(text) /\ at[t] \in 0..Len(text) /\ Len(text) \in 0..Len(text) /\ d \in Int
  BY <1>2, <1>3, BoundaryRange, TextTypes DEF Depths
<1>6. /\ upto(d) \in TokenIds /\ all(d) \in TokenIds
      /\ Len(tokens[t]) \in Nat /\ Len(tokens[t]) <= Len(all(d))
  <2>1. /\ tokens[t] \in TokenIds /\ EncodeText(w, Cut(text, at[t], d)) \in TokenIds
        /\ EncodeText(w, Cut(text, d, Len(text))) \in TokenIds
    BY <1>1, <1>2, <1>5, PieceTypes DEF TypeOK
  <2>2. upto(d) \in TokenIds /\ Len(tokens[t]) \in Nat /\ Len(upto(d)) \in Nat /\ Len(tokens[t]) <= Len(upto(d))
    BY <2>1, TokensJoin
  <2>3. all(d) \in TokenIds /\ Len(upto(d)) <= Len(all(d)) /\ Len(all(d)) \in Nat
    BY <2>1, <2>2, TokensJoin
  <2>4. \A l, m, n \in Nat : l <= m /\ m <= n => l <= n
    OBVIOUS
  <2> QED
    BY <2>2, <2>3, <2>4
<1>7. TypeOK'
  <2>1. \A x \in DOMAIN entries' : entries'[x] \in TokenIds
    BY <1>1, <1>3, <1>6, InsertTypes DEF TypeOK
  <2> QED
    BY <1>1, <1>3, <1>4, <1>6, <2>1 DEF TypeOK, Labels, TextLabels, TokenIds, Inputs
<1>8. DOMAIN entries' = DOMAIN entries \union {Key(t, d)}
  BY <1>3, InsertKeeps
<1>9. CountInv(t)'
  <2>1. /\ pc'[t] = "encoded" /\ tokens'[t] = all(d) /\ cached'[t] = cached[t]
        /\ at'[t] = at[t] /\ wrapper'[t] = w /\ input'[t] = text
    BY <1>1, <1>3, <1>4 DEF TypeOK
  <2> QED
    BY <1>1, <1>2, <1>6, <2>1 DEF CountInv
<1>10. DepthInv(t)'
  <2>1. pc'[t] = "encoded" /\ Depths(t)' = Depths(t) /\ \A c : Key(t, c)' = Key(t, c)
    BY <1>1, <1>4 DEF TypeOK, Depths, Key
  <2>2. ASSUME NEW e \in Depths(t), IsDeepest(e, Depths(t)) PROVE e = d
    <3>1. e <= d /\ d <= e /\ e \in Int
      BY <1>2, <1>3, <2>2, BoundaryRange DEF IsDeepest, Depths
    <3> QED
      BY <1>5, <3>1
  <2> QED
    BY <1>8, <2>1, <2>2 DEF DepthInv
<1> QED
  BY <1>1, <1>3, <1>4, <1>7, <1>8, <1>9, <1>10, OneThread DEF TypeOK

LEMMA UsageSegments ==
  ASSUME IInv, UInv, NEW t \in Threads, Segment(t) \/ InsertSegment(t)
  PROVE  UInv'
<1> DEFINE w == wrapper[t]
           k == SegmentKey(w, Here(t))
           ids == EncodeSegment(w, Here(t))
<1>1. TypeOK /\ CountInv(t)
  BY DEF UInv
<1>2. w \in Wrappers /\ input[t] \in Seq(Segments) /\ at[t] \in Nat /\ at[t] < Len(input[t])
  BY CacheConstants DEF Segment, InsertSegment, IInv, Types, ThreadInv, SegmentInv
<1>3. ids \in TokenIds
  BY <1>2, SegmentTypes DEF Here
<1>4. tokens[t] \in TokenIds /\ cached[t] \in Nat /\ cached[t] <= Len(tokens[t])
  BY <1>1 DEF TypeOK, CountInv, Segment, InsertSegment
<1> DEFINE Counts(more, n, l) ==
             /\ tokens' = [tokens EXCEPT ![t] = tokens[t] \o more] /\ n <= Len(more)
             /\ cached' = [cached EXCEPT ![t] = cached[t] + n]
             /\ pc' = [pc EXCEPT ![t] = l] /\ at' \in {at, [at EXCEPT ![t] = at[t] + 1]}
             /\ entries' = entries \/ Insert(k, ids)
<1>5. PICK more \in TokenIds, n \in Nat, l \in {"segments", "insert"} : Counts(more, n, l)
  <2>1. CASE Segment(t) /\ ~Long(Here(t))
    <3>1. 0 <= Len(ids) /\ cached[t] + 0 = cached[t]
      BY <1>3, <1>4 DEF TokenIds
    <3>2. /\ tokens' = [tokens EXCEPT ![t] = tokens[t] \o ids] /\ entries' = entries
          /\ cached' = [cached EXCEPT ![t] = cached[t] + 0] /\ pc' = [pc EXCEPT ![t] = "segments"]
          /\ at' = [at EXCEPT ![t] = at[t] + 1]
      BY <1>1, <2>1, <3>1 DEF Segment, Emit, TypeOK
    <3> QED
      BY <1>3, <3>1, <3>2
  <2>2. CASE Segment(t) /\ Long(Here(t)) /\ k \in DOMAIN entries
    <3>1. entries[k] \in TokenIds /\ Len(entries[k]) \in Nat
      BY <1>1, <2>2 DEF TypeOK, TokenIds
    <3>2. /\ tokens' = [tokens EXCEPT ![t] = tokens[t] \o entries[k]] /\ entries' = entries
          /\ cached' = [cached EXCEPT ![t] = cached[t] + Len(entries[k])]
          /\ pc' = [pc EXCEPT ![t] = "segments"] /\ at' = [at EXCEPT ![t] = at[t] + 1]
      BY <1>1, <2>2 DEF Segment, FromCache, TypeOK
    <3>3. Counts(entries[k], Len(entries[k]), "segments")
      BY <3>1, <3>2
    <3> QED
      BY <3>1, <3>3
  <2>3. CASE Segment(t) /\ Long(Here(t)) /\ k \notin DOMAIN entries
    <3>1. <<>> \in TokenIds /\ Len(<<>>) = 0 /\ tokens[t] \o <<>> = tokens[t] /\ cached[t] + 0 = cached[t]
      BY <1>4 DEF TokenIds
    <3>2. /\ tokens' = [tokens EXCEPT ![t] = tokens[t] \o <<>>] /\ entries' = entries
          /\ cached' = [cached EXCEPT ![t] = cached[t] + 0] /\ pc' = [pc EXCEPT ![t] = "insert"] /\ at' = at
      BY <1>1, <2>3, <3>1 DEF Segment, Goto, TypeOK
    <3>3. Counts(<<>>, 0, "insert")
      BY <3>1, <3>2
    <3> QED
      BY <3>1, <3>3
  <2>4. CASE InsertSegment(t)
    <3>1. 0 <= Len(ids) /\ cached[t] + 0 = cached[t]
      BY <1>3, <1>4 DEF TokenIds
    <3>2. /\ tokens' = [tokens EXCEPT ![t] = tokens[t] \o ids] /\ Insert(k, ids)
          /\ cached' = [cached EXCEPT ![t] = cached[t] + 0] /\ pc' = [pc EXCEPT ![t] = "segments"]
          /\ at' = [at EXCEPT ![t] = at[t] + 1]
      BY <1>1, <2>4, <3>1 DEF InsertSegment, Emit, Goto, TypeOK
    <3> QED
      BY <1>3, <3>1, <3>2
  <2> QED
    BY <2>1, <2>2, <2>3, <2>4
<1>6. UNCHANGED <<wrapper, input, todo, calls, evictions>>
  BY DEF Segment, InsertSegment, call
<1>7. /\ tokens[t] \o more \in TokenIds /\ Len(tokens[t]) \in Nat /\ Len(more) \in Nat
      /\ Len(tokens[t] \o more) = Len(tokens[t]) + Len(more)
  BY <1>4, <1>5, TokensJoin
<1>8. /\ \A x \in DOMAIN entries' : entries'[x] \in TokenIds
      /\ DOMAIN entries \subseteq DOMAIN entries'
  BY <1>1, <1>3, <1>5, InsertTypes, InsertKeeps DEF TypeOK
<1>9. TypeOK'
  BY <1>1, <1>2, <1>4, <1>5, <1>6, <1>7, <1>8 DEF TypeOK, Labels, SegmentLabels, TokenIds, Inputs
<1>10. CountInv(t)' /\ DepthInv(t)'
  <2>1. pc'[t] = l /\ tokens'[t] = tokens[t] \o more /\ cached'[t] = cached[t] + n
    BY <1>1, <1>5 DEF TypeOK
  <2>2. cached'[t] <= Len(tokens'[t])
    BY <1>4, <1>5, <1>7, <2>1
  <2> QED
    BY <1>5, <2>1, <2>2 DEF CountInv, DepthInv
<1> QED
  BY <1>1, <1>5, <1>6, <1>8, <1>9, <1>10, OneThread DEF TypeOK

\* After an eviction nothing is claimed of the depth any more.
LEMMA UsageEvict ==
  ASSUME UInv, NEW k, Evict(k)
  PROVE  UInv'
<1>1. TypeOK /\ UNCHANGED <<pc, wrapper, input, at, todo, tokens, cached, calls>>
  BY DEF UInv, Evict, call, progress
<1>2. evictions' \in Nat /\ evictions' # 0
  BY <1>1 DEF Evict, TypeOK
<1>3. \A x \in DOMAIN entries' : entries'[x] \in TokenIds
  BY <1>1 DEF Evict, TypeOK
<1>4. TypeOK'
  BY <1>1, <1>2, <1>3 DEF TypeOK, Labels, TokenIds, Inputs
<1> QED
  BY <1>1, <1>2, <1>4, UsageFrame DEF UInv

-----------------------------------------------------------------------------
(* encode_segments: the third inductive invariant, on top of the others.   *)

\* The tokens of the first i segments, as SegmentResultsAreExact defines them.
JoinedEquation(joined, w, segs) ==
    joined = [i \in 0..Len(segs) |-> IF i = 0 THEN <<>> ELSE joined[i - 1] \o EncodeSegment(w, segs[i])]

Joined(w, segs) == CHOOSE joined : JoinedEquation(joined, w, segs)

LEMMA ResultsAreJoined ==
  SegmentResultsAreExact <=>
      \A t \in Threads : pc[t] = "joined" => tokens[t] = Joined(wrapper[t], input[t])[Len(input[t])]
BY Zenon DEF SegmentResultsAreExact, Joined, JoinedEquation

IsJoined(joined, w, segs) ==
    /\ joined[0] = <<>>
    /\ \A i \in 0..Len(segs) : i # Len(segs) =>
          joined[i + 1] = joined[i] \o EncodeSegment(w, segs[i + 1])

LEMMA JoinedFacts ==
  ASSUME NEW w \in Wrappers, NEW segs \in Seq(Segments)
  PROVE  IsJoined(Joined(w, segs), w, segs)
<1> DEFINE n == Len(segs)
           D == 0..n
           rank == [i \in D |-> i]
           B == {0}
           base == [i \in D |-> <<>>]
           before == [i \in D |-> IF i = 0 THEN 0 ELSE i - 1]
           ids == [i \in D |-> IF i = 0 THEN <<>> ELSE EncodeSegment(w, segs[i])]
           step == [x \in D \X TokenIds |-> x[2] \o ids[x[1]]]
<1>1. n \in Nat /\ rank \in [D -> 0..n] /\ B \in SUBSET D /\ before \in [D -> D]
  OBVIOUS
<1>2. <<>> \in TokenIds
  BY DEF TokenIds
<1>3. base \in [D -> TokenIds]
  BY <1>2
<1>4. \A i \in D : ids[i] \in TokenIds
  <2>1. \A i \in D : i # 0 => segs[i] \in Segments
    OBVIOUS
  <2> QED
    BY <1>2, <2>1, SegmentTypes
<1>5. step \in [D \X TokenIds -> TokenIds]
  <2> HIDE DEF ids, D
  <2>1. \A i \in D, y \in TokenIds : y \o ids[i] \in TokenIds
    BY <1>4, ConcatProperties DEF TokenIds
  <2> QED
    BY <2>1
<1>6. \A i \in D \ B : rank[before[i]] < rank[i]
  OBVIOUS
<1>7. \E g : Recursive(g, D, TokenIds, B, base, before, step)
  <2> HIDE DEF n, D, rank, B, base, before, step
  <2> QED
    BY <1>1, <1>3, <1>5, <1>6, RecursionExists
<1>8. PICK g : Recursive(g, D, TokenIds, B, base, before, step)
  BY <1>7
<1>9. /\ g \in [D -> TokenIds]
      /\ \A i \in D : g[i] = IF i = 0 THEN <<>> ELSE g[i - 1] \o EncodeSegment(w, segs[i])
  <2>1. g \in [D -> TokenIds] /\ \A i \in D : g[i] = IF i \in B THEN base[i] ELSE step[<<i, g[before[i]]>>]
    BY <1>8 DEF Recursive
  <2>2. ASSUME NEW i \in D, i # 0
        PROVE  g[i] = g[i - 1] \o EncodeSegment(w, segs[i])
    <3>1. before[i] = i - 1 /\ i - 1 \in D /\ i \notin B /\ ids[i] = EncodeSegment(w, segs[i])
      BY <2>2
    <3>2. step[<<i, g[i - 1]>>] = g[i - 1] \o ids[i]
      <4> HIDE DEF ids, D
      <4> QED
        BY <2>1, <3>1
    <3> QED
      BY <2>1, <3>1, <3>2
  <2>3. g[0] = <<>>
    BY <1>1, <2>1
  <2> QED
    BY <2>1, <2>2, <2>3
<1>10. JoinedEquation(g, w, segs)
  BY <1>9 DEF JoinedEquation
<1> DEFINE joined == Joined(w, segs)
<1>11. JoinedEquation(joined, w, segs)
  BY <1>10, Zenon DEF Joined
<1> HIDE DEF joined
<1>12. \A i \in D : joined[i] = IF i = 0 THEN <<>> ELSE joined[i - 1] \o EncodeSegment(w, segs[i])
  BY <1>11 DEF JoinedEquation
<1>13. joined[0] = <<>>
  BY <1>1, <1>12
<1>14. ASSUME NEW i \in 0..n, i # n
       PROVE  joined[i + 1] = joined[i] \o EncodeSegment(w, segs[i + 1])
  <2>1. i + 1 \in D /\ i + 1 # 0 /\ (i + 1) - 1 = i
    BY <1>14
  <2> QED
    BY <1>12, <2>1
<1> QED
  BY <1>13, <1>14 DEF IsJoined, joined

\* Thread t has the tokens of its first `at` segments, exactly.
JoinInv(t) ==
    /\ pc[t] \in {"segments", "insert"} =>
         /\ at[t] \in 0..Len(input[t])
         /\ tokens[t] = Joined(wrapper[t], input[t])[at[t]]
    /\ pc[t] = "joined" => tokens[t] = Joined(wrapper[t], input[t])[Len(input[t])]

JInv == \A t \in Threads : JoinInv(t)

LEMMA JoinOneThread ==
  ASSUME JInv, NEW t \in Threads, JoinInv(t)',
         \A u \in Threads \ {t} : /\ pc'[u] = pc[u] /\ wrapper'[u] = wrapper[u] /\ input'[u] = input[u]
                                  /\ at'[u] = at[u] /\ tokens'[u] = tokens[u]
  PROVE  JInv'
<1>1. ASSUME NEW u \in Threads \ {t} PROVE JoinInv(u)'
  BY <1>1 DEF JInv, JoinInv
<1> QED
  BY <1>1 DEF JInv

LEMMA JoinStart ==
  ASSUME IInv, JInv, NEW t \in Threads, NEW w \in Wrappers, NEW segs \in SegmentLists, StartSegments(t, w, segs)
  PROVE  JInv'
<1>1. /\ pc' = [pc EXCEPT ![t] = "segments"] /\ wrapper' = [wrapper EXCEPT ![t] = w]
      /\ input' = [input EXCEPT ![t] = segs] /\ at' = [at EXCEPT ![t] = 0]
      /\ tokens' = [tokens EXCEPT ![t] = <<>>]
  BY DEF StartSegments, Start, Goto
<1>2. /\ pc'[t] = "segments" /\ wrapper'[t] = w /\ input'[t] = segs /\ at'[t] = 0 /\ tokens'[t] = <<>>
  BY <1>1 DEF IInv, Types
<1>3. Joined(w, segs)[0] = <<>> /\ 0 \in 0..Len(segs)
  <2>1. segs \in Seq(Segments)
    BY CacheConstants
  <2>2. IsJoined(Joined(w, segs), w, segs)
    BY <2>1, JoinedFacts
  <2> QED
    BY <2>1, <2>2 DEF IsJoined
<1>4. JoinInv(t)'
  BY <1>2, <1>3 DEF JoinInv
<1> QED
  BY <1>1, <1>4, JoinOneThread DEF IInv, Types

\* A segment adds its own tokens, found or made.
LEMMA JoinSegment ==
  ASSUME IInv, JInv, NEW t \in Threads, Segment(t) \/ InsertSegment(t)
  PROVE  JInv'
<1> DEFINE w == wrapper[t]
           segs == input[t]
           i == at[t]
           ids == EncodeSegment(w, Here(t))
<1>1. /\ w \in Wrappers /\ Enabled(w) /\ segs \in Seq(Segments) /\ i \in 0..Len(segs) /\ i # Len(segs)
      /\ tokens[t] = Joined(w, segs)[i] /\ i + 1 \in 0..Len(segs) /\ Here(t) \in Segments
  <2>1. pc[t] \in {"segments", "insert"} /\ i < Len(segs)
    BY DEF Segment, InsertSegment, IInv, ThreadInv, SegmentInv
  <2>2. w \in Wrappers /\ Enabled(w) /\ segs \in Seq(Segments)
    BY <2>1, CacheConstants DEF IInv, Types, ThreadInv, SegmentInv
  <2>3. i \in 0..Len(segs) /\ tokens[t] = Joined(w, segs)[i]
    BY <2>1 DEF JInv, JoinInv
  <2>4. i # Len(segs) /\ i + 1 \in 0..Len(segs) /\ i + 1 \in 1..Len(segs)
    BY <2>1, <2>2, <2>3
  <2>5. Here(t) \in Segments
    BY <2>2, <2>4 DEF Here
  <2> QED
    BY <2>2, <2>3, <2>4, <2>5
<1>2. Joined(w, segs)[i + 1] = Joined(w, segs)[i] \o ids
  <2>1. IsJoined(Joined(w, segs), w, segs)
    BY <1>1, JoinedFacts
  <2> QED
    BY <1>1, <2>1 DEF IsJoined, Here
<1>3. wrapper' = wrapper /\ input' = input
  BY DEF Segment, InsertSegment, call
<1>4. \/ pc' = [pc EXCEPT ![t] = "segments"] /\ at' = [at EXCEPT ![t] = i + 1]
         /\ tokens' = [tokens EXCEPT ![t] = tokens[t] \o ids]
      \/ pc' = [pc EXCEPT ![t] = "insert"] /\ at' = at /\ tokens' = tokens
  <2>1. CASE Segment(t) /\ ~ Long(Here(t))
    BY <2>1 DEF Segment, Emit, IInv, Types
  <2>2. CASE Segment(t) /\ Long(Here(t)) /\ SegmentKey(w, Here(t)) \in DOMAIN entries
    <3>1. entries[SegmentKey(w, Here(t))] = ids
      BY <1>1, <2>2 DEF IInv, EntriesAreExact
    <3> QED
      BY <2>2, <3>1 DEF Segment, FromCache, IInv, Types
  <2>3. CASE Segment(t) /\ Long(Here(t)) /\ SegmentKey(w, Here(t)) \notin DOMAIN entries
    BY <2>3 DEF Segment, Goto
  <2>4. CASE InsertSegment(t)
    BY <2>4 DEF InsertSegment, Emit, Goto
  <2> QED
    BY <2>1, <2>2, <2>3, <2>4
<1>5. \/ pc'[t] = "segments" /\ at'[t] = i + 1 /\ tokens'[t] = tokens[t] \o ids
      \/ pc'[t] = "insert" /\ at'[t] = i /\ tokens'[t] = tokens[t]
  BY <1>4 DEF IInv, Types
<1>6. JoinInv(t)'
  BY <1>1, <1>2, <1>3, <1>5 DEF JoinInv
<1> QED
  BY <1>3, <1>4, <1>6, JoinOneThread DEF IInv, Types

LEMMA JoinJoin ==
  ASSUME IInv, JInv, NEW t \in Threads, Join(t)
  PROVE  JInv'
<1>1. pc' = [pc EXCEPT ![t] = "joined"] /\ UNCHANGED <<wrapper, input, at, tokens>>
  BY DEF Join, Goto, call, progress
<1>2. pc'[t] = "joined" /\ tokens[t] = Joined(wrapper[t], input[t])[Len(input[t])]
  BY <1>1 DEF Join, JInv, JoinInv, IInv, Types
<1>3. JoinInv(t)'
  BY <1>1, <1>2 DEF JoinInv
<1> QED
  BY <1>1, <1>3, JoinOneThread DEF IInv, Types

\* Every other step leaves the thread that takes it outside of encode_segments.
LEMMA JoinOthers ==
  ASSUME IInv, JInv, NEW t \in Threads,
         \/ \E w \in Wrappers, text \in Texts : StartText(t, w, text)
         \/ Lookup(t) \/ Miss(t) \/ Populate(t) \/ EncodeTail(t) \/ ExtendHit(t) \/ Fail(t) \/ Return(t)
  PROVE  JInv'
<1>1. pc'[t] \notin {"segments", "insert", "joined"}
  BY DEF StartText, Start, Lookup, Miss, Populate, EncodeTail, ExtendHit, Fail, Return, Goto, FromCache,
         IInv, Types
<1>2. JoinInv(t)'
  BY <1>1 DEF JoinInv
<1>3. \A u \in Threads \ {t} : /\ pc'[u] = pc[u] /\ wrapper'[u] = wrapper[u] /\ input'[u] = input[u]
                               /\ at'[u] = at[u] /\ tokens'[u] = tokens[u]
  <2>1. CASE \E w \in Wrappers, text \in Texts : StartText(t, w, text)
    BY <2>1 DEF StartText, Start, Goto, IInv, Types
  <2>2. CASE Lookup(t)
    BY <2>2 DEF Lookup, FromCache, Goto, call, IInv, Types
  <2>3. CASE Miss(t) \/ Fail(t) \/ Return(t)
    BY <2>3 DEF Miss, Fail, Return, Goto, call, progress, IInv, Types
  <2>4. CASE Populate(t) \/ EncodeTail(t) \/ ExtendHit(t)
    BY <2>4 DEF Populate, EncodeTail, ExtendHit, Emit, Goto, call, IInv, Types
  <2> QED
    BY <2>1, <2>2, <2>3, <2>4
<1> QED
  BY <1>2, <1>3, JoinOneThread

LEMMA NextJInv == IInv /\ JInv /\ [Next]_vars => JInv'
<1> SUFFICES ASSUME IInv, JInv, [Next]_vars PROVE JInv'
  OBVIOUS
<1>1. CASE Next
  <2>1. ASSUME NEW k, Evict(k) PROVE JInv'
    BY <2>1 DEF Evict, call, progress, JInv, JoinInv
  <2> QED
    BY <1>1, <2>1, JoinStart, JoinSegment, JoinJoin, JoinOthers DEF Next, Step
<1>2. CASE UNCHANGED vars
  BY <1>2 DEF vars, call, progress, JInv, JoinInv
<1> QED
  BY <1>1, <1>2

-----------------------------------------------------------------------------
(* The theorems.                                                           *)

LEMMA AlwaysUInv == Spec => []UInv
<1>1. IInv /\ UInv /\ [Next]_vars => UInv'
  <2> SUFFICES ASSUME IInv, UInv, [Next]_vars PROVE UInv'
    OBVIOUS
  <2>1. CASE Next
    BY <2>1, UsageStart, UsageQuiet, UsageLookup, UsagePopulate, UsageTail, UsageExtend, UsageSegments,
      UsageEvict DEF Next, Step
  <2>2. CASE UNCHANGED vars
    BY <2>2, UsageFrame DEF UInv, vars, call, progress, TypeOK, Labels, TokenIds, Inputs
  <2> QED
    BY <2>1, <2>2
<1> QED
  BY <1>1, InitUInv, InductiveInvariant, PTL DEF Spec

\* The variables keep their types; so every entry is a list of token ids.
THEOREM TypeCorrect == Spec => []TypeOK
<1>1. UInv => TypeOK
  BY DEF UInv
<1> QED
  BY <1>1, AlwaysUInv, PTL

\* As long as nothing is evicted, the turn after a call that missed or extends
\* finds the deepest boundary of the text it grew from.
THEOREM DeepestIsCached == Spec => []NextTurnHitsDeepest
<1>1. UInv => NextTurnHitsDeepest
  BY DEF UInv, DepthInv, Depths, Key, NextTurnHitsDeepest
<1> QED
  BY <1>1, AlwaysUInv, PTL

\* The usage reported of a call never exceeds its tokens, and counts exactly the
\* prefix that was not encoded again.
THEOREM UsageReported == Spec => []UsageIsExact
<1>1. UInv => UsageIsExact
  BY DEF UInv, CountInv, UsageIsExact
<1> QED
  BY <1>1, AlwaysUInv, PTL

\* encode_segments returns the tokens of its segments one after the other, each
\* as the inner tokenizer encodes it, whether they were found or made.
THEOREM SegmentsAreTransparent == Spec => []SegmentResultsAreExact
<1>1. Init => JInv
  BY DEF Init, JInv, JoinInv
<1>2. JInv => SegmentResultsAreExact
  BY ResultsAreJoined DEF JInv, JoinInv
<1> QED
  BY <1>1, <1>2, NextJInv, InductiveInvariant, PTL DEF Spec
=============================================================================
