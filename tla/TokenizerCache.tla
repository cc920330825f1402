-------------------------- MODULE TokenizerCache --------------------------
(***************************************************************************)
(* CachedTokenizer over a shared L1 cache (tokenizers/src/cache/mod.rs,    *)
(* l1.rs).  Threads encode texts and segment lists through wrappers that   *)
(* share the entries of their namespace.  Every get and insert of the moka *)
(* cache is a step of its own, and moka evicts entries whenever it likes.  *)
(***************************************************************************)
EXTENDS SpecialTokens

CONSTANTS
    Threads,
    Wrappers,      \* CachedTokenizer values
    Namespace,     \* Namespace[w]
    Specials,      \* Specials[w]: the special tokens of w
    Extend,        \* Extend[w]: with_extend
    Select,        \* what the inner tokenizers select, see SpecialTokens
    Chars,         \* bytes of a text
    Tag,           \* SEGMENT_KEY_TAG, a byte no text contains
    Texts,         \* inputs of encode
    Segments,      \* segments of renderer output
    SegmentLists,  \* inputs of encode_segments
    MinCached,     \* MIN_CACHED_SEGMENT_BYTES
    MaxCalls,      \* bound: encodes started
    MaxEvictions   \* bound: entries evicted

VARIABLES
    entries,    \* the cache: key |-> token ids
    pc,         \* where each thread is
    wrapper,    \* the wrapper of its call
    input,      \* the text or the segments of its call
    at,         \* bytes, or segments, of the input already encoded
    todo,       \* boundaries it has still to look up or to populate
    tokens,     \* token ids so far; when done, the result
    cached,     \* how many of them came from the cache
    calls,      \* encodes started so far
    evictions   \* entries evicted so far

call == <<wrapper, input>>
progress == <<at, todo, tokens, cached>>
vars == <<entries, pc, call, progress, calls, evictions>>

Enabled(w) == Specials[w] # {} /\ ~ UnsafeOverlap(Specials[w])

EncodeText(w, text) == Encode(Select, Specials[w], text)

\* Special tokens are only recognized in a segment that allows them.
EncodeSegment(w, seg) == Encode(Select, IF seg.special THEN Specials[w] ELSE {}, seg.text)

\* Mutant: nothing tells segments from prefixes.
SegmentKey_NoTag(w, seg) == <<Namespace[w], seg.text>>

\* blake3 digests stand for what they hash: the framed namespace and the bytes.
PrefixKey(w, text) == <<Namespace[w], text>>
SegmentKey(w, seg) == <<Namespace[w], <<Tag, seg.special>> \o seg.text>>

Long(seg) == Len(seg.text) >= MinCached

BoundariesOf(w, text) == Boundaries(Specials[w], text)
IsDeepest(d, bs) == \A b \in bs : b <= d

TextLabels == {"lookup", "populate", "hit", "encoded"}
SegmentLabels == {"segments", "insert", "joined"}
Labels == {"idle", "failed"} \union TextLabels \union SegmentLabels
Ended == {"encoded", "joined", "failed"}
TokenIds == Seq(BOOLEAN \X Seq(Chars))
Inputs == Texts \union SegmentLists

TypeOK ==
    /\ \A k \in DOMAIN entries : entries[k] \in TokenIds
    /\ pc \in [Threads -> Labels]
    /\ wrapper \in [Threads -> Wrappers]
    /\ input \in [Threads -> Inputs]
    /\ at \in [Threads -> Nat]
    /\ todo \in [Threads -> SUBSET Nat]
    /\ tokens \in [Threads -> TokenIds]
    /\ cached \in [Threads -> Nat]
    /\ calls \in Nat
    /\ evictions \in Nat

\* A namespace stands for one tokenizer (the contract of new_with_cache), and
\* CachedTokenizer::build drops empty special tokens.
ASSUME CacheConstants ==
    /\ Wrappers # {} /\ Texts # {}
    /\ Select \in Selections
    /\ \A w \in Wrappers : Specials[w] \in SUBSET Seq(Chars) /\ <<>> \notin Specials[w]
    /\ \A w, v \in Wrappers : Namespace[w] = Namespace[v] => Specials[w] = Specials[v]
    /\ Texts \subseteq Seq(Chars)
    /\ \A seg \in Segments : seg.special \in BOOLEAN /\ seg.text \in Seq(Chars)
    /\ SegmentLists \subseteq Seq(Segments)
    /\ Tag \notin Chars
    /\ MinCached \in Nat \ {0}

Init ==
    /\ entries = <<>>
    /\ pc = [t \in Threads |-> "idle"]
    /\ wrapper \in [Threads -> {CHOOSE w \in Wrappers : TRUE}]
    /\ input \in [Threads -> {CHOOSE x \in Texts : TRUE}]
    /\ at = [t \in Threads |-> 0]
    /\ todo = [t \in Threads |-> {}]
    /\ tokens = [t \in Threads |-> <<>>]
    /\ cached = [t \in Threads |-> 0]
    /\ calls = 0
    /\ evictions = 0

Goto(t, l) == pc' = [pc EXCEPT ![t] = l]
Insert(k, ids) == entries' = [x \in DOMAIN entries \union {k} |-> IF x = k THEN ids ELSE entries[x]]
Emit(t, ids) == tokens' = [tokens EXCEPT ![t] = @ \o ids]

\* Mutant: hits are counted instead of tokens.
FromCache_CountsHits(t, k) ==
    /\ tokens' = [tokens EXCEPT ![t] = @ \o entries[k]]
    /\ cached' = [cached EXCEPT ![t] = @ + 1]

FromCache(t, k) ==
    /\ tokens' = [tokens EXCEPT ![t] = @ \o entries[k]]
    /\ cached' = [cached EXCEPT ![t] = @ + Len(entries[k])]

-----------------------------------------------------------------------------
(* Calls.                                                                  *)

Start(t, w, x, l, bs) ==
    /\ pc[t] = "idle"
    /\ calls < MaxCalls
    /\ calls' = calls + 1
    /\ wrapper' = [wrapper EXCEPT ![t] = w]
    /\ input' = [input EXCEPT ![t] = x]
    /\ at' = [at EXCEPT ![t] = 0]
    /\ todo' = [todo EXCEPT ![t] = bs]
    /\ cached' = [cached EXCEPT ![t] = 0]
    /\ Goto(t, l)
    /\ UNCHANGED <<entries, evictions>>

\* A wrapper whose special tokens are missing or overlap passes through.
StartText(t, w, text) ==
    IF Enabled(w)
    THEN Start(t, w, text, "lookup", BoundariesOf(w, text)) /\ tokens' = [tokens EXCEPT ![t] = <<>>]
    ELSE Start(t, w, text, "encoded", {}) /\ tokens' = [tokens EXCEPT ![t] = EncodeText(w, text)]

\* A disabled wrapper passes segments through, too, and touches nothing here.
StartSegments(t, w, segs) ==
    /\ Enabled(w)
    /\ Start(t, w, segs, "segments", {})
    /\ tokens' = [tokens EXCEPT ![t] = <<>>]

\* The inner tokenizer fails.  It always runs before the insert of its step.
Fail(t) ==
    /\ pc[t] \in {"populate", "hit", "segments", "insert"}
    /\ Goto(t, "failed")
    /\ UNCHANGED <<entries, call, progress, calls, evictions>>

\* The locals go with the call.
Return(t) ==
    /\ pc[t] \in Ended
    /\ Goto(t, "idle")
    /\ at' = [at EXCEPT ![t] = 0]
    /\ todo' = [todo EXCEPT ![t] = {}]
    /\ tokens' = [tokens EXCEPT ![t] = <<>>]
    /\ cached' = [cached EXCEPT ![t] = 0]
    /\ UNCHANGED <<entries, call, calls, evictions>>

-----------------------------------------------------------------------------
(* encode: the deepest cached boundary first.                              *)

Lookup(t) ==
    LET key(b) == PrefixKey(wrapper[t], Cut(input[t], 0, b)) IN
    /\ pc[t] = "lookup"
    /\ \E b \in todo[t] :
        /\ IsDeepest(b, todo[t])
        /\ IF key(b) \in DOMAIN entries
           THEN /\ FromCache(t, key(b))
                /\ at' = [at EXCEPT ![t] = b]
                /\ Goto(t, "hit")
                /\ UNCHANGED todo
           ELSE /\ todo' = [todo EXCEPT ![t] = @ \ {b}]
                /\ UNCHANGED <<pc, at, tokens, cached>>
    /\ UNCHANGED <<entries, call, calls, evictions>>

Miss(t) ==
    /\ pc[t] = "lookup"
    /\ todo[t] = {}
    /\ todo' = [todo EXCEPT ![t] = BoundariesOf(wrapper[t], input[t])]
    /\ Goto(t, "populate")
    /\ UNCHANGED <<entries, call, at, tokens, cached, calls, evictions>>

\* Mutant: the segment is cached instead of the whole prefix.
Populate_SegmentOnly(t) ==
    LET w == wrapper[t]
        seg(b) == EncodeText(w, Cut(input[t], at[t], b))
    IN
    /\ pc[t] = "populate"
    /\ \E b \in todo[t] :
        /\ \A c \in todo[t] : b <= c
        /\ Emit(t, seg(b))
        /\ Insert(PrefixKey(w, Cut(input[t], 0, b)), seg(b))
        /\ at' = [at EXCEPT ![t] = b]
        /\ todo' = [todo EXCEPT ![t] = @ \ {b}]
    /\ UNCHANGED <<pc, call, cached, calls, evictions>>

\* populate_boundaries: every boundary gets the tokens of the whole prefix.
Populate(t) ==
    LET w == wrapper[t]
        ids(b) == tokens[t] \o EncodeText(w, Cut(input[t], at[t], b))
    IN
    /\ pc[t] = "populate"
    /\ \E b \in todo[t] :
        /\ \A c \in todo[t] : b <= c
        /\ tokens' = [tokens EXCEPT ![t] = ids(b)]
        /\ Insert(PrefixKey(w, Cut(input[t], 0, b)), ids(b))
        /\ at' = [at EXCEPT ![t] = b]
        /\ todo' = [todo EXCEPT ![t] = @ \ {b}]
    /\ UNCHANGED <<pc, call, cached, calls, evictions>>

Rest(t) == Cut(input[t], at[t], Len(input[t]))

\* The tail of a miss, or of a hit that is as deep as the text allows.
EncodeTail(t) ==
    /\ \/ pc[t] = "populate" /\ todo[t] = {}
       \/ pc[t] = "hit" /\ (Extend[wrapper[t]] => \A b \in BoundariesOf(wrapper[t], input[t]) : b <= at[t])
    /\ Emit(t, EncodeText(wrapper[t], Rest(t)))
    /\ Goto(t, "encoded")
    /\ UNCHANGED <<entries, call, at, todo, cached, calls, evictions>>

\* Mutant: the tail's tokens end up in the entry.
ExtendHit_CachesAll(t) ==
    LET w == wrapper[t]
        upto(d) == tokens[t] \o EncodeText(w, Cut(input[t], at[t], d))
        all(d) == upto(d) \o EncodeText(w, Cut(input[t], d, Len(input[t])))
    IN
    /\ pc[t] = "hit"
    /\ Extend[w]
    /\ \E d \in BoundariesOf(w, input[t]) :
        /\ IsDeepest(d, BoundariesOf(w, input[t])) /\ d > at[t]
        /\ Insert(PrefixKey(w, Cut(input[t], 0, d)), all(d))
        /\ tokens' = [tokens EXCEPT ![t] = all(d)]
    /\ Goto(t, "encoded")
    /\ UNCHANGED <<call, at, todo, cached, calls, evictions>>

\* Mutant: what the hit already had is cached again, under its own key.
ExtendHit_SameDepth(t) ==
    LET w == wrapper[t] IN
    /\ pc[t] = "hit"
    /\ Extend[w] /\ \E d \in BoundariesOf(w, input[t]) : d > at[t]
    /\ Insert(PrefixKey(w, Cut(input[t], 0, at[t])), tokens[t])
    /\ Emit(t, EncodeText(w, Rest(t)))
    /\ Goto(t, "encoded")
    /\ UNCHANGED <<call, at, todo, cached, calls, evictions>>

\* extend_after_match: a shallower hit caches the deepest boundary as well.
ExtendHit(t) ==
    LET w == wrapper[t]
        upto(d) == tokens[t] \o EncodeText(w, Cut(input[t], at[t], d))
    IN
    /\ pc[t] = "hit"
    /\ Extend[w]
    /\ \E d \in BoundariesOf(w, input[t]) :
        /\ IsDeepest(d, BoundariesOf(w, input[t])) /\ d > at[t]
        /\ Insert(PrefixKey(w, Cut(input[t], 0, d)), upto(d))
        /\ tokens' = [tokens EXCEPT ![t] = upto(d) \o EncodeText(w, Cut(input[t], d, Len(input[t])))]
    /\ Goto(t, "encoded")
    /\ UNCHANGED <<call, at, todo, cached, calls, evictions>>

-----------------------------------------------------------------------------
(* encode_segments: long segments are cached whole.                        *)

Here(t) == input[t][at[t] + 1]

\* Short segments are never cached, and a long one may be found.
Segment(t) ==
    LET w == wrapper[t] k == SegmentKey(w, Here(t)) IN
    /\ pc[t] = "segments"
    /\ at[t] < Len(input[t])
    /\ \/ /\ ~ Long(Here(t))
          /\ Emit(t, EncodeSegment(w, Here(t)))
          /\ at' = [at EXCEPT ![t] = @ + 1]
          /\ UNCHANGED <<pc, cached>>
       \/ /\ Long(Here(t)) /\ k \in DOMAIN entries
          /\ FromCache(t, k)
          /\ at' = [at EXCEPT ![t] = @ + 1]
          /\ UNCHANGED pc
       \/ /\ Long(Here(t)) /\ k \notin DOMAIN entries
          /\ Goto(t, "insert")
          /\ UNCHANGED <<at, tokens, cached>>
    /\ UNCHANGED <<entries, call, todo, calls, evictions>>

InsertSegment(t) ==
    LET ids == EncodeSegment(wrapper[t], Here(t)) IN
    /\ pc[t] = "insert"
    /\ Emit(t, ids)
    /\ Insert(SegmentKey(wrapper[t], Here(t)), ids)
    /\ at' = [at EXCEPT ![t] = @ + 1]
    /\ Goto(t, "segments")
    /\ UNCHANGED <<call, todo, cached, calls, evictions>>

Join(t) ==
    /\ pc[t] = "segments"
    /\ at[t] = Len(input[t])
    /\ Goto(t, "joined")
    /\ UNCHANGED <<entries, call, progress, calls, evictions>>

-----------------------------------------------------------------------------

Evict(k) ==
    /\ evictions < MaxEvictions
    /\ evictions' = evictions + 1
    /\ entries' = [x \in DOMAIN entries \ {k} |-> entries[x]]
    /\ UNCHANGED <<pc, call, progress, calls>>

Step(t) ==
    \/ Lookup(t) \/ Miss(t) \/ Populate(t) \/ EncodeTail(t) \/ ExtendHit(t)
    \/ Segment(t) \/ InsertSegment(t) \/ Join(t)
    \/ Fail(t) \/ Return(t)

Next ==
    \/ \E t \in Threads : Step(t)
    \/ \E t \in Threads, w \in Wrappers :
        \/ \E text \in Texts : StartText(t, w, text)
        \/ \E segs \in SegmentLists : StartSegments(t, w, segs)
    \/ \E k \in DOMAIN entries : Evict(k)

Spec == Init /\ [][Next]_vars

-----------------------------------------------------------------------------

\* Whatever the cache held, forgot or was taught meanwhile by other threads and
\* other wrappers, encode returns what the inner tokenizer would have.
TextResultsAreExact ==
    \A t \in Threads : pc[t] = "encoded" => tokens[t] = EncodeText(wrapper[t], input[t])

\* The same of encode_segments, segment by segment.
SegmentResultsAreExact ==
    \A t \in Threads : pc[t] = "joined" =>
        LET joined[i \in 0..Len(input[t])] ==
              IF i = 0 THEN <<>> ELSE joined[i - 1] \o EncodeSegment(wrapper[t], input[t][i])
        IN  tokens[t] = joined[Len(input[t])]

\* An entry is the exact encoding of what its key names, under the tokenizer of
\* its namespace, also while calls fail half way.
EntriesAreExact ==
    \A w \in Wrappers : Enabled(w) =>
        /\ \A text \in Texts : \A b \in BoundariesOf(w, text) :
             LET k == PrefixKey(w, Cut(text, 0, b)) IN
             k \in DOMAIN entries => entries[k] = EncodeText(w, Cut(text, 0, b))
        /\ \A seg \in Segments :
             SegmentKey(w, seg) \in DOMAIN entries => entries[SegmentKey(w, seg)] = EncodeSegment(w, seg)

\* "A growing multi-turn conversation hits deeper than the last": nothing
\* evicted, a call that missed or extends leaves its deepest boundary cached.
NextTurnHitsDeepest ==
    \A t \in Threads :
        LET w == wrapper[t] IN
        /\ pc[t] = "encoded" /\ Enabled(w)
        /\ cached[t] = 0 \/ Extend[w]
        /\ evictions = 0
        => \A d \in BoundariesOf(w, input[t]) :
             IsDeepest(d, BoundariesOf(w, input[t])) =>
                PrefixKey(w, Cut(input[t], 0, d)) \in DOMAIN entries

\* observe_token_usage never underflows, and what it reports as cached is the
\* encoding of the prefix that was not encoded again.
UsageIsExact ==
    \A t \in Threads :
        /\ pc[t] \in {"encoded", "joined"} => cached[t] <= Len(tokens[t])
        /\ pc[t] = "encoded" /\ cached[t] # 0 =>
             cached[t] = Len(EncodeText(wrapper[t], Cut(input[t], 0, at[t])))
=============================================================================
