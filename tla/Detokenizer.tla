---------------------------- MODULE Detokenizer ----------------------------
(***************************************************************************)
(* What DecodeStream and Sequence need of a tokenizer's decoder.  Decoding *)
(* itself is done by libraries outside the crate: tiktoken concatenates    *)
(* the bytes of its tokens and replaces what is not UTF-8; HuggingFace's   *)
(* ByteFallback decodes a run of byte tokens all or nothing and strips a   *)
(* leading space.  A text is the sequence of its UTF-8 bytes.              *)
(***************************************************************************)
EXTENDS Integers, Sequences, SequencesExt

CONSTANTS
    Decoders,  \* "bytes" is tiktoken's, "fallback" HuggingFace's ByteFallback
    Tokens     \* token ids

\* What both keep of a response: the window of tokens whose text they compare.
VARIABLES
    decoder,  \* the family of the tokenizer's decoder
    prefix_offset,
    read_offset

\* Lead bytes of characters of two, three and four bytes, and what follows them.
Width == [c \in {"L2", "L3", "L4"} |-> IF c = "L2" THEN 2 ELSE IF c = "L3" THEN 3 ELSE 4]
Leads == DOMAIN Width
ByteTokens == Leads \union {"C"}

Replacement == <<"R", "R+", "R+">>  \* U+FFFD, three bytes
Continuations == {"C", "R+"}

\* "word" is the token of an ordinary word with its leading space, "special" a
\* special token that skip_special_tokens leaves out.
WordBytes ==
    [t \in {"a", "b", "end", "word"} |->
        CASE t = "end" -> <<"e">> [] t = "word" -> <<"_", "a">> [] OTHER -> <<t>>]
TokenKinds == DOMAIN WordBytes \union ByteTokens \union {"special"}
Bytes(t) == IF t \in DOMAIN WordBytes THEN WordBytes[t] ELSE IF t = "special" THEN <<>> ELSE <<t>>

ASSUME KnownDecoders == Decoders \subseteq {"bytes", "fallback"} /\ Tokens \subseteq TokenKinds

\* The bytes that tokens are made of.
Symbols == ByteTokens \union {"a", "b", "e", "_"}

\* The continuation bytes after position i, at most n.
Following(bytes, i, n) ==
    CHOOSE k \in 0..n :
        /\ \A j \in 1..k : i + j <= Len(bytes) /\ bytes[i + j] = "C"
        /\ k = n \/ i + k = Len(bytes) \/ bytes[i + k + 1] # "C"

\* String::from_utf8_lossy, with whether every byte was valid.
Lossy(bytes) ==
    LET n == Len(bytes)
        from[i \in 1..n + 1] ==
            IF i = n + 1 THEN [text |-> <<>>, valid |-> TRUE]
            ELSE LET need == IF bytes[i] \in Leads THEN Width[bytes[i]] - 1 ELSE 0
                     k == Following(bytes, i, need)
                     ok == k = need /\ bytes[i] # "C"
                     rest == from[i + k + 1]
                 IN  [text |-> (IF ok THEN SubSeq(bytes, i, i + k) ELSE Replacement) \o rest.text,
                      valid |-> ok /\ rest.valid]
    IN  from[1]

EndsInReplacement(text) == IsSuffix(Replacement, text)

\* The end of the run of byte tokens, or of one other token, that starts at i.
RunEnd(ids, i) ==
    CHOOSE j \in i..Len(ids) :
        /\ j = i \/ \A k \in i..j : ids[k] \in ByteTokens
        /\ ids[i] \notin ByteTokens \/ j = Len(ids) \/ ids[j + 1] \notin ByteTokens
        /\ ids[i] \in ByteTokens \/ j = i

\* A run of byte tokens is text if it is valid, else a replacement per byte.
RunText(ids, i, j) ==
    IF ids[i] \notin ByteTokens THEN Bytes(ids[i])
    ELSE LET run == Lossy(SubSeq(ids, i, j)) IN
         IF run.valid THEN run.text ELSE FlattenSeq([k \in 1..j - i + 1 |-> Replacement])

FallbackText(ids) ==
    LET from[i \in 1..Len(ids) + 1] ==
            IF i = Len(ids) + 1 THEN <<>> ELSE LET j == RunEnd(ids, i) IN RunText(ids, i, j) \o from[j + 1]
        text == from[1]
    IN  IF text # <<>> /\ text[1] = "_" THEN Tail(text) ELSE text

\* What skip_special_tokens leaves.
Kept(ids) == FlattenSeq([i \in DOMAIN ids |-> IF ids[i] = "special" THEN <<>> ELSE <<ids[i]>>])

\* decode(), with skip_special_tokens: the text and whether it is Partial.
Decode(family, ids) ==
    IF family = "bytes"
    THEN LET d == Lossy(FlattenSeq([i \in DOMAIN ids |-> Bytes(ids[i])]))
         IN  [text |-> d.text, partial |-> ~ d.valid /\ EndsInReplacement(d.text)]
    ELSE LET text == FallbackText(Kept(ids))
         IN  [text |-> text, partial |-> EndsInReplacement(text)]

\* has_unstable_suffix: more byte tokens could still turn the run into other text.
HasUnstableSuffix(family, ids) ==
    family = "fallback" /\ Kept(ids) # <<>> /\ Last(Kept(ids)) \in ByteTokens
=============================================================================
