--------------------------- MODULE SpecialTokens ---------------------------
(***************************************************************************)
(* Where the tokenizer cache may cut a text                                *)
(* (tokenizers/src/cache/l1.rs, boundaries_with and first_unsafe_overlap), *)
(* against the inner tokenizer, which is not part of the crate: it selects *)
(* special tokens from the left and merges the text between them as it     *)
(* likes.                                                                  *)
(***************************************************************************)
EXTENDS Integers, Sequences, FiniteSetsExt

\* The text between the positions a and b, `&input[a..b]`.
Cut(text, a, b) == SubSeq(text, a + 1, b)

EndsWith(text, s) == Len(s) <= Len(text) /\ Cut(text, Len(text) - Len(s), Len(text)) = s

\* The ends of all occurrences of special tokens, the end of the text omitted.
Boundaries(specials, text) ==
    {b \in 1..Len(text) - 1 : \E s \in specials : EndsWith(Cut(text, 0, b), s)}

Contains(a, b) == \E i \in Len(b)..Len(a) : EndsWith(Cut(a, 0, i), b)

\* A proper suffix of `a` is a proper prefix of `b`.
Overlaps(a, b) ==
    \E n \in 1..Min({Len(a), Len(b)}) - 1 : Cut(a, Len(a) - n, Len(a)) = Cut(b, 0, n)

TokensCanOverlap(a, b) == Contains(a, b) \/ Contains(b, a) \/ Overlaps(a, b) \/ Overlaps(b, a)

\* Mutant: a token is never compared with itself.
UnsafeOverlap_SkipsItself(specials) == \E a, b \in specials : a # b /\ TokensCanOverlap(a, b)

\* first_unsafe_overlap(specials) is not None.
UnsafeOverlap(specials) ==
    \E a, b \in specials : IF a = b THEN Overlaps(a, a) ELSE TokensCanOverlap(a, b)

-----------------------------------------------------------------------------
(* The inner tokenizer.                                                    *)

\* What it may select where several special tokens start: HuggingFace takes the
\* longest, a regular expression the first listed.
Selections == {"longest", "shortest"}

Starting(specials, text, i) ==
    {s \in specials : Len(s) <= Len(text) - i /\ Cut(text, i, i + Len(s)) = s}

Selected(select, specials, text, i) ==
    LET lengths == {Len(s) : s \in Starting(specials, text, i)}
    IN  IF select = "longest" THEN Max(lengths) ELSE Min(lengths)

\* Token ids stand for the text they encode.  The text between two special
\* tokens is one token, so that no cut inside it goes unnoticed.
Encode(select, specials, text) ==
    LET special(i) == Starting(specials, text, i) # {}
        run[i \in 0..Len(text)] ==  \* the end of the run of ordinary text at i
            IF i = Len(text) \/ special(i) THEN i ELSE run[i + 1]
        from[i \in 0..Len(text)] ==
            IF i = Len(text) THEN <<>>
            ELSE LET j == IF special(i) THEN i + Selected(select, specials, text, i) ELSE run[i]
                 IN  << <<special(i), Cut(text, i, j)>> >> \o from[j]
    IN  from[0]

\* Cutting at the boundaries is safe: the tokens of the pieces are the tokens of
\* the whole, for every prefix that ends at a boundary and for the whole text.
CutsAreSafe(select, specials, text) ==
    LET ends == Boundaries(specials, text) \union {Len(text)}
    IN  \A a \in Boundaries(specials, text) : \A b \in ends :
          a < b => Encode(select, specials, Cut(text, 0, a)) \o Encode(select, specials, Cut(text, a, b))
                       = Encode(select, specials, Cut(text, 0, b))
=============================================================================
