------------------------- MODULE MCTokenizerCache -------------------------
(***************************************************************************)
(* Two threads, a wrapper that extends, one that does not and shares its   *)
(* namespace, one of another tokenizer and one whose special tokens        *)
(* overlap.  Letters a and b; `ab` is the special token of the first two.  *)
(* Before any call, the screen every wrapper rests on: all special tokens  *)
(* and texts of MCSpecialTokens.                                           *)
(***************************************************************************)
EXTENDS TokenizerCache, MCSpecialTokens, TLC

CONSTANTS a, b, c, t1, t2, extends, plain, other, overlapping

MCThreads == {t1, t2}
MCWrappers == {extends, plain, other, overlapping}
MCNamespace == [w \in MCWrappers |-> CASE w = other -> 2 [] w = overlapping -> 3 [] OTHER -> 1]
MCSpecials == [w \in MCWrappers |->
    CASE w = other -> {<<c>>} [] w = overlapping -> {<<a, b>>, <<b, c>>} [] OTHER -> {<<a, b>>}]
MCExtend == [w \in MCWrappers |-> w = extends]
MCChars == {a, b, c}

\* A conversation of three turns, and a text that contains its first turn.
Turn1 == <<a, b, c>>
Turn2 == <<a, b, c, a, b, b>>
Turn3 == <<a, b, c, a, b, b, a, b, c>>
MCTexts == {Turn1, Turn2, Turn3}

\* A trusted and an untrusted segment of the same text, and a short one.
Trusted == [text |-> <<a, b>>, special |-> TRUE]
Untrusted == [text |-> <<a, b>>, special |-> FALSE]
Marker == [text |-> <<c>>, special |-> TRUE]
MCSegments == {Trusted, Untrusted, Marker}
MCSegmentLists == {<<Untrusted, Marker, Trusted>>}

\* Either the wrappers are called, or the screen is tried on tokens and a text.
MCInit ==
    /\ Init
    /\ NoLetters \/ (markers = {} /\ grown = <<>>)

Called == markers = {} /\ Next /\ UNCHANGED <<markers, grown>>
Screened == markers # {} /\ Grow /\ UNCHANGED vars

MCSpec == MCInit /\ [][Called \/ Screened]_<<vars, markers, grown>>

Symmetry == Permutations(MCThreads)
=============================================================================
