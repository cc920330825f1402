-------------------------- MODULE MCSpecialTokens --------------------------
(***************************************************************************)
(* Every set of at most two special tokens of up to three letters against  *)
(* every text of up to MaxLen letters, grown one letter at a time.         *)
(***************************************************************************)
EXTENDS SpecialTokens

CONSTANTS letterA, letterB, MaxLen

VARIABLES
    markers,  \* the special tokens
    grown     \* the text

Letters == {letterA, letterB}
SpecialStrings == UNION {[1..n -> Letters] : n \in 1..3}

NoLetters ==
    /\ markers \in {{s, u} : s, u \in SpecialStrings}
    /\ grown = <<>>

Grow ==
    /\ Len(grown) < MaxLen
    /\ \E c \in Letters : grown' = Append(grown, c)
    /\ UNCHANGED markers

Growing == NoLetters /\ [][Grow]_<<markers, grown>>

\* Where first_unsafe_overlap accepts a set of special tokens, every boundary
\* boundaries_with finds is a place the inner tokenizer splits as well, whichever
\* token it selects (the module comment of cache/mod.rs, "Correctness").
AcceptedSetsCutSafely ==
    ~ UnsafeOverlap(markers) => \A select \in Selections : CutsAreSafe(select, markers, grown)

\* The overlap test is complete for every boundary the scan can report: no two
\* special occurrences of an accepted set share a letter.
AcceptedSetsNeverShareLetters ==
    ~ UnsafeOverlap(markers) =>
        \A i, j \in 0..Len(grown) : \A s \in Starting(markers, grown, i), u \in Starting(markers, grown, j) :
            i <= j /\ <<i, s>> # <<j, u>> => i + Len(s) <= j
=============================================================================
