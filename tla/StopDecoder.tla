---------------------------- MODULE StopDecoder ----------------------------
(***************************************************************************)
(* StopSequenceDecoder over Sequence (tokenizers/src/lib.rs): decodes one  *)
(* token at a time, holds text that may become a stop sequence back, and   *)
(* stops at stop tokens and stop sequences.                                *)
(***************************************************************************)
EXTENDS Detokenizer

CONSTANTS
    StopSequences,  \* stop_sequences_hidden, in the order they were added
    VisibleIds,     \* stop_token_ids_visible
    HiddenIds,      \* stop_token_ids_hidden
    MaxTokens       \* bound: tokens of a sequence

ASSUME StopConstants == StopSequences \in Seq(Seq(Symbols))

VARIABLES
    token_ids,      \* Sequence
    state,          \* the jailed text
    stopped,        \* "no", "token", "sequence" or "closed"
    returned        \* every text returned so far

offsets == <<prefix_offset, read_offset>>
stop_vars == <<decoder, token_ids, offsets, state, stopped, returned>>

StopTypeOK ==
    /\ decoder \in Decoders
    /\ token_ids \in Seq(Tokens)
    /\ prefix_offset \in 0..read_offset
    /\ read_offset \in 0..Len(token_ids)
    /\ stopped \in {"no", "token", "sequence", "closed"}

StopInit ==
    /\ decoder \in Decoders
    /\ token_ids = <<>> /\ prefix_offset = 0 /\ read_offset = 0
    /\ state = <<>> /\ stopped = "no" /\ returned = <<>>

\* replace('\u{FFFD}', "")
Clean(text) == FlattenSeq([i \in DOMAIN text |-> IF text[i] \in {"R", "R+"} THEN <<>> ELSE <<text[i]>>])

SplitPoint(text, n) ==
    CHOOSE i \in 0..n :
        /\ i = 0 \/ i = Len(text) \/ (i < Len(text) /\ text[i + 1] \notin Continuations)
        /\ \A j \in i + 1..n : j # Len(text) /\ (j > Len(text) \/ text[j + 1] \in Continuations)

\* Mutant: a partial character is returned at once.
SequenceText_Eager(ids) ==
    LET prefix == Decode(decoder, SubSeq(ids, prefix_offset + 1, read_offset)).text
        text == Decode(decoder, SubSeq(ids, prefix_offset + 1, Len(ids))).text
    IN  IF Len(text) > Len(prefix)
        THEN [new |-> Clean(SubSeq(text, SplitPoint(text, Len(prefix)) + 1, Len(text))), advance |-> TRUE]
        ELSE [new |-> <<>>, advance |-> FALSE]

\* Sequence::append_token_id: the text that the last token of `ids` completes.
SequenceText(ids) ==
    LET prefix == Decode(decoder, SubSeq(ids, prefix_offset + 1, read_offset)).text
        decoded == Decode(decoder, SubSeq(ids, prefix_offset + 1, Len(ids)))
        text == decoded.text
    IN  IF Len(text) > Len(prefix) /\ ~ decoded.partial
        THEN [new |-> Clean(SubSeq(text, SplitPoint(text, Len(prefix)) + 1, Len(text))), advance |-> TRUE]
        ELSE [new |-> <<>>, advance |-> FALSE]

\* The first stop sequence that the jailed text begins decides.
Match(held) ==
    LET begun == {i \in DOMAIN StopSequences : IsPrefix(held, StopSequences[i])}
        first == Min(begun)
    IN  IF begun = {} THEN "none" ELSE IF StopSequences[first] = held THEN "stop" ELSE "held"

\* Mutant: a hidden stop token is treated as a visible one.
StopToken_Visible(id, held) ==
    /\ id \in VisibleIds \union HiddenIds
    /\ stopped' = "token"
    /\ state' = <<>>
    /\ returned' = returned \o held

StopToken(id, held) ==
    /\ id \in VisibleIds \union HiddenIds
    /\ stopped' = "token"
    /\ state' = <<>>
    /\ returned' = IF id \in HiddenIds THEN returned ELSE returned \o held

\* Mutant: a matched stop sequence is returned.
Judge_ReturnsStop(held) ==
    \/ Match(held) = "stop" /\ stopped' = "sequence" /\ state' = held /\ returned' = returned \o held
    \/ Match(held) = "held" /\ state' = held /\ UNCHANGED <<stopped, returned>>
    \/ Match(held) = "none" /\ state' = <<>> /\ returned' = returned \o held /\ UNCHANGED stopped

\* Stopped, Held or Text.
Judge(held) ==
    \/ Match(held) = "stop" /\ stopped' = "sequence" /\ state' = held /\ UNCHANGED returned
    \/ Match(held) = "held" /\ state' = held /\ UNCHANGED <<stopped, returned>>
    \/ Match(held) = "none" /\ state' = <<>> /\ returned' = returned \o held /\ UNCHANGED stopped

Offsets(ids, advance) ==
    /\ prefix_offset' = IF advance THEN read_offset ELSE prefix_offset
    /\ read_offset' = IF advance THEN Len(ids) ELSE read_offset

\* A stopped decoder refuses further tokens and changes nothing.
AppendTokenId(id) ==
    LET ids == Append(token_ids, id) IN
    /\ stopped = "no"
    /\ Len(token_ids) < MaxTokens
    /\ token_ids' = ids /\ UNCHANGED decoder
    /\ \E text \in {SequenceText(ids)} :
        LET held == state \o text.new IN
        /\ Offsets(ids, text.advance)
        /\ IF id \in VisibleIds \union HiddenIds THEN StopToken(id, held) ELSE Judge(held)

Close ==
    /\ stopped = "no"
    /\ stopped' = "closed"
    /\ UNCHANGED <<decoder, token_ids, offsets, state, returned>>

StopNext == Close \/ \E id \in Tokens : AppendTokenId(id)

StopSpec == StopInit /\ [][StopNext]_stop_vars

-----------------------------------------------------------------------------

\* The text of tokens, without what is not a character.
TextOf(ids) == Clean(Decode(decoder, ids).text)
AllText == TextOf(token_ids)

\* A hidden stop token is the only end that does not say what it dropped.
HiddenStop == stopped = "token" /\ Last(token_ids) \in HiddenIds

\* What a jail can hold while no sequence has been matched.
StopBeginnings ==
    {<<>>} \union UNION {{SubSeq(stop, 1, n) : n \in 0..Len(stop) - 1} : stop \in Range(StopSequences)}

\* Until a hidden stop token ends the response, what has been returned and what is in
\* the jail are the text so far.
TextIsKept == ~ HiddenStop => returned \o state = AllText

\* A hidden stop token takes its own text with it and the beginning of a stop sequence
\* that was in the jail (append_token_id empties the jail), but no other letter of the
\* tokens before it.
HiddenStopDropsOnlyTheJail ==
    HiddenStop => \E held \in StopBeginnings : returned \o held = TextOf(Front(token_ids))

\* "text jail": each character comes once and in order, until and unless it is in the
\* jail when a hidden stop token arrives.  A visible stop token, a closed decoder and a
\* matched sequence lose nothing: what is pending has no text of its own.  Where a
\* response stops is StopWordsTriggerAStop.
JailLosesNothing == TextIsKept /\ HiddenStopDropsOnlyTheJail

\* "On matched stop sequence, we do NOT return the jailed stop sequence": what was
\* returned is exactly the text before it.
StopSequenceIsHidden ==
    stopped = "sequence" => \E i \in DOMAIN StopSequences : returned \o StopSequences[i] = AllText

\* "The presence of any one of these should trigger a stop": no stop sequence is in
\* the text of a response that goes on.  append_token_id compares the whole jail with
\* the stop sequences, so one that begins inside the jail, or inside a token, passes.
StopWordsTriggerAStop ==
    stopped = "no" =>
        \A stop \in Range(StopSequences), k, n \in 1..Len(returned) : SubSeq(returned, k, n) # stop
=============================================================================
