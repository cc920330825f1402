---------------------------- MODULE DecodeStream ----------------------------
(***************************************************************************)
(* The incremental detokenizer of a response (tokenizers/src/lib.rs,       *)
(* DecodeStream): the tokens of the model come in one at a time and leave  *)
(* as chunks of text that can never be taken back.                         *)
(***************************************************************************)
EXTENDS Detokenizer

CONSTANTS
    MaxPrompt,  \* bound: prompt tokens
    MaxSteps,   \* bound: generated tokens
    Context     \* INITIAL_INCREMENTAL_DETOKENIZATION_OFFSET

ASSUME StreamConstants == Context \in Nat

VARIABLES
    context,       \* the prompt tokens the stream kept
    all_token_ids,
    has_emitted,
    emitted,       \* every chunk returned so far
    status         \* "streaming", "finished" or "error"

window == <<prefix_offset, read_offset, has_emitted, emitted>>
vars == <<decoder, context, all_token_ids, window, status>>

TypeOK ==
    /\ decoder \in Decoders
    /\ context \in Seq(Tokens) /\ all_token_ids \in Seq(Tokens)
    /\ prefix_offset \in 0..read_offset
    /\ read_offset \in 0..Len(all_token_ids)
    /\ has_emitted \in BOOLEAN
    /\ status \in {"streaming", "finished", "error"}

KeptPrompt(prompt) == IF Len(prompt) > Context THEN SubSeq(prompt, Len(prompt) - Context + 1, Len(prompt)) ELSE prompt

Init ==
    /\ decoder \in Decoders
    /\ \E prompt \in BoundedSeq(Tokens, MaxPrompt) :
        /\ context = KeptPrompt(prompt)
        /\ all_token_ids = context
        /\ prefix_offset = 0
        /\ read_offset = Len(context)
        /\ has_emitted = FALSE
        /\ emitted = <<>>
        /\ status = "streaming"

\* str::floor_char_boundary
FloorCharBoundary(text, n) ==
    CHOOSE i \in 0..n :
        /\ i = Len(text) \/ text[i + 1] \notin Continuations
        /\ \A j \in i + 1..n : j # Len(text) /\ text[j + 1] \in Continuations

\* Mutant: the window loses the tokens that give the next ones their context.
Advance_DropsPrefix(ids) ==
    /\ prefix_offset' = Len(ids)
    /\ read_offset' = Len(ids)
    /\ has_emitted' = TRUE

Advance(ids) ==
    /\ prefix_offset' = read_offset
    /\ read_offset' = Len(ids)
    /\ has_emitted' = TRUE

\* Mutant: a partial suffix stays in the stream when it finishes.
DecodePending_StaysPartial(ids, finishing) ==
    LET prefix == Decode(decoder, SubSeq(ids, prefix_offset + 1, read_offset)).text
        decoded == Decode(decoder, SubSeq(ids, prefix_offset + 1, Len(ids)))
        text == decoded.text
    IN
    /\ IF read_offset # Len(ids) /\ ~ decoded.partial /\ Len(text) > Len(prefix)
       THEN emitted' = emitted \o SubSeq(text, Len(prefix) + 1, Len(text)) /\ Advance(ids)
       ELSE UNCHANGED window
    /\ status' = IF finishing THEN "finished" ELSE status

\* decode_pending over the tokens `ids`.
DecodePending(ids, finishing) ==
    \E prefix \in {Decode(decoder, SubSeq(ids, prefix_offset + 1, read_offset)).text},
       decoded \in {Decode(decoder, SubSeq(ids, prefix_offset + 1, Len(ids)))} :
        LET pending == read_offset # Len(ids)
            text == decoded.text
            complete == ~ decoded.partial \/ finishing
            rewrote == has_emitted /\ complete /\ ~ IsPrefix(prefix, text)
            split == IF has_emitted THEN Len(prefix) ELSE FloorCharBoundary(text, Len(prefix))
        IN
        /\ IF pending /\ ~ rewrote /\ complete /\ Len(text) > Len(prefix)
           THEN emitted' = emitted \o SubSeq(text, split + 1, Len(text)) /\ Advance(ids)
           ELSE UNCHANGED window
        /\ status' = IF pending /\ rewrote THEN "error" ELSE IF finishing THEN "finished" ELSE status

\* Mutant: the suffix is decoded although more bytes may follow.
StepToken_Unguarded(id) ==
    /\ status = "streaming"
    /\ Len(all_token_ids) < Len(context) + MaxSteps
    /\ all_token_ids' = Append(all_token_ids, id)
    /\ DecodePending(Append(all_token_ids, id), FALSE)
    /\ UNCHANGED <<decoder, context>>

StepToken(id) ==
    LET ids == Append(all_token_ids, id) IN
    /\ status = "streaming"
    /\ Len(all_token_ids) < Len(context) + MaxSteps
    /\ all_token_ids' = ids
    /\ IF HasUnstableSuffix(decoder, SubSeq(ids, read_offset + 1, Len(ids)))
       THEN UNCHANGED <<window, status>>
       ELSE DecodePending(ids, FALSE)
    /\ UNCHANGED <<decoder, context>>

Finish ==
    /\ status = "streaming"
    /\ DecodePending(all_token_ids, TRUE)
    /\ UNCHANGED <<decoder, context, all_token_ids>>

Next == Finish \/ \E id \in Tokens : StepToken(id)

Spec == Init /\ [][Next]_vars

-----------------------------------------------------------------------------

Text(ids) == Decode(decoder, ids).text

\* No generated token can turn the prompt into other text.
WholePrompt == ~ EndsInReplacement(Text(context)) /\ ~ HasUnstableSuffix(decoder, context)

\* What the tokens say beyond the prompt.
Generated == SubSeq(Text(all_token_ids), Len(Text(context)) + 1, Len(Text(all_token_ids)))

\* The chunks are always a prefix of the text that decoding everything at once
\* gives: no chunk has to be taken back, repeated or skipped.
ChunksAreAppendOnly == WholePrompt => IsPrefix(emitted, Generated)

\* After finish the chunks are the whole of it ("append its output after all
\* `step` chunks"), whatever was incomplete on the way.
FinishedIsComplete == WholePrompt /\ status = "finished" => emitted = Generated

\* The decoders of the crate never rewrite what has been returned, so no stream
\* ends in the error that guards it.
NeverRewrites == status # "error"

\* A character the prompt began is returned whole when the stream completes it,
\* as the test allows_boundary_recovery_before_generated_text_is_emitted has it:
\* "Rewinding into prompt context is safe because prompt text was not returned".
BoundaryRecovery ==
    LET text == Text(all_token_ids)
        kept == Len(Text(context)) - Len(Replacement)  \* bytes before the replacement
    IN
    /\ status = "finished"
    /\ EndsInReplacement(Text(context))
    /\ kept < Len(text) /\ text[kept + 1] # "R"
    => emitted = SubSeq(text, kept + 1, Len(text))
=============================================================================
