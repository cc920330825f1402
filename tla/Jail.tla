-------------------------------- MODULE Jail --------------------------------
(***************************************************************************)
(* The tool-call jail of parsers v1 (parsers/v1/src/tool_calling/jail) for *)
(* a marker-based JSON family (hermes): it holds back the text of a choice *)
(* from the start marker of a tool call on, replaces it by the parsed      *)
(* calls at the end marker, and gives each choice its finish reason.       *)
(*                                                                         *)
(* A text is a sequence of letters: a marker is several letters, because a *)
(* chunk may split it; "{" stands for a body up to its closing braces "}". *)
(* Not modelled: logprobs, whitespace, guided decoding, the terminal       *)
(* marker policy (only kimi_k3 has one) and blank-content holding.         *)
(***************************************************************************)
EXTENDS Integers, Sequences, FiniteSets, SequencesExt, FiniteSetsExt

CONSTANTS
    Indices,       \* the choices of the response
    Inputs,        \* what the engine may generate: functions from Indices to texts
    MaxReasoning   \* bound: chunks with reasoning per choice

StartMarker == <<"<", "tool", ">">>
EndMarker == <<"</", "end">>
Call == StartMarker \o <<"{", "}">> \o EndMarker

Letters == {"<", "tool", ">", "{", "}", "</", "end", "x", "("}
EngineReasons == {"stop", "length"}
FinishReasons == EngineReasons \union {"tool_calls"}
None == "none"

ASSUME JailConstants == Inputs \subseteq [Indices -> Seq(Letters)] /\ MaxReasoning \in Nat

VARIABLES
    input,        \* the text the engine generates for each choice
    pos,          \* how much of it has been streamed
    engineFinish, \* the finish reason the engine sent
    reasoned,     \* the reasoning the engine sent
    state,        \* ChoiceJailState
    out,          \* what the client got: letters, "call", "reasoning", finish reasons
    terminated,   \* fix_finish_reason: choices whose finish reason it saw
    synthesized,  \* fix_finish_reason: choices it ended itself
    phase         \* "streaming", "usage" after the usage-only chunk, "ended"

engine == <<input, pos, engineFinish, reasoned>>
vars == <<engine, state, out, terminated, synthesized, phase>>

InitialState ==
    [is_jailed |-> FALSE, accumulated |-> <<>>, partial |-> <<>>, searched |-> 0,
     finish |-> None, reasoning |-> 0]

Init ==
    /\ input \in Inputs
    /\ pos = [c \in Indices |-> 0]
    /\ engineFinish = [c \in Indices |-> None]
    /\ reasoned = [c \in Indices |-> 0]
    /\ state = [c \in Indices |-> InitialState]
    /\ out = [c \in Indices |-> <<>>]
    /\ terminated = {} /\ synthesized = {}
    /\ phase = "streaming"

-----------------------------------------------------------------------------
(* Searching a text *)

\* The places at or after `from` where a pattern occurs.
Places(text, pattern, from) ==
    {i \in from..Len(text) - Len(pattern) + 1 : SubSeq(text, i, i + Len(pattern) - 1) = pattern}
Occurs(text, pattern) == Places(text, pattern, 1) # {}
Before(text, i) == SubSeq(text, 1, i - 1)
From(text, i) == SubSeq(text, i, Len(text))

\* A text with no markers but those of whole calls; the engine may stop before its end.
WellFormed(text) ==
    /\ \A i \in Places(text, StartMarker, 1) : i \in Places(text, Call, 1)
    /\ \A i \in Places(text, EndMarker, 1) : i + Len(EndMarker) - Len(Call) \in Places(text, Call, 1)

ASSUME CallsAreValid == \A texts \in Inputs : \A c \in Indices : WellFormed(texts[c])

\* The suffixes of a text that a later chunk may complete to a start marker.
PartialPlaces(text) == {i \in 1..Len(text) : IsStrictPrefix(From(text, i), StartMarker)}

\* MarkerMatcher::process_chunk
Match(text) ==
    IF Occurs(text, StartMarker)
    THEN LET i == Min(Places(text, StartMarker, 1))
         IN  [kind |-> "complete", prefix |-> Before(text, i), rest |-> From(text, i)]
    ELSE IF PartialPlaces(text) # {}
    THEN LET i == Min(PartialPlaces(text))
         IN  [kind |-> "partial", prefix |-> Before(text, i), rest |-> From(text, i)]
    ELSE [kind |-> "none", prefix |-> text, rest |-> <<>>]

\* should_start_jail: markers, three letters of one, or an opening brace ("(" is
\* one in prose that opens no call).
ShouldStartJail(text) ==
    \/ Occurs(text, <<"<", "tool">>)
    \/ IsSuffix(<<"<">>, text)
    \/ Occurs(text, <<"{">>) \/ Occurs(text, <<"(">>)

-----------------------------------------------------------------------------
(* The family's parser; the bodies the engine generates are valid JSON *)

\* extract_tool_call_content: how many start-to-end blocks a text has.
ClosedCalls(text) ==
    LET from[i \in 1..Len(text) + 1] ==
            LET s == Places(text, StartMarker, i)
                e == Places(text, EndMarker, Min(s) + Len(StartMarker))
            IN  IF s = {} THEN 0 ELSE IF e = {} THEN 0 ELSE 1 + from[Min(e) + Len(EndMarker)]
    IN  from[1]

\* try_parse_normal_text, or the text itself where there is no call to strip.
NormalText(text) ==
    IF Occurs(text, StartMarker) THEN Before(text, Min(Places(text, StartMarker, 1))) ELSE text

\* Mutant: the finalize parse stops after the first call.
RecoveredCalls_OnlyFirst(text) == Min({1, ClosedCalls(text)})

\* The finalize parse, which also takes one call that was never closed and
\* repairs its JSON, but not if something follows the JSON.
RecoveredCalls(text) ==
    IF ClosedCalls(text) > 0 \/ ~ Occurs(text, StartMarker) THEN ClosedCalls(text)
    ELSE IF From(text, Len(NormalText(text)) + Len(StartMarker) + 1) \in {<<"{">>, <<"{", "}">>} THEN 1 ELSE 0

\* find_tool_call_end_position: after the first call and those right behind it.
EndPosition(text) ==
    LET after[i \in 1..Len(text) + 1] ==
            LET e == Places(text, EndMarker, i)
            IN  IF i \in Places(text, StartMarker, i) /\ e # {} THEN after[Min(e) + Len(EndMarker)] ELSE i - 1
    IN  after[Min(Places(text, EndMarker, 1)) + Len(EndMarker)]

-----------------------------------------------------------------------------
(* One chunk of one choice: [state, emissions] to [state, emissions] *)

Emission(kind, text, calls) == [kind |-> kind, text |-> text, calls |-> calls, reasoning |-> 0, finish |-> None]
Emit(r, e) == [r EXCEPT !.emissions = Append(@, e)]
EmitText(r, kind, text) == IF text = <<>> THEN r ELSE Emit(r, Emission(kind, text, 0))
Hold(r, text) == [r EXCEPT !.state.partial = text]

BeginJail(r, text) ==
    [r EXCEPT !.state = [@ EXCEPT !.is_jailed = TRUE, !.accumulated = text, !.partial = <<>>, !.searched = 0]]

EndJail(r) == [r EXCEPT !.state = [@ EXCEPT !.is_jailed = FALSE, !.accumulated = <<>>, !.searched = 0]]

\* A call that follows at once is jailed again, but only looked at when the next
\* chunk comes.
HandleTrailing(r, content) ==
    LET text == r.state.partial \o content
        m == Match(text)
        clear == Hold(r, <<>>)
    IN  IF content = <<>> THEN r
        ELSE IF m.kind = "complete" THEN BeginJail(EmitText(clear, "trailing", m.prefix), m.rest)
        ELSE IF m.kind = "partial" THEN Hold(EmitText(clear, "trailing", m.prefix), m.rest)
        ELSE IF ShouldStartJail(text) THEN BeginJail(clear, text)
        ELSE EmitText(clear, "trailing", text)

\* Mutant: nothing is rescanned.
NewEndMarkers_NoOverlap(s) == Places(s.accumulated, EndMarker, s.searched + 1)

\* find_incremental_end_marker rescans only what may hold a split end marker.
NewEndMarkers(s) == Places(s.accumulated, EndMarker, Max({0, s.searched - (Len(EndMarker) - 1)}) + 1)

\* Mutant: what follows the completed calls is forgotten.
EmitCompleted_DropsTrailing(r, split) ==
    LET region == SubSeq(r.state.accumulated, 1, split)
    IN  EndJail(Emit(r, Emission("call", NormalText(region), ClosedCalls(region))))

\* emit_completed_jail
EmitCompleted(r, split) ==
    LET region == SubSeq(r.state.accumulated, 1, split)
        done == EndJail(Emit(r, Emission("call", NormalText(region), ClosedCalls(region))))
    IN  HandleTrailing(done, From(r.state.accumulated, split + 1))

\* check_jail_completion; the family's parser takes no call before its end marker,
\* so the balanced-JSON check adds nothing.
TryComplete(r) ==
    LET text == r.state.accumulated IN
    IF NewEndMarkers(r.state) = {} THEN [r EXCEPT !.state.searched = Len(text)]
    ELSE EmitCompleted(r, EndPosition(text))

ProcessContent(s, content) ==
    LET r == [state |-> s, emissions |-> <<>>]
        text == s.partial \o content
        m == Match(text)
    IN  IF s.is_jailed THEN TryComplete([r EXCEPT !.state.accumulated = @ \o content])
        ELSE IF m.kind = "complete" THEN TryComplete(BeginJail(EmitText(r, "pass", m.prefix), m.rest))
        ELSE IF m.kind = "partial" THEN Hold(EmitText(r, "pass", m.prefix), m.rest)
        ELSE IF ShouldStartJail(text) THEN BeginJail(r, text)
        ELSE IF s.reasoning > 0 THEN Emit(Hold(r, <<>>), Emission("pass", text, 0))
        ELSE EmitText(Hold(r, <<>>), "pass", text)

HasDeferredOutput(s) == s.is_jailed \/ s.partial # <<>>

\* Mutant: a choice that still holds text gets its finish reason.
Normalize_IgnoresDeferred(r, finish) ==
    LET n == Len(r.emissions) IN
    IF finish = None \/ n = 0 THEN r ELSE [r EXCEPT !.emissions[n].finish = finish]

\* normalize_terminal_emissions: one emission, the last, carries the engine's
\* finish reason, unless finalize will.
Normalize(r, finish) ==
    LET n == Len(r.emissions) IN
    IF finish = None \/ HasDeferredOutput(r.state) THEN r
    ELSE IF n = 0 THEN Emit(r, [Emission("pass", <<>>, 0) EXCEPT !.finish = finish])
    ELSE [r EXCEPT !.emissions[n].finish = finish]

\* The reasoning that waited rides on the first emission.
AttachReasoning(r) ==
    IF r.emissions = <<>> THEN r
    ELSE [r EXCEPT !.emissions[1].reasoning = r.state.reasoning, !.state.reasoning = 0]

\* Mutant: only the chunk that carries a call gets tool_calls.
Deliver_ThisChunk(sofar, e) ==
    LET body == sofar \o [i \in 1..e.reasoning |-> "reasoning"] \o e.text \o [i \in 1..e.calls |-> "call"]
    IN  IF e.finish = None THEN body
        ELSE Append(body, IF e.finish = "stop" /\ e.calls > 0 THEN "tool_calls" ELSE e.finish)

\* What the client sees of an emission, its stop turned to tool_calls by
\* fix_finish_reason if the choice has had a call.
Deliver(sofar, e) ==
    LET body == sofar \o [i \in 1..e.reasoning |-> "reasoning"] \o e.text \o [i \in 1..e.calls |-> "call"]
    IN  IF e.finish = None THEN body
        ELSE Append(body, IF e.finish = "stop" /\ Contains(body, "call") THEN "tool_calls" ELSE e.finish)

\* The emissions of one bucket, in the order they were made.
YieldBucket(sofar, emissions, kind) ==
    LET yielded[n \in 0..Len(emissions)] ==
            IF n = 0 THEN sofar
            ELSE IF emissions[n].kind = kind THEN Deliver(yielded[n - 1], emissions[n]) ELSE yielded[n - 1]
    IN  yielded[Len(emissions)]

\* The three buckets in which apply() yields the emissions of a chunk.
YieldAll(sofar, emissions) ==
    YieldBucket(YieldBucket(YieldBucket(sofar, emissions, "pass"), emissions, "call"), emissions, "trailing")

Yield(c, r) ==
    /\ state' = [state EXCEPT ![c] = r.state]
    /\ out' = [out EXCEPT ![c] = YieldAll(@, r.emissions)]
    /\ terminated' = terminated \union
           {d \in {c} : \E i \in DOMAIN r.emissions : r.emissions[i].finish # None}

-----------------------------------------------------------------------------
(* The chunks of the engine.  Its text may stop anywhere (length, or a cancel), *)
(* its finish reason comes with the last text, in a chunk of its own, or never. *)

Send(c, n, why, reasons) ==
    /\ phase = "streaming" /\ engineFinish[c] = None
    /\ pos[c] + n <= Len(input[c])
    /\ why = "stop" => pos[c] + n = Len(input[c])
    /\ reasons => reasoned[c] < MaxReasoning
    /\ pos' = [pos EXCEPT ![c] = @ + n]
    /\ engineFinish' = [engineFinish EXCEPT ![c] = why]
    /\ reasoned' = [reasoned EXCEPT ![c] = @ + (IF reasons THEN 1 ELSE 0)]
    /\ UNCHANGED <<input, synthesized, phase>>

\* A chunk with content; only a last one may be empty.
Content(c) ==
    \E n \in 0..Len(input[c]), why \in EngineReasons \union {None}, reasons \in BOOLEAN :
        /\ n > 0 \/ why # None
        /\ Send(c, n, why, reasons)
        /\ LET s == [state[c] EXCEPT !.finish = why, !.reasoning = @ + (IF reasons THEN 1 ELSE 0)]
               text == SubSeq(input[c], pos[c] + 1, pos[c] + n)
           IN  Yield(c, AttachReasoning(Normalize(ProcessContent(s, text), why)))

\* A chunk without content: its finish reason waits for the buffered text.
Contentless(c) ==
    \E why \in EngineReasons \union {None}, reasons \in BOOLEAN :
        /\ reasons \/ why # None
        /\ Send(c, 0, why, reasons)
        /\ LET s == [state[c] EXCEPT !.finish = IF why = None THEN @ ELSE why]
               pass == [Emission("pass", <<>>, 0) EXCEPT
                           !.reasoning = s.reasoning + (IF reasons THEN 1 ELSE 0),
                           !.finish = IF HasDeferredOutput(s) THEN None ELSE why]
           IN  Yield(c, IF reasons \/ ~ HasDeferredOutput(s)
                        THEN [state |-> [s EXCEPT !.reasoning = 0], emissions |-> <<pass>>]
                        ELSE [state |-> s, emissions |-> <<>>])

\* The choices fix_finish_reason must end itself, given what was delivered.
Unterminated(delivered, ended) ==
    {c \in Indices : Contains(delivered[c], "call") /\ c \notin ended \union synthesized}

Synthesize(delivered, ended) ==
    /\ synthesized' = synthesized \union Unterminated(delivered, ended)
    /\ out' = [c \in Indices |->
                  IF c \in Unterminated(delivered, ended) THEN Append(delivered[c], "tool_calls") ELSE delivered[c]]

\* The usage-only chunk, which has no choices.
Usage ==
    /\ phase = "streaming"
    /\ \A c \in Indices : engineFinish[c] # None \/ pos[c] = Len(input[c])
    /\ phase' = "usage"
    /\ Synthesize(out, terminated)
    /\ UNCHANGED <<engine, state, terminated>>

\* Mutant: the reasoning collected while jailed is not released.
Finalize_ForgetsReasoning(s) ==
    LET final == [Emission("call", s.partial, 0) EXCEPT !.finish = s.finish] IN
    IF s.is_jailed
    THEN <<[final EXCEPT !.text = NormalText(s.accumulated), !.calls = RecoveredCalls(s.accumulated)]>>
    ELSE IF s.partial # <<>> THEN <<final>> ELSE <<>>

\* finalize
Finalize(s) ==
    LET final == [Emission("call", s.partial, 0) EXCEPT !.reasoning = s.reasoning, !.finish = s.finish] IN
    IF s.is_jailed
    THEN <<[final EXCEPT !.text = NormalText(s.accumulated), !.calls = RecoveredCalls(s.accumulated)]>>
    ELSE IF s.partial # <<>> THEN <<final>> ELSE <<>>

\* The stream ends: every choice is finalized, then fix_finish_reason's backstop.
EndOfStream ==
    /\ phase # "ended"
    /\ phase' = "ended"
    /\ LET last == [c \in Indices |-> Finalize(state[c])]
           ended == terminated \union {c \in Indices : last[c] # <<>> /\ state[c].finish # None}
       IN  /\ terminated' = ended
           /\ Synthesize([c \in Indices |-> YieldAll(out[c], last[c])], ended)
           /\ state' = [c \in Indices |->
                  IF last[c] = <<>> THEN state[c] ELSE [InitialState EXCEPT !.finish = state[c].finish]]
    /\ UNCHANGED engine

Next ==
    \/ \E c \in Indices : Content(c)
    \/ \E c \in Indices : Contentless(c)
    \/ Usage
    \/ EndOfStream

Spec == Init /\ [][Next]_vars

-----------------------------------------------------------------------------

TypeOK ==
    /\ pos \in [Indices -> Nat] /\ reasoned \in [Indices -> 0..MaxReasoning]
    /\ engineFinish \in [Indices -> EngineReasons \union {None}]
    /\ \A c \in Indices :
        /\ state[c].is_jailed \in BOOLEAN
        /\ state[c].accumulated \in Seq(Letters) /\ state[c].partial \in Seq(Letters)
        /\ state[c].searched \in 0..Len(state[c].accumulated)
        /\ state[c].finish \in EngineReasons \union {None}
        /\ state[c].reasoning \in 0..MaxReasoning
        /\ out[c] \in Seq(Letters \union FinishReasons \union {"call", "reasoning"})
    /\ terminated \subseteq Indices /\ synthesized \subseteq Indices

\* The text of a choice the client can rebuild, each call as the engine wrote it.
Written(c) ==
    FlattenSeq([i \in DOMAIN out[c] |->
        IF out[c][i] = "call" THEN Call ELSE IF out[c][i] \in Letters THEN <<out[c][i]>> ELSE <<>>])

Streamed(c) == SubSeq(input[c], 1, pos[c])

\* Until the stream ends, what was sent and what is held make up what the engine
\* generated, however it was cut into chunks: process_content and
\* handle_trailing_content lose nothing, say nothing twice and keep the order.
NothingIsLost ==
    phase # "ended" =>
        \A c \in Indices : Written(c) \o state[c].accumulated \o state[c].partial = Streamed(c)

\* A choice that is not jailed holds at most what may become a start marker, and
\* a jailed one has no partial marker, which finalize would forget.
OnlyMarkersWait ==
    \A c \in Indices :
        IF state[c].is_jailed THEN state[c].partial = <<>>
        ELSE state[c].accumulated = <<>> /\ IsStrictPrefix(state[c].partial, StartMarker)

\* A call that is held after its text was searched is still open: a marker split
\* between chunks is found with the chunk that completes it.
OnlyOpenCallsWait ==
    \A c \in Indices :
        state[c].is_jailed /\ state[c].searched > 0 => ~ Occurs(state[c].accumulated, EndMarker)

\* What a text says when read as a whole: its letters, and a call for each block.
Meaning(text) ==
    LET from[i \in 1..Len(text) + 1] ==
            IF i = Len(text) + 1 THEN <<>>
            ELSE IF i \notin Places(text, StartMarker, i) THEN <<text[i]>> \o from[i + 1]
            ELSE LET e == Places(text, EndMarker, i)
                 IN  <<"call">> \o (IF e = {} THEN <<>> ELSE from[Min(e) + Len(EndMarker)])
    IN  from[1]

\* s is t with letters left out: the greedy match of s in t gets to its end.
IsSubSeqOf(s, t) ==
    Len(s) = FoldLeft(LAMBDA k, x : IF k < Len(s) /\ s[k + 1] = x THEN k + 1 ELSE k, 0, t)

Said(c) == SelectSeq(out[c], LAMBDA x : x \in Letters \union {"call"})

\* Every call the engine closed reaches the client, in whatever chunks it came
\* ("must surface every closed invoke rather than stopping after the first",
\* TOOLCALLING_STREAMING_V1_CASES.md, 2.b), and the end of the stream invents,
\* repeats and moves nothing.
ClosedCallsAreDelivered ==
    phase = "ended" =>
        \A c \in Indices :
            /\ Len(SelectSeq(out[c], LAMBDA x : x = "call")) >= ClosedCalls(Streamed(c))
            /\ IsSubSeqOf(Said(c), Meaning(Streamed(c)))

\* While it streams and after it, the finish reason of a choice that fix_finish_reason
\* did not end comes once and last: trailing text, finalize and the bucket order never
\* follow it.
FinishIsLast ==
    \A c \in Indices \ synthesized : \A i \in DOMAIN out[c] : out[c][i] \in FinishReasons => i = Len(out[c])

\* The reason a turn should end with: tool_calls if it made calls, unless the engine
\* said length, else the engine's own.
Reason(c) == IF Contains(out[c], "call") /\ engineFinish[c] # "length" THEN "tool_calls" ELSE engineFinish[c]

\* The only finish reason of the turn is its reason, and nothing follows it.
TurnEnds(c) ==
    /\ {i \in DOMAIN out[c] : out[c][i] \in FinishReasons} = IF Reason(c) = None THEN {} ELSE {Len(out[c])}
    /\ Reason(c) # None => Last(out[c]) = Reason(c)

\* fix_finish_reason ended the choice before the usage-only chunk while the jail still
\* held text of it.
EndedTooEarly(c) == c \in synthesized /\ HasDeferredOutput(state[c])

\* "Whenever tool_calls were emitted on this choice, finish_reason MUST be tool_calls"
\* (jail/mod.rs:3175): a turn that made calls ends in tool_calls, once and last, when
\* the engine's reason came with a call, before it, without content or not at all, and
\* one that made none keeps the engine's, all but the choices that were ended while
\* they still held text.
TurnEndsForItsCalls ==
    [][EndOfStream => \A c \in Indices : ~ EndedTooEarly(c) => TurnEnds(c)']_vars

\* "The terminal finish_reason chunk must precede the usage-only chunk"
\* (jail/mod.rs:3198): the chunk that fix_finish_reason puts before it is the last of
\* its choice.  finalize sends what the jail holds, and the engine's reason, after it.
TerminalChunkIsTheLast ==
    \A c \in synthesized : \A i \in DOMAIN out[c] : out[c][i] \in FinishReasons => i = Len(out[c])

\* No reasoning of a turn is lost with the chunk that carried it.
ReasoningIsDelivered ==
    phase = "ended" =>
        \A c \in Indices : Cardinality({i \in DOMAIN out[c] : out[c][i] = "reasoning"}) = reasoned[c]
=============================================================================
