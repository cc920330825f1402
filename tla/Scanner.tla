------------------------------ MODULE Scanner ------------------------------
(***************************************************************************)
(* The unified parser of the qwen3 and nemotron_v3 families, in its native *)
(* mode: GuidedRouted's life cycle (parsers/v2/src/unified/mod.rs) over    *)
(* WrappedBlockScanner (tool_calling/scan.rs), which separates reasoning,  *)
(* visible text and tool calls of a text that arrives in deltas cut        *)
(* anywhere.  The parser is a record p of the scanner's fields and of the  *)
(* events it has put out.                                                  *)
(***************************************************************************)
EXTENDS QwenInvoke

CONSTANTS
    Inputs,       \* what the model generates: [text, starting, meaning], the events that a
                  \* text means when parsing starts in one of the states in starting
    ForcedStart   \* the family's prompt opens a thought (nemotron_v3)

StartingStates == {"None", "Reasoning", "Response"}

VARIABLES
    input,      \* the answer being generated
    at,         \* how much of it has been pushed
    p,          \* the parser
    starting,   \* GuidedRouted's starting_state
    phase       \* "fresh", "started", "finished"

vars == <<input, at, p, starting, phase>>

-----------------------------------------------------------------------------
(* Events.                                                                 *)

\* push_run: text next to text of its kind is one event.
Emit(s, kind, text) ==
    LET last == Len(s.out) IN
    IF text = <<>> THEN s
    ELSE IF last > 0 /\ s.out[last].kind = kind
    THEN [s EXCEPT !.out[last].text = @ \o text]
    ELSE [s EXCEPT !.out = Append(@, [kind |-> kind, text |-> text, index |-> 0, name |-> <<>>, complete |-> TRUE])]

EmitText(s, text) == IF s.suppress THEN s ELSE Emit(s, "text", text)

\* assemble: the fragments of a call are joined where its first one is, calls that
\* were never completed are dropped, and the runs around them merge.
Assemble(out) ==
    LET calls == {out[i].index : i \in {j \in DOMAIN out : out[j].kind = "call"}}
        Of(c) == SelectSeq(out, LAMBDA e : e.kind = "call" /\ e.index = c)
        Whole(c) == \E i \in DOMAIN Of(c) : Of(c)[i].complete
        Joined(c) == [kind |-> "call",
                      name |-> FlattenSeq([i \in DOMAIN Of(c) |-> Of(c)[i].name]),
                      text |-> FlattenSeq([i \in DOMAIN Of(c) |-> Of(c)[i].text])]
        First(i) == \A j \in 1..i - 1 : out[j].kind # "call" \/ out[j].index # out[i].index
        Event(i) == IF out[i].kind # "call" THEN <<[kind |-> out[i].kind, name |-> <<>>, text |-> out[i].text]>>
                    ELSE IF First(i) /\ Whole(out[i].index) THEN <<Joined(out[i].index)>>
                    ELSE <<>>
        Merge(sofar, e) ==
            IF sofar # <<>> /\ Last(sofar).kind = e.kind /\ e.kind # "call"
            THEN Append(Front(sofar), [e EXCEPT !.text = Last(sofar).text \o @])
            ELSE Append(sofar, e)
    IN  FoldLeft(Merge, <<>>, FlattenSeq([i \in DOMAIN out |-> Event(i)]))

-----------------------------------------------------------------------------
(* The scanner's small parts.                                              *)

\* with_reasoning, set_reasoning_mode.
InReasoning(state) == state = "Reasoning" \/ (state = "None" /\ ForcedStart)

FreshScanner(state) ==
    [buffer |-> <<>>, uncommitted |-> <<>>, out |-> <<>>, next_index |-> 0,
     in_block |-> FALSE, suppress |-> FALSE,
     reasoning |-> state # "Response", in_reasoning |-> InReasoning(state), resume |-> FALSE,
     anchored |-> FALSE, boundary |-> FreshBoundary, partial |-> NoPartial, provisional |-> FALSE,
     narrated |-> FALSE, narrated_boundary |-> FreshBoundary, narrated_body |-> <<>>, narrated_fed |-> 0]

Consume(s, n) == [s EXCEPT !.buffer = From(@, n), !.narrated_fed = Max({0, @ - n})]
ResetBoundary(s) == [s EXCEPT !.anchored = FALSE, !.boundary = FreshBoundary]
ClearNarration(s) ==
    [s EXCEPT !.narrated = FALSE, !.narrated_boundary = FreshBoundary, !.narrated_body = <<>>, !.narrated_fed = 0]
AbandonInvoke(s) ==
    ResetBoundary([s EXCEPT !.next_index = IF s.provisional THEN @ + 1 ELSE @,
                            !.provisional = FALSE, !.partial = NoPartial])

\* Mutant: the resumption of a thought is forgotten.
CloseBlock_StaysVisible(s) ==
    [s EXCEPT !.uncommitted = <<>>, !.in_block = FALSE, !.suppress = FALSE, !.resume = FALSE]

\* The block is over: text is visible again, and a thought it interrupted goes on.
CloseBlock(s) ==
    [s EXCEPT !.uncommitted = <<>>, !.in_block = FALSE, !.suppress = FALSE,
              !.in_reasoning = s.resume, !.resume = FALSE]

\* The markers that are held back while they may still be arriving.
HoldbackMarkers(s) == {BS, BE, FS} \union IF s.reasoning THEN {TS, TE} ELSE {}

\* What the narrated body's boundary has not classified must not leave the thought.
UnclassifiedTail(s) == Min({Len(s.narrated_body) - s.narrated_boundary.cursor, Len(s.buffer)})

\* Mutant: whatever follows the last angle bracket is held back.
Holdback_FromAngle(s) ==
    Max({0} \union {n \in 1..Len(s.buffer) : s.buffer[Len(s.buffer) - n + 1] = "<"})

Holdback(s) ==
    Max({PartialSuffix(s.buffer, HoldbackMarkers(s))} \union
        IF s.in_reasoning /\ s.narrated
        THEN {PartialSuffix(s.buffer, {FE}), UnclassifiedTail(s)} ELSE {})

Stop(s) == [p |-> s, again |-> FALSE]
Again(s) == [p |-> s, again |-> TRUE]

-----------------------------------------------------------------------------
(* Inside a thought.                                                       *)

\* A bare invoke inside a thought is narrated: its header and its closer are
\* stripped.  The closer is found under the rules of a real invoke, in the body
\* that the buffer is the end of.
Narrate(s, body, r) ==
    LET end == r.end - (Len(body) - Len(s.buffer)) IN
    [p |-> [s EXCEPT !.narrated_body = body, !.narrated_fed = Len(s.buffer), !.narrated_boundary = r.boundary],
     closer |-> IF r.end = Nowhere \/ end < Len(FE) THEN Nowhere ELSE end - Len(FE)]

FeedNarration(s) ==
    LET body == s.narrated_body \o From(s.buffer, Min({s.narrated_fed, Len(s.buffer)}))
    IN  IF s.narrated THEN Narrate(s, body, EndAppend(s.narrated_boundary, body, FALSE))
        ELSE [p |-> s, closer |-> Nowhere]

\* The first header that is not data of a narrated parameter.
NarratedHeader(s) ==
    LET consumed == Max({0, Len(s.narrated_body) - Len(s.buffer)})
        places == {i \in 0..Len(s.buffer) - Len(FS) :
                      /\ SubSeq(s.buffer, i + 1, i + Len(FS)) = FS
                      /\ ~ (s.narrated /\ OwnsValue(s.narrated_boundary, i + consumed))}
    IN  IF places = {} THEN Nowhere ELSE Min(places)

\* How many letters of a header to strip; 0 while its end has not arrived.
HeaderLength(s, header, closer, flush) ==
    LET limit == IF closer = Nowhere THEN Len(s.buffer) ELSE closer
        end == FindFrom(s.buffer, <<">">>, header + Len(FS))
    IN  IF end < limit THEN end + 1 - header
        ELSE IF closer # Nowhere \/ flush THEN Len(FS)
        ELSE 0

\* Where the buffer holds each thing that a thought does not.
Interruptions(s, narratedCloser) ==
    LET stray == CHOOSE m \in {TS, BE} : \A o \in {TS, BE} : Find(s.buffer, m) <= Find(s.buffer, o)
    IN  [closer |-> Find(s.buffer, TE), block |-> Find(s.buffer, BS),
         stray |-> stray, strayAt |-> Find(s.buffer, stray),
         header |-> NarratedHeader(s), narrated |-> narratedCloser]

\* The thought goes out up to the first of them.
Interrupt(s, i, first, flush) ==
    LET thought == Emit(s, "reasoning", Before(s.buffer, first))
        length == HeaderLength(s, first, i.closer, flush)
        Strip(n) == Consume([thought EXCEPT !.resume = FALSE], first + n)
    IN  CASE first = i.closer -> Again(ClearNarration([Strip(Len(TE)) EXCEPT !.in_reasoning = FALSE]))
          [] first < i.closer /\ first = i.block ->
               Again(ClearNarration(Consume([thought EXCEPT !.in_reasoning = FALSE, !.resume = TRUE], first)))
          [] first < i.closer /\ first = i.strayAt -> Again(Strip(Len(i.stray)))
          [] first < i.closer /\ first = i.header ->
               IF length = 0 THEN Stop(Consume(thought, first))
               ELSE Again([ClearNarration(Strip(length)) EXCEPT !.narrated = TRUE])
          [] OTHER -> Again(ClearNarration(Strip(Len(FE))))

\* Nothing interrupts the thought: it goes out up to what may still become a marker.
GoOn(s, stable, flush) ==
    LET streamed == Consume(Emit(s, "reasoning", Before(s.buffer, stable)), stable)
    IN  Stop(IF flush THEN ClearNarration([streamed EXCEPT !.in_reasoning = FALSE, !.resume = FALSE])
             ELSE streamed)

DrainThought(s, i, flush) ==
    LET first == Min({i.closer, i.block, i.strayAt, i.header, i.narrated})
    IN  IF first = Nowhere THEN GoOn(s, Len(s.buffer) - (IF flush THEN 0 ELSE Holdback(s)), flush)
        ELSE Interrupt(s, i, first, flush)

DrainReasoning(s, flush) ==
    LET fed == FeedNarration(s) IN DrainThought(fed.p, Interruptions(fed.p, fed.closer), flush)

-----------------------------------------------------------------------------
(* Inside a block.                                                         *)

\* An invoke at the buffer's beginning that has not ended: its string arguments
\* stream; at the end of the stream it is dropped.
Stream(s, r) ==
    [s EXCEPT !.partial = r.partial, !.out = @ \o r.deltas, !.provisional = @ \/ r.deltas # <<>>]

OpenInvoke(s, flush) ==
    IF flush THEN [AbandonInvoke(Consume(s, Len(s.buffer))) EXCEPT !.uncommitted = <<>>]
    ELSE Stream(s, ParsePartialInvoke(s.partial, s.buffer, s.next_index))

\* The buffer begins with an invoke whose end has been looked for.
Anchor(s, r) == [s EXCEPT !.anchored = TRUE, !.boundary = r.boundary]
ParseAnchored(s, n) == ParseInvoke(s.partial, Before(s.buffer, n), s.next_index)

\* A complete invoke of n letters: the call, and what the buffer held of it goes.
CompleteInvoke(s, n, deltas) ==
    [ResetBoundary(Consume(s, n)) EXCEPT
        !.partial = NoPartial, !.provisional = FALSE, !.out = @ \o deltas,
        !.next_index = IF deltas # <<>> \/ s.provisional THEN @ + 1 ELSE @]

\* In a block, what was no call after all is not committed.
CallInBlock(s, n, deltas) ==
    IF deltas # <<>> THEN [CompleteInvoke(s, n, deltas) EXCEPT !.uncommitted = <<>>, !.suppress = TRUE]
    ELSE [CompleteInvoke(s, n, deltas) EXCEPT !.uncommitted = @ \o Before(s.buffer, n)]

InvokeInBlock(s, r, flush) ==
    IF r.end = Nowhere THEN Stop([OpenInvoke(Anchor(s, r), flush) EXCEPT !.in_block = ~ flush])
    ELSE Again(CallInBlock(Anchor(s, r), r.end, ParseAnchored(s, r.end)))

DrainBlock(s, flush) ==
    LET start == IF s.anchored THEN 0 ELSE Find(s.buffer, FS)
        end == Find(s.buffer, BE)
        noise == Min({Len(s.buffer) - Holdback(s), start})
        Skip(n) == [Consume(s, n) EXCEPT !.uncommitted = @ \o Before(s.buffer, n)]
        opened == IF start > 0 THEN ResetBoundary(Skip(start)) ELSE s
    IN  CASE ~ s.anchored /\ end < Nowhere /\ end <= start ->
               Again(CloseBlock(ResetBoundary(Consume(s, end + Len(BE)))))
          [] start = Nowhere /\ end = Nowhere ->
               Stop(IF flush
                    THEN [AbandonInvoke(Consume(s, Len(s.buffer))) EXCEPT !.uncommitted = <<>>, !.in_block = FALSE]
                    ELSE Skip(noise))
          [] OTHER -> InvokeInBlock(opened, EndAppend(opened.boundary, opened.buffer, flush), flush)

-----------------------------------------------------------------------------
(* Outside.                                                                *)

\* A bare invoke is recovered once its closer has come, never at the end.
CallOutside(s, n, deltas) ==
    [CompleteInvoke(s, n, deltas) EXCEPT
        !.uncommitted = <<>>, !.suppress = (deltas # <<>> \/ s.suppress) /\ ~ s.resume,
        !.in_reasoning = s.resume, !.resume = FALSE]

BareInvoke(s, r, flush) ==
    IF r.end = Nowhere THEN Stop(OpenInvoke(Anchor(s, r), flush))
    ELSE Again(CallOutside(Anchor(s, r), r.end, ParseAnchored(s, r.end)))

DrainBareInvoke(s, flush) == BareInvoke(s, EndAppend(s.boundary, s.buffer, FALSE), flush)

\* Outside of calls and thoughts the text goes out up to the first marker.
DrainText(s, opener, orphan, orphanAt, flush) ==
    LET stable == Len(s.buffer) - (IF flush THEN 0 ELSE Holdback(s))
        Shown(n) == Consume(EmitText(s, Before(s.buffer, n)), n)
        entered == Shown(opener)
    IN  CASE orphanAt < opener -> Again([Consume(Shown(orphanAt), Len(orphan)) EXCEPT !.suppress = FALSE])
          [] orphanAt >= opener /\ opener = Nowhere -> Stop(Shown(stable))
          [] opener < orphanAt /\ opener = Find(s.buffer, BS) ->
               Again(ResetBoundary([Consume(entered, Len(BS)) EXCEPT
                                        !.uncommitted = @ \o BS, !.in_block = TRUE, !.suppress = TRUE]))
          [] opener < orphanAt /\ opener = Find(s.buffer, FS) -> DrainBareInvoke(entered, flush)
          [] OTHER -> Again([Consume(entered, Len(TS)) EXCEPT !.in_reasoning = TRUE, !.suppress = FALSE])

DrainOutside(s, flush) ==
    LET openers == {BS, FS} \union IF s.reasoning THEN {TS} ELSE {}
        orphans == {BE} \union IF s.reasoning THEN {TE} ELSE {}
        orphan == CHOOSE m \in orphans : \A o \in orphans : Find(s.buffer, m) <= Find(s.buffer, o)
    IN  IF s.anchored THEN DrainBareInvoke(s, flush)
        ELSE DrainText(s, Min({Find(s.buffer, m) : m \in openers}), orphan, Find(s.buffer, orphan), flush)

RECURSIVE Drain(_, _)
Continue(r, flush) == IF r.again THEN Drain(r.p, flush) ELSE r.p
Drain(s, flush) ==
    Continue(IF s.in_reasoning THEN DrainReasoning(s, flush)
             ELSE IF s.in_block THEN DrainBlock(s, flush)
             ELSE DrainOutside(s, flush), flush)

PushText(s, delta) == Drain([s EXCEPT !.buffer = @ \o delta], FALSE)
FinishText(s) == Drain(s, TRUE)

\* Mutant: the block's opener and the noise after it are forgotten.
Recovered_OnlyBuffer(s) == s.buffer

\* reset returns what was not committed, for the caller to parse again.
Recovered(s) == s.uncommitted \o s.buffer

\* reset and restore_native_state; the caller's output is a new one, too.
ResetScanner(s, state) ==
    [AbandonInvoke(ClearNarration(s)) EXCEPT
        !.buffer = <<>>, !.uncommitted = <<>>, !.out = <<>>, !.next_index = 0,
        !.in_block = FALSE, !.suppress = FALSE, !.resume = FALSE,
        !.reasoning = state # "Response", !.in_reasoning = InReasoning(state)]

-----------------------------------------------------------------------------
(* GuidedRouted's life cycle, without a guided mode.                       *)

TypeOK ==
    /\ input \in Inputs
    /\ at \in 0..Len(input.text)
    /\ starting \in StartingStates
    /\ phase \in {"fresh", "started", "finished"}
    /\ Len(p.buffer) + Len(p.uncommitted) <= at

Init ==
    /\ input \in Inputs
    /\ at = 0
    /\ starting = "None"
    /\ p = FreshScanner("None")
    /\ phase = "fresh"

\* apply_init: refused once parsing has started.
Initialize(state) ==
    /\ phase = "fresh"
    /\ starting' = IF InReasoning(state) THEN "Reasoning" ELSE state
    /\ p' = ResetScanner(p, state)
    /\ UNCHANGED <<input, at, phase>>

\* parse_into, with the next n letters.
Push(n) ==
    /\ phase # "finished"
    /\ phase' = "started"
    /\ p' = PushText(p, SubSeq(input.text, at + 1, at + n))
    /\ at' = at + n
    /\ UNCHANGED <<input, starting>>

\* finish: the engine may stop anywhere.
Finish ==
    /\ phase # "finished"
    /\ phase' = "finished"
    /\ p' = FinishText(p)
    /\ UNCHANGED <<input, at, starting>>

\* reset, at any time: the next stream begins.
Reset ==
    /\ phase' = "fresh"
    /\ p' = ResetScanner(p, starting)
    /\ at' = 0
    /\ UNCHANGED <<input, starting>>

Next ==
    \/ \E state \in StartingStates : Initialize(state)
    \/ \E n \in 0..Len(input.text) - at : Push(n)
    \/ Finish \/ Reset

Spec == Init /\ [][Next]_vars

-----------------------------------------------------------------------------
\* What a text gives when it comes in one delta, and what that means.
Whole(text) == FinishText(PushText(FreshScanner(starting), text)).out
Meaning(text) == Assemble(Whole(text))

\* Some invoke of the text gives a string parameter more than once.
RepeatsParameter(text) ==
    LET End(tail) == Min({EndAppend(FreshBoundary, tail, TRUE).end, Len(tail)})
        Invoke(i) == Before(From(text, i), End(From(text, i)))
        Given(i) == SelectSeq(SourceOrder(Invoke(i)), LAMBDA k : k = StringParameter)
    IN  \E i \in 0..Len(text) - Len(FS) : IsPrefix(FS, From(text, i)) /\ Len(Given(i)) > 1

\* The output means what its text means; only when a parameter is repeated may calls
\* be missing, those whose arguments do not begin with what has been sent of them.
Agrees(out, text) ==
    LET whole == Whole(text)
        Sent(events, c) ==
            FlattenSeq([i \in DOMAIN events |->
                            IF events[i].kind = "call" /\ events[i].index = c THEN events[i].text ELSE <<>>])
        Refuted(c) == RepeatsParameter(text) /\ ~ IsPrefix(Sent(out, c), Sent(whole, c))
    IN  Assemble(out) = Assemble(SelectSeq(whole, LAMBDA e : e.kind = "call" => ~ Refuted(e.index)))

\* However a text is cut, and whatever the parser was reset from before, the assembled
\* output is that of the text in one piece: the split invariance of CUSTOM_PARSERS.md.
\* A text that repeats a parameter is where qwen3_coder.rs gives less: "The later value
\* cannot be retracted without assembling corrupted JSON", so of such a text a call may
\* be missing when what has been streamed of it contradicts the call of the text in one
\* piece.  The prose, the thoughts and the other calls are all there.
CutsDoNotMatter == phase = "finished" => Agrees(p.out, Before(input.text, at))

\* An answer that follows the chat template is read as it was meant, however cut:
\* a thought goes on after a call inside it, what a parameter's value holds is
\* data, and a call narrated in a thought is not made.
AnswersAreRead ==
    phase = "finished" /\ at = Len(input.text) /\ starting \in input.starting =>
        Assemble(p.out) = Assemble(input.meaning)

\* "Return the parser to a FRESH-STREAM state and hand back any unconsumed text":
\* what reset returns is the end of what was pushed; what it does not return means
\* exactly what has been delivered; and parsed again from where the delivered part
\* ended, in a thought or not, it completes the meaning of all that was pushed, as
\* long as the open block, if there is one, has delivered nothing yet.  (Of a call
\* that repeats a parameter, as much as SentArgumentsStand says.)
ResetGivesBack ==
    LET committed == at - Len(Recovered(p))
        resumed == FreshScanner(IF p.in_reasoning \/ p.resume THEN "Reasoning"
                                ELSE IF p.reasoning /\ ~ ForcedStart THEN "None" ELSE "Response")
        second == FinishText(PushText([resumed EXCEPT !.next_index = p.next_index], Recovered(p)))
        untouched == /\ ~ p.narrated /\ ~ p.provisional
                     /\ p.suppress => IsPrefix(BS, p.uncommitted)
    IN  phase = "started" =>
        /\ IsSuffix(Recovered(p), Before(input.text, at))
        /\ Agrees(p.out, Before(input.text, committed))
        /\ untouched => Agrees(p.out \o second.out, Before(input.text, at))

\* Visible text and reasoning stream: between deltas only the beginning of a
\* marker waits, or of a header that a thought narrates.
OnlyMarkersWait ==
    LET Begins(m) == m # p.buffer /\ IsPrefix(p.buffer, m) IN
    phase = "started" /\ ~ p.in_block /\ ~ p.anchored =>
        \/ \E m \in HoldbackMarkers(p) : Begins(m)
        \/ p.in_reasoning /\ IsPrefix(FS, p.buffer) /\ ~ Contains(p.buffer, ">")
        \/ p.narrated /\ \/ \E m \in {FE, PE, PS} : Begins(m)
                         \/ IsPrefix(PS, p.buffer) /\ ~ Contains(p.buffer, ">")
=============================================================================
