----------------------------- MODULE QwenInvoke -----------------------------
(***************************************************************************)
(* The tool grammar of Qwen3-Coder that the shared scanner is instantiated *)
(* with (parsers/v2/src/tool_calling/qwen3_coder.rs): its markers, the     *)
(* cursor that finds the end of an invoke, and the emitter that streams    *)
(* string arguments while the invoke is still open.                        *)
(*                                                                         *)
(* A text is a sequence of letters and a place in it the number of letters *)
(* before it.  T is think, B tool_call, F function and P parameter: <T> is *)
(* <think>, <Fa> is <function=a>.  n is a newline, q a quotation mark that *)
(* only JSON has.                                                          *)
(***************************************************************************)
EXTENDS Integers, SequencesExt

TS == <<"<", "T", ">">>
TE == <<"<", "/", "T", ">">>
BS == <<"<", "B", ">">>
BE == <<"<", "/", "B", ">">>
FS == <<"<", "F">>
FE == <<"<", "/", "F", ">">>
PS == <<"<", "P">>
PE == <<"<", "/", "P", ">">>

\* The only tool of the request, and its only declared string parameter.
KnownTool == <<"a">>
StringParameter == <<"a">>

-----------------------------------------------------------------------------
(* Texts.                                                                  *)

Nowhere == 1000     \* beyond every text
Before(text, n) == SubSeq(text, 1, n)
From(text, n) == SubSeq(text, n + 1, Len(text))

FindFrom(text, marker, n) ==
    LET places == {i \in n..Len(text) - Len(marker) :
                       SubSeq(text, i + 1, i + Len(marker)) = marker}
    IN  IF places = {} THEN Nowhere ELSE Min(places)
Find(text, marker) == FindFrom(text, marker, 0)

\* marker_prefix_suffix_len: how much of the end may become a marker.
PartialSuffix(text, markers) ==
    Max({0} \union {n \in 1..Len(text) :
        \E m \in markers : n < Len(m) /\ IsSuffix(Before(m, n), text)})

-----------------------------------------------------------------------------
(* QwenInvokeBoundary.                                                     *)

FreshBoundary == [cursor |-> 0, in_parameter |-> FALSE, value_start |-> 0, spans |-> {}]

\* end_append: the end of the invoke, Nowhere while it is open.  Only a parameter
\* closer ends a value; at the end of the stream a function closer may.
RECURSIVE EndAppend(_, _, _)
EndAppend(b, text, flush) ==
    LET tail == From(text, b.cursor)
        closeValue == Find(tail, PE)
        open == Find(tail, PS)
        close == Find(tail, FE)
        header == FindFrom(text, <<">">>, b.cursor + open)
        Waiting(cursor) == [boundary |-> [b EXCEPT !.cursor = cursor], end |-> Nowhere]
        EndAt(at) == [boundary |-> b, end |-> IF at = Nowhere THEN Nowhere ELSE at + Len(FE)]
    IN  IF b.in_parameter
        THEN IF closeValue # Nowhere
             THEN EndAppend([b EXCEPT !.cursor = @ + closeValue + Len(PE), !.in_parameter = FALSE,
                                 !.spans = @ \union {<<b.value_start, b.cursor + closeValue>>}], text, flush)
             ELSE IF flush THEN EndAt(FindFrom(text, FE, b.value_start))
             ELSE Waiting(Len(text) - PartialSuffix(tail, {PE}))
        ELSE IF close < open THEN EndAt(b.cursor + close)
        ELSE IF open = Nowhere THEN Waiting(Len(text) - PartialSuffix(tail, {PS, FE}))
        ELSE IF header = Nowhere THEN Waiting(b.cursor + open)
        ELSE EndAppend([b EXCEPT !.cursor = header + 1, !.in_parameter = TRUE,
                            !.value_start = header + 1], text, flush)

OwnsValue(b, at) ==
    \/ b.in_parameter /\ at >= b.value_start
    \/ \E s \in b.spans : s[1] <= at /\ at < s[2]

-----------------------------------------------------------------------------
(* Arguments, as JSON.                                                     *)

Quoted(text) == <<"q">> \o text \o <<"q">>

\* One newline at each end of a value is framing.
Unframed(raw) ==
    LET s == IF raw # <<>> /\ Head(raw) = "n" THEN Tail(raw) ELSE raw
    IN  IF s # <<>> /\ Last(s) = "n" THEN Front(s) ELSE s

\* The parameters parse_qwen_invoke finds in a body, in order: a key of at least
\* one letter and the value up to its closer, or the end.
RECURSIVE Parameters(_)
Parameters(body) ==
    LET starts == {i \in 0..Len(body) - Len(PS) :
                       /\ SubSeq(body, i + 1, i + Len(PS)) = PS
                       /\ FindFrom(body, <<">">>, i) # Nowhere
                       /\ FindFrom(body, <<">">>, i) > i + Len(PS)}
        start == Min(starts)
        header == FindFrom(body, <<">">>, start)
        close == FindFrom(body, PE, header + 1)
        end == IF close = Nowhere THEN Len(body) ELSE close
    IN  IF starts = {} THEN <<>>
        ELSE <<[key |-> SubSeq(body, start + Len(PS) + 1, header),
                value |-> Unframed(SubSeq(body, header + 2, end))]>>
             \o Parameters(From(body, end + Len(PE)))

\* source_parameter_order.
RECURSIVE SourceOrder(_)
SourceOrder(text) ==
    LET start == Find(text, PS)
        header == FindFrom(text, <<">">>, start)
        close == FindFrom(text, PE, header + 1)
        name == SubSeq(text, start + Len(PS) + 1, header)
    IN  IF start = Nowhere \/ header = Nowhere THEN <<>>
        ELSE (IF name = <<>> THEN <<>> ELSE <<name>>)
             \o (IF close = Nowhere THEN <<>> ELSE SourceOrder(From(text, close + Len(PE))))

\* Each member of a sequence once, where it first comes.
Distinct(seq) == FoldLeft(LAMBDA sofar, e : IF Contains(sofar, e) THEN sofar ELSE Append(sofar, e), <<>>, seq)

\* A later parameter of the same name replaces the value of the earlier one.
ValueOf(parameters, key) ==
    parameters[Max({i \in DOMAIN parameters : parameters[i].key = key})].value

Field(parameters, key) == Quoted(key) \o <<":">> \o Quoted(ValueOf(parameters, key))

\* The object of these parameters, in this order.
Object(parameters, order) ==
    <<"{">> \o FlattenSeq([i \in DOMAIN order |->
                              (IF i = 1 THEN <<>> ELSE <<",">>) \o Field(parameters, order[i])]) \o <<"}">>

\* order_source_parameters: the parsed keys as the source orders them, then the rest.
Ordered(keys, source) ==
    LET known == SelectSeq(source, LAMBDA k : k \in keys)
    IN  Distinct(known) \o SetToSeq(keys \ ToSet(known))

Arguments(parameters, source) ==
    Object(parameters, Ordered({parameters[i].key : i \in DOMAIN parameters}, source))

-----------------------------------------------------------------------------
(* Qwen3Emitter.                                                           *)

NoPartial == <<>>
Call(index, name, arguments, complete) ==
    [kind |-> "call", text |-> arguments, index |-> index, name |-> name, complete |-> complete]

\* append_literal_string_fragment: [active, text].
Literal(active, raw) ==
    LET s == IF active.at_start /\ raw # <<>> /\ Head(raw) = "n" THEN Tail(raw) ELSE raw
        newline == s # <<>> /\ Last(s) = "n"
        text == (IF active.newline THEN <<"n">> ELSE <<>>) \o (IF newline THEN Front(s) ELSE s)
    IN  IF s = <<>>
        THEN [active |-> [active EXCEPT !.at_start = @ /\ raw = <<>>], text |-> <<>>]
        ELSE [active |-> [active EXCEPT !.at_start = FALSE, !.newline = newline,
                              !.started = @ \/ text # <<>>], text |-> text]

\* Mutant: bytes that may turn out to be the closer are streamed with the value.
SafeEnd_Eager(active, invoke, close, ambiguous) ==
    IF close # Nowhere THEN close ELSE Len(invoke)

\* Up to where the value is known to be data.
SafeEnd(active, invoke, close, ambiguous) ==
    IF close # Nowhere THEN close
    ELSE IF ambiguous # Nowhere THEN ambiguous
    ELSE Len(invoke) - PartialSuffix(From(invoke, active.search), {PE, FE})

\* parse_partial_invoke's loop, from a partial argument and what it adds.
RECURSIVE StreamArguments(_, _, _)
StreamArguments(p, invoke, added) ==
    IF p.active # <<>>
    THEN LET a == p.active[1]
             close == FindFrom(invoke, PE, a.search)
             ambiguous == IF close = Nowhere /\ a.ambiguous = Nowhere
                          THEN FindFrom(invoke, FE, a.search) ELSE a.ambiguous
             safe == SafeEnd(a, invoke, close, ambiguous)
             fragment == Literal(a, SubSeq(invoke, a.value + 1, safe))
             opening == fragment.active.started \/ close # Nowhere
             sofar == added \o (IF opening THEN a.opener ELSE <<>>) \o fragment.text
             rest == [fragment.active EXCEPT !.value = safe, !.ambiguous = ambiguous,
                          !.search = Len(invoke) - PartialSuffix(From(invoke, a.search), {PE, FE}),
                          !.opener = IF opening THEN <<>> ELSE @]
         IN  IF close = Nowhere
             THEN [partial |-> [p EXCEPT !.active = <<rest>>], added |-> sofar]
             ELSE StreamArguments([p EXCEPT !.active = <<>>, !.cursor = safe + Len(PE)],
                                  invoke, sofar \o <<"q">>)
    ELSE LET start == FindFrom(invoke, PS, p.cursor)
             header == FindFrom(invoke, <<">">>, start)
             name == SubSeq(invoke, start + Len(PS) + 1, header)
             open == IF p.emitted = <<>> /\ added = <<>> THEN <<"{">> ELSE <<",">>
         IN  IF start = Nowhere \/ header = Nowhere THEN [partial |-> p, added |-> added]
             ELSE IF name \in p.seen \/ (name # StringParameter /\ FindFrom(invoke, PE, header + 1) # Nowhere)
             THEN [partial |-> [p EXCEPT !.blocked = TRUE], added |-> added]
             ELSE IF name # StringParameter THEN [partial |-> p, added |-> added]
             ELSE StreamArguments(
                    [p EXCEPT !.seen = @ \union {name},
                        !.active = <<[value |-> header + 1, search |-> header + 1, ambiguous |-> Nowhere,
                                      at_start |-> TRUE, newline |-> FALSE, started |-> FALSE,
                                      opener |-> open \o Quoted(name) \o <<":", "q">>]>>], invoke, added)

\* The first fragment carries the name.
Streamed(name, r, index) ==
    [partial |-> <<[r.partial EXCEPT !.emitted = @ \o r.added]>>,
     deltas |-> IF r.added = <<>> THEN <<>>
                ELSE <<Call(index, IF r.partial.emitted = <<>> THEN name ELSE <<>>, r.added, FALSE)>>]

\* parse_partial_invoke: [partial, deltas].
ParsePartialInvoke(partial, invoke, index) ==
    LET header == Find(invoke, <<">">>)
        name == SubSeq(invoke, Len(FS) + 1, header)
        p == IF partial # NoPartial THEN partial[1]
             ELSE [name |-> name, emitted |-> <<>>, cursor |-> header + 1, seen |-> {},
                   active |-> <<>>, blocked |-> FALSE]
    IN  IF partial = NoPartial /\ (header = Nowhere \/ name # KnownTool)
        THEN [partial |-> NoPartial, deltas |-> <<>>]
        ELSE IF p.blocked THEN [partial |-> partial, deltas |-> <<>>]
        ELSE Streamed(p.name, StreamArguments(p, invoke, <<>>), index)

\* Mutant: what is left of the arguments is sent whatever was streamed of them.
Completed_AppendsRest(name, emitted, arguments, index) ==
    <<Call(index, IF emitted = <<>> THEN name ELSE <<>>, From(arguments, Len(emitted)), TRUE)>>

\* parse_invoke, of a complete invoke that carries these arguments: what has been
\* emitted already must be how they begin.
Completed(name, emitted, arguments, index) ==
    IF ~ IsPrefix(emitted, arguments) THEN <<Call(index, <<>>, <<>>, FALSE)>>
    ELSE <<Call(index, IF emitted = <<>> THEN name ELSE <<>>, From(arguments, Len(emitted)), TRUE)>>

\* parse_invoke: the deltas, none without a name.
ParseInvoke(partial, invoke, index) ==
    LET header == Find(invoke, <<">">>)
        name == SubSeq(invoke, Len(FS) + 1, header)
        body == From(invoke, header + 1)
        emitted == IF partial = NoPartial THEN <<>> ELSE partial[1].emitted
    IN  IF name = <<>> \/ ~ IsSuffix(FE, body) THEN <<>>
        ELSE Completed(name, emitted,
                       Arguments(Parameters(Before(body, Len(body) - Len(FE))), SourceOrder(invoke)), index)
=============================================================================
