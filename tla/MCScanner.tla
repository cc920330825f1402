----------------------------- MODULE MCScanner -----------------------------
(***************************************************************************)
(* What the model generates: every text of a few words, and answers that   *)
(* follow the chat template, with what they mean.                          *)
(***************************************************************************)
EXTENDS Scanner

CONSTANTS MaxWords

Words == {<<"a">>, <<"<">>, <<">">>, TS, TE, BS, BE, FS \o <<"a", ">">>, FE,
          PS \o <<"a", ">">>, PS \o <<"b", ">">>, PE, FS \o <<"a", ">">> \o PS \o <<"a", ">">>}
FreeTexts == {FlattenSeq(w) : w \in UNION {[1..n -> Words] : n \in 0..MaxWords}}
Free == {[text |-> t, starting |-> {}, meaning |-> <<>>] : t \in FreeTexts}

-----------------------------------------------------------------------------
(* An answer is a sequence of parts: what the model writes, and the event  *)
(* that it means.                                                          *)

Header == FS \o <<"a", ">">>
Parameter(value) == PS \o <<"a", ">">> \o value \o PE
Invoke(value) == Header \o Parameter(value) \o FE
Meant(value) == <<"{">> \o Quoted(<<"a">>) \o <<":">> \o Quoted(value) \o <<"}">>

Part(text, kind, meant) == [text |-> text, kind |-> kind, meant |-> meant]
Prose(text) == Part(text, "text", text)
Thought(text) == Part(text, "reasoning", text)
Opener == Part(TS, "reasoning", <<>>)
Closer == Part(TE, "reasoning", <<>>)
Narrated(value) == Part(Invoke(value), "reasoning", Parameter(value))
Called(value) == Part(BS \o Invoke(value) \o BE, "call", Meant(value))
Bare(value) == Part(Invoke(value), "call", Meant(value))

\* The template's own layout: every tag and the value on a line of their own.
Framed(value) ==
    Part(BS \o <<"n">> \o Header \o <<"n">> \o Parameter(<<"n">> \o value \o <<"n">>) \o <<"n">> \o FE \o <<"n">> \o BE,
         "call", Meant(value))

\* Data that looks like the grammar's own markers.
Values == {<<>>, <<"v">>, <<"<">>, TS, TE, BS, BE, Header, FE}

\* Where a layout may begin: a thought that the prompt has opened, or has not.
WithThought(parts) == [parts |-> parts, starting |-> {"None", "Reasoning"}]
InThought(parts) == [parts |-> parts, starting |-> {s \in StartingStates : InReasoning(s)}]
NoThought(parts) == [parts |-> parts, starting |-> {s \in StartingStates : ~ InReasoning(s)}]

Layouts ==
    {NoThought(<<Prose(<<"x">>), Called(v), Prose(<<"y">>)>>) : v \in Values} \union
    {NoThought(<<Prose(<<"x">>), Bare(v)>>) : v \in Values} \union
    {NoThought(<<Framed(v), Framed(<<"n", "v">>)>>) : v \in {<<"v">>, <<"n">>}} \union
    {WithThought(<<Opener, Thought(<<"r">>), Called(v), Thought(<<"s">>), Closer, Prose(<<"y">>)>>) : v \in Values} \union
    {InThought(<<Thought(<<"r">>), Narrated(v), Thought(<<"s">>), Closer, Called(<<"v">>)>>) : v \in Values \ {TS, TE, BS, BE}} \union
    {InThought(<<Thought(<<"r">>), Closer, Called(<<"v">>), Opener, Thought(<<"s">>), Closer, Bare(FE)>>)}

Answer(layout) ==
    LET parts == layout.parts
        Event(i) == [kind |-> parts[i].kind, text |-> parts[i].meant, complete |-> TRUE,
                     index |-> i, name |-> IF parts[i].kind = "call" THEN KnownTool ELSE <<>>]
    IN  [text |-> FlattenSeq([i \in DOMAIN parts |-> parts[i].text]),
         starting |-> layout.starting,
         meaning |-> SelectSeq([i \in DOMAIN parts |-> Event(i)], LAMBDA e : e.text # <<>>)]
Answers == {Answer(l) : l \in Layouts}

-----------------------------------------------------------------------------
(* Calls that give a parameter twice, in a block, bare or in a thought: how  *)
(* they are read depends on where the text is cut.                         *)

Twice(v, w) == Header \o Parameter(v) \o Parameter(w) \o FE
TwiceValues == {<<<<"v">>, <<"w">>>>, <<<<"v">>, <<"v">>>>, <<<<"v">>, <<"v", "w">>>>, <<<<>>, <<"w">>>>}
Repeated ==
    {BS \o Twice(v[1], v[2]) \o Invoke(<<"z">>) \o BE \o <<"y">> : v \in TwiceValues} \union
    {<<"x">> \o Twice(v[1], v[2]) \o Invoke(<<"z">>) : v \in TwiceValues} \union
    {TS \o <<"r">> \o BS \o Twice(v[1], v[2]) \o BE \o <<"s">> \o TE \o <<"y">> : v \in TwiceValues}
Repeats == {[text |-> t, starting |-> {}, meaning |-> <<>>] : t \in Repeated}

MCInputs == Free \union Answers \union Repeats
=============================================================================
