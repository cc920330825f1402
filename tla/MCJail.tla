------------------------------- MODULE MCJail -------------------------------
(***************************************************************************)
(* What the engine generates: parallel calls with and without prose between *)
(* them, false starts, and two choices that make a call each.              *)
(***************************************************************************)
EXTENDS Jail

Parallel == <<"x">> \o Call \o <<"x">> \o Call \o Call \o <<"x">>
FalseStarts == <<"<", "x", "(", "x">> \o Call \o <<"<", "tool", "x">>
Prose == <<"x", "<">>

MCIndices == {0, 1}
MCInputs == {<<Parallel, <<>>>>, <<FalseStarts, <<>>>>, <<Call, Prose>>}
MCInputsByIndex == {[c \in MCIndices |-> texts[c + 1]] : texts \in MCInputs}
=============================================================================
