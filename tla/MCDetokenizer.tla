--------------------------- MODULE MCDetokenizer ---------------------------
(***************************************************************************)
(* A response is decoded either by a DecodeStream or by a                  *)
(* StopSequenceDecoder: each run of this module is one of the two, over    *)
(* its own tokens, and leaves the variables of the other as they were.     *)
(***************************************************************************)
EXTENDS DecodeStream, MCStopDecoder

CONSTANTS StreamTokens, SequenceTokens

VARIABLE session

stream_only == <<context, all_token_ids, has_emitted, emitted, status>>
stop_only == <<token_ids, state, stopped, returned>>

NoStream ==
    /\ context = <<>> /\ all_token_ids = <<>> /\ has_emitted = FALSE
    /\ emitted = <<>> /\ status = "streaming"

NoSequence == token_ids = <<>> /\ state = <<>> /\ stopped = "no" /\ returned = <<>>

MCInit ==
    \/ session = "stream" /\ Init /\ context \in Seq(StreamTokens) /\ NoSequence
    \/ session = "sequence" /\ StopInit /\ decoder = "bytes" /\ NoStream

Stream ==
    /\ session = "stream"
    /\ Finish \/ \E id \in StreamTokens : StepToken(id)
    /\ UNCHANGED <<session, stop_only>>

Sequence ==
    /\ session = "sequence"
    /\ Close \/ \E id \in SequenceTokens : AppendTokenId(id)
    /\ UNCHANGED <<session, stream_only>>

MCSpec == MCInit /\ [][Stream \/ Sequence]_<<vars, stop_vars, session>>
=============================================================================
