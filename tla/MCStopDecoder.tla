--------------------------- MODULE MCStopDecoder ---------------------------
(* Two stop sequences, a stop token of each kind and a split character. *)
EXTENDS StopDecoder

MCStops == << <<"a", "b", "a">>, <<"b", "L2", "C">> >>
=============================================================================
