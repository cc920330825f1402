----------------------------- MODULE MCSourceRun -----------------------------
(* Publications and indexing runs, two at a time, of one checkout with one family. *)
EXTENDS SourceRun

CONSTANTS p1, i1
MCKind == [p \in Procs |-> IF p = i1 THEN "index" ELSE "publish"]

\* Bound: after a second edit only the indexing run goes on.
SecondEdit == edits = 2 => pc[p1] \in Ended \union {"idle"}
=============================================================================
