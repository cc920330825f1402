--------------------------- MODULE MCTransaction ---------------------------
(* Instances of Transaction for TLC, and the promise it implements. *)
EXTENDS Transaction

CONSTANTS w1, w2, r1, r2

\* Begin's guard lets every writer stage one version past MaxVersion.
Promise == INSTANCE Publication
    WITH published <- Published, Versions <- 1..MaxVersion + Cardinality(Writers)

\* Whatever is killed or fails, what a recovery leaves changes as a whole.  Files are
\* lost only by an interruption of a recovery that removes its snapshots.
ImplementsPublication ==
    /\ Promise!Init
    /\ [][Promise!Next \/ (Interruption /\ Promise!Tear(Dirs))]_Published
=============================================================================
