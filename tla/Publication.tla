---------------------------- MODULE Publication ----------------------------
(***************************************************************************)
(* What a publication transaction promises, with no journal, backup or     *)
(* lock in sight: all destinations change together, to a version never     *)
(* published before.  Module Transaction implements it, but for Tear.      *)
(***************************************************************************)
EXTENDS Naturals

CONSTANTS Dests,     \* the destinations of a transaction
          Retained,  \* those an aborted transaction may leave behind
          Entries,   \* the files of a payload
          Versions   \* what a transaction may publish

VARIABLE published

Absent == [ver |-> 0, parts |-> {}]
Whole(v) == [ver |-> v, parts |-> Entries]

Init == published \in [Dests -> {Absent, Whole(1)}]

\* One transaction takes effect everywhere at once.
Publish ==
    \E v \in Versions :
        /\ \A d \in Dests : published[d].ver <= v
        /\ published' = [d \in Dests |-> Whole(v)]

\* An aborted transaction may leave a retained destination that did not exist.
Retain ==
    \E d \in Retained, v \in Versions :
        /\ published[d] = Absent
        /\ published' = [published EXCEPT ![d] = Whole(v)]

\* What is not promised, and happens when a recovery is interrupted while it removes
\* the snapshots it has restored: directories lose files.
Tear(dirs) ==
    \E lost \in [dirs -> SUBSET Entries] :
        published' = [d \in Dests |->
            IF d \in dirs THEN [published[d] EXCEPT !.parts = @ \ lost[d]] ELSE published[d]]

Next == Publish \/ Retain

Spec == Init /\ [][Next]_published
=============================================================================
