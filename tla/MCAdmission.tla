---------------------------- MODULE MCAdmission ----------------------------
(* Two operations, an index and a validation, over two archives. *)
EXTENDS Admission

CONSTANTS index, validation, t1, t2, t3, t4, a1, a2

MCOps == {index, validation}
MCTasks == {t1, t2, t3, t4}
MCArchives == {a1, a2}
\* The index decodes in a second reservation; the validation knows its archive.
MCOpOf == [t \in MCTasks |-> IF t = t4 THEN validation ELSE index]
MCArchiveOf == [t \in MCTasks |-> IF t = t2 THEN a2 ELSE a1]
MCExpects == [t \in MCTasks |-> IF t = t4 THEN 1 ELSE 0]

\* Jobs that only fit one after the other, and one (t1) whose second reservation
\* no budget admits.
MCFirst == [t \in MCTasks |-> IF t \in {t2, t4} THEN 1 ELSE 2]
MCSecond == [t \in MCTasks |-> CASE t = t1 -> 4 [] t = t4 -> 0 [] OTHER -> 2]
=============================================================================
