----------------------------- MODULE Admission -----------------------------
(***************************************************************************)
(* Archive admission: the tasks of publisher operations reserve memory     *)
(* (MemoryBudget), share one extraction per archive through the process    *)
(* wide SOURCE_ARCHIVES (conformance/publisher/src/source.rs), and release *)
(* it, while the archive files may change underneath.  A task is           *)
(* catalog.rs index_version_archive, which reserves twice, or one of the   *)
(* validations of publication.rs, which reserve once.                      *)
(***************************************************************************)
EXTENDS MemoryBudget, Integers, Functions

CONSTANTS
    Archives,    \* archive paths
    None,        \* no task
    OpOf,        \* the operation a task belongs to
    ArchiveOf,   \* the archive a task admits
    First,       \* bytes a task reserves to admit its archive
    Second,      \* bytes it then reserves to decode members, 0 for none
    Expects,     \* version the task's descriptor names, 0 for discover_archive
    MaxVersion,  \* bound: versions of an archive file
    MaxFaults    \* bound: extractions that fail

ASSUME AdmissionConstants ==
    /\ OpOf \in [Tasks -> Ops]
    /\ ArchiveOf \in [Tasks -> Archives]
    /\ First \in [Tasks -> Nat] /\ Second \in [Tasks -> Nat]
    /\ Expects \in [Tasks -> 0..MaxVersion]
    /\ None \notin Tasks
    /\ MaxVersion \in Nat \ {0} /\ MaxFaults \in Nat

VARIABLES
    file,      \* file[a]: version of the archive file, its identity and content
    session,   \* session[o]: "before", "open" or "closed"
    slot,      \* slot[a]: the version extracted for a, 0 if the slot is empty
    owner,     \* owner[a]: the task that holds the slot's mutex
    pc,        \* where each task is
    identity,  \* file_identity taken when the task opened the file
    content,   \* what the task read, 0 for a mixture of versions
    got,       \* the version of the directory a task was given, 0 before
    faults     \* failed extractions so far

admission == <<slot, owner, identity, content, got>>
vars == <<budgetVars, admission, file, session, pc, faults>>

Labels == {"queued", "first", "slot", "opened", "read", "admitted", "second", "decoding", "done", "failed"}
Ended == {"done", "failed"}
InSlot == {"opened", "read"}

TypeOK ==
    /\ BudgetTypeOK
    /\ file \in [Archives -> 1..MaxVersion]
    /\ session \in [Ops -> {"before", "open", "closed"}]
    /\ slot \in [Archives -> 0..MaxVersion]
    /\ owner \in [Archives -> Tasks \union {None}]
    /\ pc \in [Tasks -> Labels]
    /\ identity \in [Tasks -> 0..MaxVersion]
    /\ content \in [Tasks -> 0..MaxVersion]
    /\ got \in [Tasks -> 0..MaxVersion]
    /\ faults \in 0..MaxFaults

Init ==
    /\ BudgetInit
    /\ file = [a \in Archives |-> 1]
    /\ session = [o \in Ops |-> "before"]
    /\ slot = [a \in Archives |-> 0]
    /\ owner = [a \in Archives |-> None]
    /\ pc = [t \in Tasks |-> "queued"]
    /\ identity = [t \in Tasks |-> 0]
    /\ content = [t \in Tasks |-> 0]
    /\ got = [t \in Tasks |-> 0]
    /\ faults = 0

Goto(t, l) == pc' = [pc EXCEPT ![t] = l]
TasksOf(o) == {t \in Tasks : OpOf[t] = o}
Users == {o \in Ops : session[o] = "open"}

-----------------------------------------------------------------------------
(* Sessions.                                                               *)

OpenSession(o) ==
    /\ session[o] = "before"
    /\ session' = [session EXCEPT ![o] = "open"]
    /\ UNCHANGED <<budgetVars, admission, file, pc, faults>>

\* Mutant: every session clears the cache, whoever else uses it.
CloseSession_ClearsAlways(o) ==
    /\ session[o] = "open"
    /\ \A t \in TasksOf(o) : pc[t] \in Ended
    /\ session' = [session EXCEPT ![o] = "closed"]
    /\ slot' = [a \in Archives |-> 0]
    /\ UNCHANGED <<budgetVars, owner, identity, content, got, file, pc, faults>>

\* The guard outlives the pool's tasks; the last user clears the directories.
CloseSession(o) ==
    /\ session[o] = "open"
    /\ \A t \in TasksOf(o) : pc[t] \in Ended
    /\ session' = [session EXCEPT ![o] = "closed"]
    /\ slot' = IF Users = {o} THEN [a \in Archives |-> 0] ELSE slot
    /\ UNCHANGED <<budgetVars, owner, identity, content, got, file, pc, faults>>

-----------------------------------------------------------------------------
(* Tasks.                                                                  *)

\* A worker picks the task up, or the pool skips it after a failure.
Start(t) ==
    /\ pc[t] = "queued"
    /\ session[OpOf[t]] = "open"
    /\ \/ Goto(t, "first")
       \/ (\E u \in TasksOf(OpOf[t]) : pc[u] = "failed") /\ Goto(t, "failed")
    /\ UNCHANGED <<budgetVars, admission, file, session, faults>>

Want(t) == IF pc[t] = "first" THEN First[t] ELSE Second[t]

\* reserve() refuses a job that can never fit.
Refuse(t) ==
    /\ pc[t] \in {"first", "second"}
    /\ Want(t) > Limit
    /\ Goto(t, "failed")
    /\ UNCHANGED <<budgetVars, admission, file, session, faults>>

Acquire(t) ==
    /\ pc[t] \in {"first", "second"}
    /\ \/ Reserve(OpOf[t], t, Want(t)) /\ Goto(t, IF pc[t] = "first" THEN "slot" ELSE "decoding")
       \/ Wait(OpOf[t], t, Want(t)) /\ UNCHANGED pc
    /\ UNCHANGED <<admission, file, session, faults>>

\* slot.lock(), then open() and file_identity().
LockSlot(t) ==
    LET a == ArchiveOf[t] IN
    /\ pc[t] = "slot"
    /\ owner[a] = None
    /\ owner' = [owner EXCEPT ![a] = t]
    /\ identity' = [identity EXCEPT ![t] = file[a]]
    /\ Goto(t, "opened")
    /\ UNCHANGED <<budgetVars, slot, content, got, file, session, faults>>

Unlock(t) == owner' = [owner EXCEPT ![ArchiveOf[t]] = None]

\* An error returns through both guards: the slot's and the reservation's.
Fail(t) ==
    /\ Unlock(t)
    /\ Drop(OpOf[t], t, TRUE)
    /\ Goto(t, "failed")

Matches(t, v) == Expects[t] \in {0, v}

\* An earlier admission is shared if the file is still the one it extracted.
Reuse(t) ==
    LET a == ArchiveOf[t] IN
    /\ pc[t] = "opened"
    /\ slot[a] # 0
    /\ IF slot[a] = identity[t] /\ Matches(t, slot[a])
       THEN /\ Unlock(t)
            /\ got' = [got EXCEPT ![t] = slot[a]]
            /\ Goto(t, "admitted")
            /\ UNCHANGED budgetVars
       ELSE Fail(t) /\ UNCHANGED got
    /\ UNCHANGED <<slot, identity, content, file, session, faults>>

\* read_to_end: a file that changes meanwhile may give old, new or mixed bytes.
Read(t) ==
    LET a == ArchiveOf[t] IN
    /\ pc[t] = "opened"
    /\ slot[a] = 0
    /\ content' \in {[content EXCEPT ![t] = v] :
                        v \in {identity[t], file[a]} \union (IF file[a] = identity[t] THEN {} ELSE {0})}
    /\ Goto(t, "read")
    /\ UNCHANGED <<budgetVars, slot, owner, identity, got, file, session, faults>>

\* Mutant: the identity is not taken again after the read.
Extract_NoRecheck(t) ==
    LET a == ArchiveOf[t] IN
    /\ pc[t] = "read"
    /\ IF Matches(t, content[t])
       THEN /\ slot' = [slot EXCEPT ![a] = identity[t]]
            /\ got' = [got EXCEPT ![t] = content[t]]
            /\ Unlock(t)
            /\ Goto(t, "admitted")
            /\ UNCHANGED budgetVars
       ELSE Fail(t) /\ UNCHANGED <<slot, got>>
    /\ UNCHANGED <<identity, content, file, session, faults>>

\* The hashes and both identities must agree before anything is extracted.
Extract(t) ==
    LET a == ArchiveOf[t] IN
    /\ pc[t] = "read"
    /\ IF file[a] = identity[t] /\ Matches(t, content[t])
       THEN /\ slot' = [slot EXCEPT ![a] = identity[t]]
            /\ got' = [got EXCEPT ![t] = content[t]]
            /\ Unlock(t)
            /\ Goto(t, "admitted")
            /\ UNCHANGED budgetVars
       ELSE Fail(t) /\ UNCHANGED <<slot, got>>
    /\ UNCHANGED <<identity, content, file, session, faults>>

\* A damaged archive, or no space: the slot stays empty for a later retry.
ExtractFails(t) ==
    /\ pc[t] = "read"
    /\ faults < MaxFaults
    /\ faults' = faults + 1
    /\ Fail(t)
    /\ UNCHANGED <<slot, identity, content, got, file, session>>

\* Mutant: the first reservation is kept while the second is taken.
Admitted_HoldsBoth(t) ==
    /\ pc[t] = "admitted"
    /\ IF Second[t] = 0
       THEN Drop(OpOf[t], t, FALSE) /\ Goto(t, "done")
       ELSE UNCHANGED budgetVars /\ Goto(t, "second")
    /\ UNCHANGED <<admission, file, session, faults>>

\* drop(archive_reservation) comes before the second reserve().
Admitted(t) ==
    /\ pc[t] = "admitted"
    /\ Drop(OpOf[t], t, FALSE)
    /\ Goto(t, IF Second[t] = 0 THEN "done" ELSE "second")
    /\ UNCHANGED <<admission, file, session, faults>>

Decoded(t) ==
    /\ pc[t] = "decoding"
    /\ \E failed \in BOOLEAN :
        /\ Drop(OpOf[t], t, failed)
        /\ Goto(t, IF failed THEN "failed" ELSE "done")
    /\ UNCHANGED <<admission, file, session, faults>>

TaskStep(t) ==
    \/ Start(t) \/ Refuse(t) \/ Acquire(t) \/ LockSlot(t) \/ Reuse(t)
    \/ Read(t) \/ Extract(t) \/ Admitted(t) \/ Decoded(t)

-----------------------------------------------------------------------------

\* Somebody outside rewrites or replaces an archive.
ChangeFile(a) ==
    /\ file[a] < MaxVersion
    /\ file' = [file EXCEPT ![a] = @ + 1]
    /\ UNCHANGED <<budgetVars, admission, session, pc, faults>>

Wake(t) == SpuriousWake(t) /\ UNCHANGED <<admission, file, session, pc, faults>>

Next ==
    \/ \E o \in Ops : OpenSession(o) \/ CloseSession(o)
    \/ \E t \in Tasks : TaskStep(t) \/ ExtractFails(t) \/ Wake(t)
    \/ \E a \in Archives : ChangeFile(a)

Spec == Init /\ [][Next]_vars

\* Every worker thread keeps running; it sleeps only on the condition variable
\* or on a slot another task holds.
Fairness ==
    /\ \A t \in Tasks : WF_vars(TaskStep(t))
    /\ \A o \in Ops : WF_vars(CloseSession(o))

LiveSpec == Spec /\ Fairness

-----------------------------------------------------------------------------

\* The counter of a budget is what its live reservations add up to, so that
\* none leaks on an error path and the jobs admitted together fit the limit.
BudgetIsExact ==
    \A o \in Ops :
        /\ used[o] = FoldFunctionOnSet(+, 0, held, TasksOf(o))
        /\ used[o] <= Limit
        /\ \A t \in TasksOf(o) : pc[t] \in Ended \union {"queued", "first", "second"} => held[t] = 0

\* Operations whose sessions overlap never work from two versions of an
\* archive, and never from bytes read across a change.
SessionsAgree ==
    \A t, u \in Tasks :
        /\ pc[t] \in {"admitted", "second", "decoding", "done"} => got[t] # 0
        /\ /\ {OpOf[t], OpOf[u]} \subseteq Users
           /\ ArchiveOf[t] = ArchiveOf[u]
           /\ got[t] # 0 /\ got[u] # 0
           => got[t] = got[u]

\* A task is only given the file it opened itself, whole, and the one its
\* descriptor names, whether it extracted it or shares an earlier extraction.
AdmittedIsTheOpenedFile ==
    \A t \in Tasks : got[t] # 0 => got[t] = identity[t] /\ Matches(t, got[t])

\* No task waits forever for memory or for another's extraction: every
\* operation ends.
EveryOperationEnds == \A o \in Ops : session[o] = "open" ~> session[o] = "closed"
=============================================================================
