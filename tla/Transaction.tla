---------------------------- MODULE Transaction ----------------------------
(***************************************************************************)
(* The crash-recoverable publication transaction of the conformance        *)
(* publisher (conformance/publisher/src/transaction.rs) and the part of    *)
(* publication.rs that drives it.  One directory is the transaction's      *)
(* parent.  Writers publish into it under an exclusive flock, readers read *)
(* it under a shared one, and whoever finds a journal recovers it first.   *)
(*                                                                         *)
(* Any process may be killed between two steps, and any step may fail with *)
(* an I/O error.  What a process has done to the file system survives it;  *)
(* its flock does not.                                                     *)
(***************************************************************************)
EXTENDS Integers, FiniteSets

CONSTANTS
    Writers,     \* processes that publish (publish_prepared)
    Readers,     \* processes that read the parent (Lease::read)
    NoProc,      \* "nobody holds the exclusive lease"
    N,           \* number of destinations of a transaction
    Dirs,        \* the destinations that are directories; the others are files
    Entries,     \* the files of a directory payload
    Retained,    \* destinations passed as retain_on_rollback
    MaxVersion,  \* bound: versions ever staged (version 1 is the initial one)
    MaxFaults    \* bound: crashes and I/O errors in a behaviour

Dests == 1..N
Procs == Writers \union Readers

ASSUME TransactionConstants ==
    /\ N \in Nat \ {0}
    /\ Dirs \subseteq Dests
    /\ Retained \subseteq Dests
    /\ Entries # {}
    /\ MaxVersion \in Nat
    /\ MaxFaults \in Nat
    /\ Writers \intersect Readers = {}
    /\ NoProc \notin Procs

VARIABLES
    dest,      \* the tree at each destination
    stage,     \* each writer's candidates, under .native-publication-stage-*
    backup,    \* each writer's snapshots, under .conformance-transaction-backup-*
    journal,   \* .conformance-transaction.json
    ex,        \* holder of the exclusive flock
    sh,        \* holders of the shared flock
    pc,        \* where each process is
    idx,       \* the destination its loop has reached
    ret,       \* where its recovery returns to
    version,   \* the last version staged
    faults,    \* crashes and errors so far
    torn       \* history: destinations whose snapshot an interrupted recovery
               \* left incomplete, since the last commit

disk  == <<dest, stage, backup, journal>>
lease == <<ex, sh>>
ctl   == <<pc, idx, ret>>
past  == <<faults, torn>>
vars  == <<dest, stage, backup, journal, ex, sh, pc, idx, ret, version, faults, torn>>

-----------------------------------------------------------------------------
(* Trees.  Version 0 is "no such path"; a directory may lack entries.      *)

Trees == [ver : Nat, parts : SUBSET Entries]
Absent == [ver |-> 0, parts |-> {}]
Whole(v) == [ver |-> v, parts |-> Entries]
Exists(t) == t.ver # 0

\* remove(): a file goes at once, a directory entry by entry and then itself.
RemoveStep(d, t) ==
    IF d \in Dirs /\ t.parts # {}
    THEN {[t EXCEPT !.parts = t.parts \ {e}] : e \in t.parts}
    ELSE {Absent}

NoJournal == [phase |-> "none", owner |-> NoProc, had |-> [d \in Dests |-> FALSE]]
Journals == [phase : {"none", "prepared", "committed"},
             owner : Writers \union {NoProc},
             had   : [Dests -> BOOLEAN]]
Empty == [d \in Dests |-> Absent]

\* Recovery's labels, then the writer's, then the reader's.
RecoveryLabels == {"recover", "rollback", "unstage", "unbackup", "unjournal", "orphans"}
WriterLabels == {"stage", "prepare", "seal", "swap", "commit", "cleanup"}
ReaderLabels == {"shared", "check", "exclusive", "reading"}
Labels == {"idle"} \union RecoveryLabels \union WriterLabels \union ReaderLabels
Returns == {"idle", "stage", "prepare", "cleanup", "shared"}

TypeOK ==
    /\ dest \in [Dests -> Trees]
    /\ stage \in [Writers -> [Dests -> Trees]]
    /\ backup \in [Writers -> [Dests -> Trees]]
    /\ journal \in Journals
    /\ ex \in Procs \union {NoProc}
    /\ sh \in SUBSET Readers
    /\ pc \in [Procs -> Labels]
    /\ idx \in [Procs -> 0..N + 1]
    /\ ret \in [Procs -> Returns]
    /\ version \in Nat \ {0}
    /\ faults \in Nat
    /\ torn \subseteq Dests

Init ==
    /\ dest \in [Dests -> {Absent, Whole(1)}]
    /\ stage = [w \in Writers |-> Empty]
    /\ backup = [w \in Writers |-> Empty]
    /\ journal = NoJournal
    /\ ex = NoProc
    /\ sh = {}
    /\ pc = [p \in Procs |-> "idle"]
    /\ idx = [p \in Procs |-> 0]
    /\ ret = [p \in Procs |-> "idle"]
    /\ version = 1
    /\ faults = 0
    /\ torn = {}

Goto(p, l) == pc' = [pc EXCEPT ![p] = l]
Loop(p, l, i) == Goto(p, l) /\ idx' = [idx EXCEPT ![p] = i]
\* Call recover_preserving; its caller goes on at r.
Recover(p, r) == Goto(p, "recover") /\ ret' = [ret EXCEPT ![p] = r]
Release(p) ==
    /\ ex' = IF ex = p THEN NoProc ELSE ex
    /\ sh' = sh \ {p}

-----------------------------------------------------------------------------
(* Recovery: recover_preserving and cleanup_orphan_transactions, run by the *)
(* holder p of the exclusive lease.                                        *)

\* Mutant: a prepared transaction is discarded like a committed one.
RecoverStart_NoRollback(p) ==
    /\ pc[p] = "recover"
    /\ Loop(p, IF journal.phase = "none" THEN "orphans" ELSE "unstage", 0)
    /\ UNCHANGED <<disk, lease, ret, version, past>>

\* Mutant: a committed transaction is rolled back like a prepared one.
RecoverStart_RollsBackCommits(p) ==
    /\ pc[p] = "recover"
    /\ IF journal.phase = "none" THEN Loop(p, "orphans", 0) ELSE Loop(p, "rollback", N)
    /\ UNCHANGED <<disk, lease, ret, version, past>>

\* The journal decides what there is to do.
RecoverStart(p) ==
    /\ pc[p] = "recover"
    /\ \/ journal.phase = "none" /\ Loop(p, "orphans", 0)
       \/ journal.phase = "prepared" /\ Loop(p, "rollback", N)
       \/ journal.phase = "committed" /\ Loop(p, "unstage", 0)
    /\ UNCHANGED <<disk, lease, ret, version, past>>

\* The two ensure! checks of the rollback loop on destination d.
RollbackChecks(d) ==
    IF journal.had[d]
    THEN Exists(backup[journal.owner][d]) \/ Exists(dest[d])
    ELSE ~ Exists(backup[journal.owner][d])

\* Mutant: the loop skips a destination and runs off its start.
RollbackRestore_SkipsOne(p, d) ==
    /\ journal.had[d]
    /\ dest' = [dest EXCEPT ![d] = backup[journal.owner][d]]
    /\ Loop(p, "rollback", d - 2)

\* restore(): the exchange installs a copy of the snapshot in one step.
RollbackRestore(p, d) ==
    /\ journal.had[d]
    /\ RollbackChecks(d)
    /\ dest' = IF Exists(backup[journal.owner][d])
               THEN [dest EXCEPT ![d] = backup[journal.owner][d]] ELSE dest
    /\ Loop(p, "rollback", d - 1)

\* A destination the transaction created is removed, unless it is retained.
RollbackRemove(p, d) ==
    /\ ~ journal.had[d]
    /\ RollbackChecks(d)
    /\ IF d \in Retained \/ ~ Exists(dest[d])
       THEN dest' = dest /\ Loop(p, "rollback", d - 1)
       ELSE /\ \E t \in RemoveStep(d, dest[d]) : dest' = [dest EXCEPT ![d] = t]
            /\ UNCHANGED <<pc, idx>>

Rollback(p) ==
    /\ pc[p] = "rollback"
    /\ idx[p] # 0
    /\ RollbackRestore(p, idx[p]) \/ RollbackRemove(p, idx[p])
    /\ UNCHANGED <<stage, backup, journal, lease, ret, version, past>>

RollbackDone(p) ==
    /\ pc[p] = "rollback"
    /\ idx[p] = 0
    /\ Goto(p, "unstage")
    /\ UNCHANGED <<disk, lease, idx, ret, version, past>>

\* remove() of the stage the journal's candidates lie in.
Unstage(p) ==
    /\ pc[p] = "unstage"
    /\ stage' = [stage EXCEPT ![journal.owner] = Empty]
    /\ Goto(p, "unbackup")
    /\ UNCHANGED <<dest, backup, journal, lease, idx, ret, version, past>>

\* remove(&backup_root) is a remove_dir_all: one unlink at a time.
Unbackup(p) ==
    /\ pc[p] = "unbackup"
    /\ \/ \E d \in Dests : \E t \in RemoveStep(d, backup[journal.owner][d]) :
            /\ Exists(backup[journal.owner][d])
            /\ backup' = [backup EXCEPT ![journal.owner][d] = t]
            /\ UNCHANGED pc
       \/ /\ backup[journal.owner] = Empty
          /\ Goto(p, "unjournal")
          /\ UNCHANGED backup
    /\ UNCHANGED <<dest, stage, journal, lease, idx, ret, version, past>>

Unjournal(p) ==
    /\ pc[p] = "unjournal"
    /\ journal' = NoJournal
    /\ Goto(p, "orphans")
    /\ UNCHANGED <<dest, stage, backup, lease, idx, ret, version, past>>

\* Mutant: nobody's candidates are kept.
CleanupOrphans_ForgetsActive(p) ==
    /\ pc[p] = "orphans"
    /\ stage' = [w \in Writers |-> Empty]
    /\ backup' = [w \in Writers |-> Empty]
    /\ Loop(p, ret[p], 1)
    /\ IF p \in Readers THEN Release(p) ELSE UNCHANGED lease
    /\ UNCHANGED <<dest, journal, ret, version, past>>

\* Mutant: the reader goes back to its shared lease with the exclusive one in hand.
CleanupOrphans_KeepsLease(p) ==
    /\ pc[p] = "orphans"
    /\ stage' = [w \in Writers |-> IF w = p /\ ret[p] = "prepare" THEN stage[w] ELSE Empty]
    /\ backup' = [w \in Writers |-> Empty]
    /\ Loop(p, ret[p], 1)
    /\ UNCHANGED <<dest, journal, lease, ret, version, past>>

\* Only the publisher's own recovery names an active candidate to keep.
CleanupOrphans(p) ==
    /\ pc[p] = "orphans"
    /\ stage' = [w \in Writers |-> IF w = p /\ ret[p] = "prepare" THEN stage[w] ELSE Empty]
    /\ backup' = [w \in Writers |-> Empty]
    /\ Loop(p, ret[p], 1)
    \* Lease::read drops the exclusive lease it recovered under and retries.
    /\ IF p \in Readers THEN Release(p) ELSE UNCHANGED lease
    /\ UNCHANGED <<dest, journal, ret, version, past>>

RecoveryStep(p) ==
    \/ RecoverStart(p) \/ Rollback(p) \/ RollbackDone(p) \/ Unstage(p)
    \/ Unbackup(p) \/ Unjournal(p) \/ CleanupOrphans(p)

-----------------------------------------------------------------------------
(* The publisher: publish_prepared around publish_checked.                 *)

\* A new invocation wants the exclusive lease (Lease::acquire).
Begin(w) ==
    /\ pc[w] = "idle"
    /\ version < MaxVersion
    /\ Goto(w, "exclusive")
    /\ ret' = [ret EXCEPT ![w] = "stage"]
    /\ UNCHANGED <<disk, lease, idx, version, past>>

\* Mutant: the exclusive lease ignores shared ones.
LockExclusive_IgnoresReaders(p) ==
    /\ pc[p] = "exclusive"
    /\ ex = NoProc
    /\ ex' = p
    /\ Goto(p, "recover")
    /\ UNCHANGED <<disk, sh, idx, ret, version, past>>

\* flock(LOCK_EX); the lease is not usable before its recovery returned.
LockExclusive(p) ==
    /\ pc[p] = "exclusive"
    /\ ex = NoProc /\ sh = {}
    /\ ex' = p
    /\ Goto(p, "recover")
    /\ UNCHANGED <<disk, sh, idx, ret, version, past>>

\* unique() and the pipeline build complete candidates; publish_checked then
\* recovers once more, keeping them.
Stage(w) ==
    /\ pc[w] = "stage"
    /\ version' = version + 1
    /\ stage' = [stage EXCEPT ![w] = [d \in Dests |-> Whole(version + 1)]]
    /\ Recover(w, "prepare")
    /\ UNCHANGED <<dest, backup, journal, lease, idx, past>>

\* Mutant: the snapshot of a directory does not descend into it.
Prepare_Shallow(w) ==
    /\ pc[w] = "prepare"
    /\ idx[w] <= N
    /\ backup' = [backup EXCEPT ![w][idx[w]] =
                      IF idx[w] \in Dirs THEN [dest[idx[w]] EXCEPT !.parts = {}] ELSE dest[idx[w]]]
    /\ Loop(w, "prepare", idx[w] + 1)
    /\ UNCHANGED <<dest, stage, journal, lease, ret, version, past>>

\* backup_existing of the next destination, if there is one to save.
Prepare(w) ==
    /\ pc[w] = "prepare"
    /\ idx[w] <= N
    /\ backup' = [backup EXCEPT ![w][idx[w]] = dest[idx[w]]]
    /\ Loop(w, "prepare", idx[w] + 1)
    /\ UNCHANGED <<dest, stage, journal, lease, ret, version, past>>

\* before_commit() found the sources unchanged.
Prepared(w) ==
    /\ pc[w] = "prepare"
    /\ idx[w] = N + 1
    /\ Goto(w, "seal")
    /\ UNCHANGED <<disk, lease, idx, ret, version, past>>

\* Mutant: had_original is not recorded.
PreparedJournal_NoOriginals(w) ==
    [phase |-> "prepared", owner |-> w, had |-> [d \in Dests |-> FALSE]]

PreparedJournal(w) ==
    [phase |-> "prepared", owner |-> w, had |-> [d \in Dests |-> Exists(dest[d])]]

Seal(w) ==
    /\ pc[w] = "seal"
    /\ journal' = PreparedJournal(w)
    /\ Loop(w, "swap", 1)
    /\ UNCHANGED <<dest, stage, backup, lease, ret, version, past>>

\* Mutant: the last destination is swapped first.
Swap_Backwards(w) ==
    LET d == N + 1 - idx[w] IN
    /\ pc[w] = "swap"
    /\ idx[w] <= N
    /\ dest' = [dest EXCEPT ![d] = stage[w][d]]
    /\ stage' = [stage EXCEPT ![w][d] = IF journal.had[d] THEN dest[d] ELSE Absent]
    /\ Loop(w, "swap", idx[w] + 1)
    /\ UNCHANGED <<backup, journal, lease, ret, version, past>>

\* exchange() with an original, rename() where there was none.
Swap(w) ==
    /\ pc[w] = "swap"
    /\ idx[w] <= N
    /\ dest' = [dest EXCEPT ![idx[w]] = stage[w][idx[w]]]
    /\ stage' = [stage EXCEPT ![w][idx[w]] =
                     IF journal.had[idx[w]] THEN dest[idx[w]] ELSE Absent]
    /\ Loop(w, "swap", idx[w] + 1)
    /\ UNCHANGED <<backup, journal, lease, ret, version, past>>

Swapped(w) ==
    /\ pc[w] = "swap"
    /\ idx[w] = N + 1
    /\ Goto(w, "commit")
    /\ UNCHANGED <<disk, lease, idx, ret, version, past>>

Commit(w) ==
    /\ pc[w] = "commit"
    /\ journal' = [journal EXCEPT !.phase = "committed"]
    /\ Recover(w, "cleanup")
    /\ torn' = {}
    /\ UNCHANGED <<dest, stage, backup, lease, idx, version, faults>>

\* "Never remove a recovery candidate after an indeterminate commit."
Cleanup(w) ==
    /\ pc[w] = "cleanup"
    /\ stage' = IF journal.phase = "none" THEN [stage EXCEPT ![w] = Empty] ELSE stage
    /\ Goto(w, "idle")
    /\ Release(w)
    /\ UNCHANGED <<dest, backup, journal, idx, ret, version, past>>

PublisherStep(w) ==
    \/ Stage(w) \/ Prepare(w) \/ Prepared(w) \/ Seal(w)
    \/ Swap(w) \/ Swapped(w) \/ Commit(w) \/ Cleanup(w)

-----------------------------------------------------------------------------
(* The reader: Lease::read.                                                *)

BeginRead(r) ==
    /\ pc[r] = "idle"
    /\ Goto(r, "shared")
    /\ ret' = [ret EXCEPT ![r] = "shared"]
    /\ UNCHANGED <<disk, lease, idx, version, past>>

LockShared(r) ==
    /\ pc[r] = "shared"
    /\ ex = NoProc
    /\ sh' = sh \union {r}
    /\ Goto(r, "check")
    /\ UNCHANGED <<disk, ex, idx, ret, version, past>>

\* Mutant: the reader trusts the lease alone.
CheckJournal_Trusts(r) ==
    /\ pc[r] = "check"
    /\ Goto(r, "reading")
    /\ UNCHANGED <<disk, lease, idx, ret, version, past>>

\* Mutant: the shared lease is upgraded in place.
CheckJournal_Upgrades(r) ==
    /\ pc[r] = "check"
    /\ Goto(r, IF journal.phase = "none" THEN "reading" ELSE "exclusive")
    /\ UNCHANGED <<disk, lease, idx, ret, version, past>>

\* A journal means: drop the shared lease and recover under a fresh exclusive
\* one, never upgrading the shared lease in place.
CheckJournal(r) ==
    /\ pc[r] = "check"
    /\ IF journal.phase = "none"
       THEN Goto(r, "reading") /\ UNCHANGED lease
       ELSE Goto(r, "exclusive") /\ Release(r)
    /\ UNCHANGED <<disk, idx, ret, version, past>>

EndRead(r) ==
    /\ pc[r] = "reading"
    /\ Goto(r, "idle")
    /\ Release(r)
    /\ UNCHANGED <<disk, idx, ret, version, past>>

-----------------------------------------------------------------------------
(* Faults.                                                                 *)

\* kill -9: the kernel drops the flock, the file system keeps everything.
Crash(p) ==
    /\ pc[p] # "idle"
    /\ Goto(p, "idle")
    /\ Release(p)
    /\ UNCHANGED <<disk, idx, ret, version>>

\* An error outside publish_checked returns and drops the lease.
FailOutside(p) ==
    /\ \/ pc[p] \in ReaderLabels \union {"cleanup"}
       \/ pc[p] \in RecoveryLabels /\ ret[p] \in {"stage", "shared"}
    /\ Goto(p, "idle")
    /\ Release(p)
    /\ UNCHANGED <<disk, ret>>

\* Staging and publish_checked's own recovery leave the rest to the cleanup.
FailStaging(p) ==
    /\ \/ pc[p] = "stage"
       \/ pc[p] \in RecoveryLabels /\ ret[p] \in {"prepare", "cleanup"}
    /\ Goto(p, "cleanup")
    /\ UNCHANGED <<disk, lease, ret>>

\* An error before the journal (before_commit's included) drops the backup.
FailPrepare(w) ==
    /\ pc[w] = "prepare"
    /\ backup' = [backup EXCEPT ![w] = Empty]
    /\ Goto(w, "cleanup")
    /\ UNCHANGED <<dest, stage, journal, lease, ret>>

\* journal() fails before its rename or after it.
FailSeal(w) ==
    /\ pc[w] = "seal"
    /\ journal' \in {journal, PreparedJournal(w)}
    /\ Goto(w, "cleanup")
    /\ UNCHANGED <<dest, stage, backup, lease, ret>>

\* A failed swap or commit rolls back, unless the commit is already visible.
FailSwap(w) ==
    /\ pc[w] \in {"swap", "commit"}
    /\ \/ Recover(w, "cleanup") /\ UNCHANGED journal
       \/ /\ pc[w] = "commit"
          /\ journal' = [journal EXCEPT !.phase = "committed"]
          /\ Goto(w, "cleanup")
          /\ UNCHANGED ret
    /\ UNCHANGED <<dest, stage, backup, lease>>

Fail(p) ==
    /\ \/ FailOutside(p) \/ FailStaging(p)
       \/ FailPrepare(p) \/ FailSeal(p) \/ FailSwap(p)
    /\ UNCHANGED <<idx, version>>

\* What p leaves torn, interrupted while it removes the snapshots it has restored
\* and the journal still says prepared.
Tears(p) ==
    {d \in Dests :
        /\ pc[p] = "unbackup" /\ journal.phase = "prepared"
        /\ Exists(backup[journal.owner][d])
        /\ backup[journal.owner][d].parts # Entries}

Fault(p) ==
    /\ faults < MaxFaults
    /\ faults' = faults + 1
    /\ Crash(p) \/ Fail(p)
    /\ torn' = IF journal'.phase = "committed" THEN {} ELSE torn \union Tears(p)

-----------------------------------------------------------------------------

\* What a running process does next, once it is not waiting for a lock.
Step(p) ==
    \/ RecoveryStep(p)
    \/ p \in Writers /\ PublisherStep(p)
    \/ p \in Readers /\ (LockShared(p) \/ CheckJournal(p) \/ EndRead(p))

Next ==
    \/ \E w \in Writers : Begin(w)
    \/ \E r \in Readers : BeginRead(r)
    \/ \E p \in Procs : LockExclusive(p) \/ Step(p) \/ Fault(p)

Spec == Init /\ [][Next]_vars

\* A live process keeps running, and the kernel serves every flock waiter.
Fairness ==
    \A p \in Procs : WF_vars(Step(p)) /\ SF_vars(LockShared(p)) /\ SF_vars(LockExclusive(p))

LiveSpec == Spec /\ Fairness

-----------------------------------------------------------------------------
(* What the publication is worth.                                          *)

\* A recovery has restored the destinations and removes the snapshots.
Restored == \E p \in Procs : pc[p] = "unbackup"

\* The tree at d once the recovery that runs, or the next one, is over.
Outcome(d) ==
    LET saved == backup[journal.owner][d] IN
    IF journal.phase # "prepared" \/ Restored THEN dest[d]
    ELSE IF journal.had[d] THEN IF Exists(saved) THEN saved ELSE dest[d]
    ELSE IF d \in Retained THEN dest[d] ELSE Absent

Published == [d \in Dests |-> Outcome(d)]

\* The step that Publication does not promise away: a process is killed or fails
\* while it removes the snapshots of a transaction it has rolled back.
Interruption ==
    journal.phase = "prepared" /\ \E p \in Procs : pc[p] = "unbackup" /\ Fault(p)

\* The directory lease is exclusive: a holder of LOCK_EX is alone, and only a
\* holder is inside the recovery or the transaction.
LeaseExclusive ==
    /\ ex # NoProc => sh = {}
    /\ \A p \in Procs : pc[p] \in RecoveryLabels \union WriterLabels => ex = p

\* A reader that was given the lease sees the destinations of one completed
\* publication: nothing half swapped, half restored or half removed.  Files may lack
\* only where an interrupted recovery has lost them and nothing was published since.
ReadersSeeOnePublication ==
    \A r \in Readers : pc[r] = "reading" =>
        /\ \A d \in Dests \ torn : Exists(dest[d]) => dest[d].parts = Entries
        /\ \A d \in Dests \ Retained : dest[d].ver > 1 =>
                \A c \in Dests : dest[c].ver = dest[d].ver

\* "Keep the rollback snapshot immutable so recovery can itself be interrupted":
\* with no journal left, every destination is a whole tree again.
InterruptedRecoveryIsRepeatable ==
    journal.phase = "none" => \A d \in Dests : Exists(dest[d]) => dest[d].parts = Entries

\* One crash or error, wherever it comes, loses no file of any destination: to lose
\* one, a transaction must fail and its recovery be interrupted.
OneFaultLosesNothing == faults <= 1 => InterruptedRecoveryIsRepeatable

\* Viewers read without a lease.  The generation a visible catalog was published
\* with is installed before it and outlives it, also in a rollback: nobody ever
\* finds a catalog that is ahead of its generation.
CatalogsFindTheirGeneration ==
    \A g \in Retained, d \in Dests \ Retained :
        g < d /\ dest[d].ver > 1 => dest[g].ver >= dest[d].ver

\* The bytes under a reader's lease do not move.
ReadersAreStable ==
    [][\A r \in Readers : pc[r] = "reading" /\ pc'[r] = "reading" => dest' = dest]_vars

\* The ensure! checks of the rollback never refuse a journal this code wrote:
\* no interruption leaves a directory nobody can recover.
RecoveryIsNeverStuck ==
    \A p \in Procs : pc[p] = "rollback" /\ idx[p] # 0 => RollbackChecks(idx[p])

\* A commit that became visible is never rolled back.
CommitIsFinal ==
    [][journal.phase = "committed" => dest' = dest /\ journal'.phase # "prepared"]_vars

\* Orphan cleanup and recovery never take the candidates a publisher is about to
\* install, nor the snapshots it would go back to: at every step of the swap, each
\* snapshot is the tree the swap has taken out, or will.
CandidatesSurvive ==
    \A w \in Writers :
        /\ pc[w] \in {"prepare", "seal"} => \A d \in Dests : stage[w][d] = Whole(version)
        /\ pc[w] = "swap" => \A d \in idx[w]..N : stage[w][d] = Whole(version)
        /\ pc[w] = "seal" => backup[w] = dest
        /\ pc[w] \in {"swap", "commit"} =>
            \A d \in Dests : backup[w][d] = IF d < idx[w] THEN stage[w][d] ELSE dest[d]

\* Whoever asks for the directory is served, however the last writer died, unless
\* readers overlap for ever: flock does not hold new readers back for a waiter.
EveryoneIsServed ==
    []<>(sh = {}) =>
        \A p \in Procs : pc[p] \in {"exclusive", "shared"} ~> pc[p] \in {"idle", "reading", "stage"}

\* A journal that somebody waits to recover is recovered, however many readers
\* come: none of them gets to read while it is there.
JournalsAreRecovered ==
    \A p \in Procs :
        pc[p] = "exclusive" /\ journal.phase # "none" ~> journal.phase = "none" \/ pc[p] = "idle"
=============================================================================
