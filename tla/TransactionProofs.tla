------------------------- MODULE TransactionProofs -------------------------
(***************************************************************************)
(* What holds of Transaction for any number of publishers, readers,        *)
(* destinations and faults: the lock and the journal keep what they must,  *)
(* and the snapshots and candidates a transaction works with survive       *)
(* whatever it needs them for.  Transaction implements Publication but for *)
(* the interruption that tears directories, readers see one publication    *)
(* but for what is torn, and viewers never find a catalog ahead of its     *)
(* generation.  Nothing is assumed of which destinations are directories.  *)
(***************************************************************************)
EXTENDS Transaction, TLAPS

-----------------------------------------------------------------------------
(* The inductive invariant.                                                *)

\* Writers and readers run their own labels, recovery knows its caller, and the
\* loops stay within the destinations.
ControlInv ==
    /\ \A w \in Writers :
        /\ pc[w] \notin ReaderLabels \ {"exclusive"}
        /\ pc[w] = "exclusive" => ret[w] = "stage"
        /\ pc[w] \in RecoveryLabels => ret[w] \in {"stage", "prepare", "cleanup"}
    /\ \A r \in Readers :
        /\ pc[r] \notin WriterLabels
        /\ pc[r] # "idle" => ret[r] = "shared"
    /\ \A p \in Procs :
        /\ pc[p] = "rollback" => idx[p] <= N
        /\ pc[p] \in {"prepare", "swap"} => idx[p] >= 1

\* A lock is held exactly where the code thinks it is.
LeaseInv ==
    /\ ex # NoProc => sh = {}
    /\ \A p \in Procs : pc[p] \in RecoveryLabels \union WriterLabels => ex = p
    /\ \A r \in Readers : pc[r] \in {"check", "reading"} => r \in sh

\* What each label knows of the journal.
JournalInv ==
    /\ \/ journal = NoJournal
       \/ /\ journal.phase \in {"prepared", "committed"}
          /\ journal.owner \in Writers
    /\ \A p \in Procs :
        /\ pc[p] = "rollback" => journal.phase = "prepared"
        /\ pc[p] \in {"unstage", "unbackup", "unjournal"} => journal.phase # "none"
        /\ pc[p] \in {"orphans", "stage", "prepare", "seal", "reading"} => journal.phase = "none"
        /\ pc[p] \in {"swap", "commit"} => journal.phase = "prepared"
        /\ pc[p] = "recover" /\ ret[p] = "prepare" => journal.phase = "none"

IInv == TypeOK /\ ControlInv /\ LeaseInv /\ JournalInv

LEMMA InitTypeOK == Init => TypeOK
<1> SUFFICES ASSUME Init PROVE TypeOK
  OBVIOUS
<1>1. Absent \in Trees /\ Whole(1) \in Trees
  BY DEF Absent, Whole, Trees
<1>2. NoJournal \in Journals
  BY DEF NoJournal, Journals
<1>3. pc \in [Procs -> Labels] /\ ret \in [Procs -> Returns] /\ idx \in [Procs -> 0..N + 1]
  BY TransactionConstants DEF Init, Labels, Returns
<1> QED
  BY <1>1, <1>2, <1>3 DEF Init, TypeOK, Empty

LEMMA InitIInv == Init => IInv
<1> SUFFICES ASSUME Init PROVE IInv
  OBVIOUS
<1>1. TypeOK
  BY InitTypeOK
<1>2. ControlInv /\ LeaseInv /\ JournalInv
  BY DEF Init, ControlInv, LeaseInv, JournalInv, Procs, RecoveryLabels, WriterLabels, ReaderLabels
<1> QED
  BY <1>1, <1>2 DEF IInv

-----------------------------------------------------------------------------
(* Every action preserves the control part of the invariant.               *)

CtlInv == ControlInv /\ LeaseInv /\ JournalInv

LEMMA RecoveryCtl ==
  ASSUME IInv, NEW p \in Procs, RecoveryStep(p)
  PROVE  CtlInv'
<1> USE TransactionConstants DEF IInv, TypeOK, CtlInv, ControlInv, LeaseInv, JournalInv, Procs, RecoveryLabels, WriterLabels, ReaderLabels, disk, lease, past
<1>1. CASE RecoverStart(p)
  BY <1>1 DEF RecoverStart, Loop, Goto
<1>2. CASE Rollback(p)
  BY <1>2 DEF Rollback, RollbackRestore, RollbackRemove, Loop, Goto
<1>3. CASE RollbackDone(p)
  BY <1>3 DEF RollbackDone, Goto
<1>4. CASE Unstage(p)
  BY <1>4 DEF Unstage, Goto
<1>5. CASE Unbackup(p)
  BY <1>5 DEF Unbackup, Goto
<1>6. CASE Unjournal(p)
  BY <1>6 DEF Unjournal, Goto, NoJournal
<1>7. CASE CleanupOrphans(p)
  BY <1>7 DEF CleanupOrphans, Loop, Goto, Release
<1> QED
  BY <1>1, <1>2, <1>3, <1>4, <1>5, <1>6, <1>7 DEF RecoveryStep

LEMMA PublisherCtl ==
  ASSUME IInv, NEW w \in Writers, PublisherStep(w)
  PROVE  CtlInv'
<1> USE TransactionConstants DEF IInv, TypeOK, CtlInv, ControlInv, LeaseInv, JournalInv, Procs, RecoveryLabels, WriterLabels, ReaderLabels, disk, lease, past
<1>1. CASE Stage(w)
  BY <1>1 DEF Stage, Recover, Goto
<1>2. CASE Prepare(w)
  BY <1>2 DEF Prepare, Loop, Goto
<1>3. CASE Prepared(w)
  BY <1>3 DEF Prepared, Goto
<1>4. CASE Seal(w)
  BY <1>4 DEF Seal, PreparedJournal, NoJournal, Loop, Goto
<1>5. CASE Swap(w)
  BY <1>5 DEF Swap, Loop, Goto
<1>6. CASE Swapped(w)
  BY <1>6 DEF Swapped, Goto
<1>7. CASE Commit(w)
  BY <1>7 DEF Commit, Recover, Goto, NoJournal
<1>8. CASE Cleanup(w)
  BY <1>8 DEF Cleanup, Goto, Release
<1> QED
  BY <1>1, <1>2, <1>3, <1>4, <1>5, <1>6, <1>7, <1>8 DEF PublisherStep

LEMMA ReaderCtl ==
  ASSUME IInv, NEW r \in Readers, LockShared(r) \/ CheckJournal(r) \/ EndRead(r)
  PROVE  CtlInv'
<1> USE TransactionConstants DEF IInv, TypeOK, CtlInv, ControlInv, LeaseInv, JournalInv, Procs, RecoveryLabels, WriterLabels, ReaderLabels, disk, lease, past
<1>1. CASE LockShared(r)
  BY <1>1 DEF LockShared, Goto
<1>2. CASE CheckJournal(r)
  BY <1>2 DEF CheckJournal, Goto, Release
<1>3. CASE EndRead(r)
  BY <1>3 DEF EndRead, Goto, Release
<1> QED
  BY <1>1, <1>2, <1>3

LEMMA BeginCtl ==
  ASSUME IInv
  PROVE  /\ \A w \in Writers : Begin(w) => CtlInv'
         /\ \A r \in Readers : BeginRead(r) => CtlInv'
         /\ \A p \in Procs : LockExclusive(p) => CtlInv'
<1> USE TransactionConstants DEF IInv, TypeOK, CtlInv, ControlInv, LeaseInv, JournalInv, Procs, RecoveryLabels, WriterLabels, ReaderLabels, disk, lease, past, Goto
<1>1. ASSUME NEW w \in Writers, Begin(w) PROVE CtlInv'
  BY <1>1 DEF Begin
<1>2. ASSUME NEW r \in Readers, BeginRead(r) PROVE CtlInv'
  BY <1>2 DEF BeginRead
<1>3. ASSUME NEW p \in Procs, LockExclusive(p) PROVE CtlInv'
  BY <1>3 DEF LockExclusive
<1> QED
  BY <1>1, <1>2, <1>3

LEMMA FaultCtl ==
  ASSUME IInv, NEW p \in Procs, Fault(p)
  PROVE  CtlInv'
<1> USE TransactionConstants DEF IInv, TypeOK, CtlInv, ControlInv, LeaseInv, JournalInv, Procs, RecoveryLabels, WriterLabels, ReaderLabels, disk, lease, past, Goto
<1>0. idx' = idx
  BY DEF Fault, Crash, Fail
<1>1. CASE Crash(p)
  BY <1>0, <1>1 DEF Crash, Release
<1>2. CASE FailOutside(p)
  BY <1>0, <1>2 DEF FailOutside, Release
<1>3. CASE FailStaging(p)
  BY <1>3 DEF FailStaging
<1>4. CASE FailPrepare(p)
  BY <1>4 DEF FailPrepare
<1>5. CASE FailSeal(p)
  BY <1>5 DEF FailSeal, PreparedJournal, NoJournal
<1>6. CASE FailSwap(p)
  <2>1. CASE Recover(p, "cleanup") /\ UNCHANGED journal
    BY <1>6, <2>1 DEF FailSwap, Recover
  <2>2. CASE pc[p] = "commit" /\ journal' = [journal EXCEPT !.phase = "committed"] /\ Goto(p, "cleanup") /\ UNCHANGED ret
    BY <1>6, <2>2 DEF FailSwap, NoJournal, Journals
  <2> QED
    BY <1>6, <2>1, <2>2 DEF FailSwap
<1> QED
  BY <1>1, <1>2, <1>3, <1>4, <1>5, <1>6 DEF Fault, Fail

-----------------------------------------------------------------------------
(* Every action preserves the types.                                       *)

\* A tree stays a tree while remove() takes it apart.
LEMMA RemoveStepType ==
  ASSUME NEW d \in Dests, NEW t \in Trees, NEW u \in RemoveStep(d, t)
  PROVE  u \in Trees
<1>1. CASE d \in Dirs /\ t.parts # {}
  BY <1>1 DEF RemoveStep, Trees
<1>2. CASE ~ (d \in Dirs /\ t.parts # {})
  BY <1>2 DEF RemoveStep, Trees, Absent
<1> QED
  BY <1>1, <1>2

LEMMA TreeTypes ==
  /\ Absent \in Trees
  /\ Empty \in [Dests -> Trees]
  /\ \A v \in Nat : Whole(v) \in Trees
BY DEF Absent, Empty, Whole, Trees

\* The journals the code writes are of the declared shape.
LEMMA JournalTypes ==
  ASSUME TypeOK
  PROVE  /\ NoJournal \in Journals
         /\ \A w \in Writers : PreparedJournal(w) \in Journals
         /\ [journal EXCEPT !.phase = "committed"] \in Journals
<1>1. NoJournal \in Journals
  BY DEF NoJournal, Journals
<1>2. \A w \in Writers : PreparedJournal(w) \in Journals
  <2> TAKE w \in Writers
  <2>1. [d \in Dests |-> Exists(dest[d])] \in [Dests -> BOOLEAN]
    BY DEF Exists
  <2> QED
    BY <2>1 DEF PreparedJournal, Journals
<1>3. [journal EXCEPT !.phase = "committed"] \in Journals
  BY DEF TypeOK, Journals
<1> QED
  BY <1>1, <1>2, <1>3

LEMMA RecoveryTypes ==
  ASSUME IInv, NEW p \in Procs, RecoveryStep(p)
  PROVE  TypeOK'
<1> USE TransactionConstants DEF IInv, TypeOK, Labels, RecoveryLabels, WriterLabels, disk, lease, past
<1>1. CASE RecoverStart(p)
  <2>1. 0 \in 0..N + 1 /\ N \in 0..N + 1
    OBVIOUS
  <2>2. UNCHANGED <<disk, lease, ret, version, past>>
    BY <1>1 DEF RecoverStart
  <2>3. \E l \in Labels, i \in {0, N} : pc' = [pc EXCEPT ![p] = l] /\ idx' = [idx EXCEPT ![p] = i]
    BY <1>1 DEF RecoverStart, Loop, Goto
  <2>4. pc' \in [Procs -> Labels] /\ idx' \in [Procs -> 0..N + 1]
    BY <2>1, <2>3
  <2> QED
    BY <2>2, <2>4
<1>2. CASE Rollback(p)
  <2>0. idx[p] \in 0..N + 1 /\ idx[p] # 0 /\ idx[p] # N + 1
    BY <1>2 DEF Rollback, ControlInv
  <2> DEFINE d == idx[p]
  <2>1. /\ d \in Dests
        /\ d - 1 \in 0..N + 1
        /\ UNCHANGED <<stage, backup, journal, lease, ret, version, past>>
        /\ RollbackRestore(p, d) \/ RollbackRemove(p, d)
    BY <1>2, <2>0 DEF Rollback, Dests
  <2>2. CASE RollbackRestore(p, d)
    <3>1. journal.owner \in Writers
      BY <2>1, <2>2 DEF RollbackRestore, JournalInv, NoJournal
    <3>2. backup[journal.owner][d] \in Trees
      BY <2>1, <3>1
    <3> QED
      BY <2>1, <2>2, <3>2 DEF RollbackRestore, Loop, Goto
  <2>3. CASE RollbackRemove(p, d)
    <3>1. CASE d \in Retained \/ ~ Exists(dest[d])
      BY <2>1, <2>3, <3>1 DEF RollbackRemove, Loop, Goto
    <3>2. CASE ~ (d \in Retained \/ ~ Exists(dest[d]))
      <4>1. PICK t \in RemoveStep(d, dest[d]) : dest' = [dest EXCEPT ![d] = t]
        BY <2>3, <3>2 DEF RollbackRemove
      <4>2. t \in Trees
        BY <2>1, <4>1, RemoveStepType
      <4> QED
        BY <2>1, <2>3, <3>2, <4>1, <4>2 DEF RollbackRemove
    <3> QED
      BY <3>1, <3>2
  <2> QED
    BY <2>1, <2>2, <2>3
<1>3. CASE RollbackDone(p)
  BY <1>3 DEF RollbackDone, Goto
<1>4. CASE Unstage(p)
  BY <1>4, TreeTypes DEF Unstage, Goto
<1>5. CASE Unbackup(p)
  <2>1. journal.owner \in Writers
    BY <1>5 DEF Unbackup, JournalInv, NoJournal
  <2>2. CASE backup' = backup
    BY <1>5, <2>2 DEF Unbackup, Goto
  <2>3. CASE \E d \in Dests : \E t \in RemoveStep(d, backup[journal.owner][d]) :
               /\ backup' = [backup EXCEPT ![journal.owner][d] = t]
               /\ UNCHANGED pc
    <3>1. PICK d \in Dests : \E t \in RemoveStep(d, backup[journal.owner][d]) :
             /\ backup' = [backup EXCEPT ![journal.owner][d] = t]
             /\ UNCHANGED pc
      BY <2>3
    <3>2. PICK t \in RemoveStep(d, backup[journal.owner][d]) :
             /\ backup' = [backup EXCEPT ![journal.owner][d] = t]
             /\ UNCHANGED pc
      BY <3>1
    <3>3. t \in Trees
      BY <2>1, <3>2, RemoveStepType
    <3> QED
      BY <1>5, <2>1, <3>2, <3>3 DEF Unbackup
  <2> QED
    BY <1>5, <2>2, <2>3 DEF Unbackup
<1>6. CASE Unjournal(p)
  BY <1>6, JournalTypes DEF Unjournal, Goto
<1>7. CASE CleanupOrphans(p)
  BY <1>7, TreeTypes DEF CleanupOrphans, Loop, Goto, Release, Returns, ReaderLabels
<1> QED
  BY <1>1, <1>2, <1>3, <1>4, <1>5, <1>6, <1>7 DEF RecoveryStep

LEMMA PublisherTypes ==
  ASSUME IInv, NEW w \in Writers, PublisherStep(w)
  PROVE  TypeOK'
<1> USE TransactionConstants DEF IInv, TypeOK, Labels, RecoveryLabels, WriterLabels, disk, lease, past, Procs
<1>1. CASE Stage(w)
  BY <1>1, TreeTypes DEF Stage, Recover, Goto, Returns
<1>2. CASE Prepare(w)
  <2>1. idx[w] + 1 \in 0..N + 1 /\ (idx[w] \in Dests => dest[idx[w]] \in Trees)
    BY <1>2 DEF Prepare, Dests
  <2> QED
    BY <1>2, <2>1 DEF Prepare, Loop, Goto, Dests
<1>3. CASE Prepared(w)
  BY <1>3 DEF Prepared, Goto
<1>4. CASE Seal(w)
  BY <1>4, JournalTypes DEF Seal, Loop, Goto
<1>5. CASE Swap(w)
  <2>1. /\ idx[w] \in Dests
        /\ idx[w] + 1 \in 0..N + 1
    BY <1>5 DEF Swap, Dests, Loop, ControlInv
  <2>2. dest' \in [Dests -> Trees] /\ stage' \in [Writers -> [Dests -> Trees]]
    BY <1>5, <2>1, TreeTypes DEF Swap
  <2> QED
    BY <1>5, <2>1, <2>2 DEF Swap, Loop, Goto
<1>6. CASE Swapped(w)
  BY <1>6 DEF Swapped, Goto
<1>7. CASE Commit(w)
  BY <1>7, JournalTypes DEF Commit, Recover, Goto, Returns
<1>8. CASE Cleanup(w)
  BY <1>8, TreeTypes DEF Cleanup, Goto, Release
<1> QED
  BY <1>1, <1>2, <1>3, <1>4, <1>5, <1>6, <1>7, <1>8 DEF PublisherStep

LEMMA OtherTypes ==
  ASSUME IInv
  PROVE  /\ \A w \in Writers : Begin(w) => TypeOK'
         /\ \A r \in Readers : BeginRead(r) \/ LockShared(r) \/ CheckJournal(r) \/ EndRead(r) => TypeOK'
         /\ \A p \in Procs : LockExclusive(p) => TypeOK'
<1> USE TransactionConstants DEF IInv, TypeOK, Labels, RecoveryLabels, ReaderLabels, Returns, disk, lease, past, Procs, Goto, Release
<1>1. ASSUME NEW w \in Writers, Begin(w) PROVE TypeOK'
  BY <1>1 DEF Begin
<1>2. ASSUME NEW r \in Readers, BeginRead(r) \/ LockShared(r) PROVE TypeOK'
  BY <1>2 DEF BeginRead, LockShared
<1>3. ASSUME NEW r \in Readers, CheckJournal(r) \/ EndRead(r) PROVE TypeOK'
  BY <1>3 DEF CheckJournal, EndRead
<1>4. ASSUME NEW p \in Procs, LockExclusive(p) PROVE TypeOK'
  BY <1>4 DEF LockExclusive
<1> QED
  BY <1>1, <1>2, <1>3, <1>4

LEMMA FaultTypes ==
  ASSUME IInv, NEW p \in Procs, Fault(p)
  PROVE  TypeOK'
<1> USE TransactionConstants DEF IInv, TypeOK, Labels, RecoveryLabels, WriterLabels, disk, lease, past, Procs, Goto
<1>0. /\ faults' \in Nat
      /\ torn' \subseteq Dests
      /\ Crash(p) \/ Fail(p)
  BY DEF Fault, Tears
<1>1. CASE Crash(p)
  BY <1>0, <1>1 DEF Crash, Release
<1>2. CASE Fail(p)
  <2>1. CASE FailOutside(p)
    BY <1>0, <1>2, <2>1 DEF Fail, FailOutside, Release
  <2>2. CASE FailStaging(p)
    BY <1>0, <1>2, <2>2 DEF Fail, FailStaging
  <2>3. CASE FailPrepare(p)
    <3>1. p \in Writers
      BY <2>3 DEF FailPrepare, ControlInv
    <3> QED
      BY <1>0, <1>2, <2>3, <3>1, TreeTypes DEF Fail, FailPrepare
  <2>4. CASE FailSeal(p)
    <3>1. p \in Writers
      BY <2>4 DEF FailSeal, ControlInv
    <3> QED
      BY <1>0, <1>2, <2>4, <3>1, JournalTypes DEF Fail, FailSeal
  <2>5. CASE FailSwap(p)
    <3>1. journal' \in Journals
      BY <2>5, JournalTypes DEF FailSwap
    <3>2. pc' \in [Procs -> Labels] /\ ret' \in [Procs -> Returns]
      BY <2>5 DEF FailSwap, Recover, Returns
    <3> QED
      BY <1>0, <1>2, <2>5, <3>1, <3>2 DEF Fail, FailSwap
  <2> QED
    BY <1>0, <1>2, <2>1, <2>2, <2>3, <2>4, <2>5 DEF Fail
<1> QED
  BY <1>0, <1>1, <1>2

-----------------------------------------------------------------------------
(* The theorems.                                                           *)

LEMMA StepIInv == IInv /\ [Next]_vars => IInv'
<1> SUFFICES ASSUME IInv, [Next]_vars PROVE TypeOK' /\ CtlInv'
  BY DEF IInv, CtlInv
<1>1. CASE UNCHANGED vars
  BY <1>1 DEF vars, IInv, TypeOK, CtlInv, ControlInv, LeaseInv, JournalInv
<1>2. ASSUME NEW w \in Writers, Begin(w) PROVE TypeOK' /\ CtlInv'
  BY <1>2, BeginCtl, OtherTypes
<1>3. ASSUME NEW r \in Readers, BeginRead(r) PROVE TypeOK' /\ CtlInv'
  BY <1>3, BeginCtl, OtherTypes
<1>4. ASSUME NEW p \in Procs, LockExclusive(p) PROVE TypeOK' /\ CtlInv'
  BY <1>4, BeginCtl, OtherTypes
<1>5. ASSUME NEW p \in Procs, Step(p) PROVE TypeOK' /\ CtlInv'
  <2>1. CASE RecoveryStep(p)
    BY <2>1, RecoveryCtl, RecoveryTypes
  <2>2. CASE p \in Writers /\ PublisherStep(p)
    BY <2>2, PublisherCtl, PublisherTypes
  <2>3. CASE p \in Readers /\ (LockShared(p) \/ CheckJournal(p) \/ EndRead(p))
    BY <2>3, ReaderCtl, OtherTypes
  <2> QED
    BY <1>5, <2>1, <2>2, <2>3 DEF Step
<1>6. ASSUME NEW p \in Procs, Fault(p) PROVE TypeOK' /\ CtlInv'
  BY <1>6, FaultCtl, FaultTypes
<1> QED
  BY <1>1, <1>2, <1>3, <1>4, <1>5, <1>6 DEF Next

THEOREM InductiveInvariant == Spec => []IInv
<1>1. Init => IInv
  BY InitIInv
<1>2. IInv /\ [Next]_vars => IInv'
  BY StepIInv
<1> QED
  BY <1>1, <1>2, PTL DEF Spec

\* Type correctness of the transaction, for every number of processes,
\* destinations, versions and faults.
THEOREM TypeCorrect == Spec => []TypeOK
<1>1. IInv => TypeOK
  BY DEF IInv
<1> QED
  BY <1>1, InductiveInvariant, PTL

\* transaction.rs:24 Lease: recovery and the transaction run under an
\* exclusive lease that nobody shares, whatever crashes in between.
THEOREM LeaseIsExclusive == Spec => []LeaseExclusive
<1>1. IInv => LeaseExclusive
  BY DEF IInv, LeaseInv, LeaseExclusive
<1> QED
  BY <1>1, InductiveInvariant, PTL

\* transaction.rs:48 "Hold stable source bytes alongside other readers": no
\* step of any process changes a destination while a reader reads.
THEOREM ReadersStable == Spec => ReadersAreStable
<1> DEFINE Stable == \A r \in Readers : pc[r] = "reading" /\ pc'[r] = "reading" => dest' = dest
<1>1. IInv /\ [Next]_vars => Stable
  <2> SUFFICES ASSUME IInv, [Next]_vars, NEW r \in Readers, pc[r] = "reading" PROVE dest' = dest
    OBVIOUS
  <2> USE TransactionConstants
  <2>1. /\ ex = NoProc
        /\ \A p \in Procs : pc[p] \notin RecoveryLabels \union WriterLabels
    BY DEF IInv, LeaseInv, TypeOK, Procs
  <2>2. ASSUME NEW p \in Procs, Step(p) PROVE dest' = dest
    BY <2>1, <2>2 DEF Step, RecoveryStep, RecoverStart, Rollback, RollbackDone, Unstage, Unbackup, Unjournal, CleanupOrphans,
       PublisherStep, Stage, Prepare, Prepared, Seal, Swap, Swapped, Commit, Cleanup, LockShared, CheckJournal, EndRead,
       disk, RecoveryLabels, WriterLabels
  <2>3. ASSUME NEW p \in Procs, Fault(p) PROVE dest' = dest
    BY <2>3 DEF Fault, Crash, Fail, FailOutside, FailStaging, FailPrepare, FailSeal, FailSwap, disk
  <2> QED
    BY <2>2, <2>3 DEF Next, Begin, BeginRead, LockExclusive, vars, disk
<1>2. IInv /\ [Next]_vars => [Stable]_vars
  BY <1>1
<1>3. Spec => [][Stable]_vars
  BY <1>2, InductiveInvariant, PTL DEF Spec
<1> QED
  BY <1>3 DEF ReadersAreStable

\* transaction.rs:430 "A visible commit must retain its journal": once the
\* committed journal is in place no error or crash undoes the publication.
THEOREM CommitsAreFinal == Spec => CommitIsFinal
<1> DEFINE Final == journal.phase = "committed" => dest' = dest /\ journal'.phase # "prepared"
<1>1. IInv /\ [Next]_vars => Final
  <2> SUFFICES ASSUME IInv, [Next]_vars, journal.phase = "committed" PROVE dest' = dest /\ journal'.phase # "prepared"
    OBVIOUS
  <2>1. \A p \in Procs : pc[p] \notin {"rollback", "seal", "swap", "commit"}
    BY DEF IInv, JournalInv
  <2>2. ASSUME NEW p \in Procs, Step(p) PROVE dest' = dest /\ journal'.phase # "prepared"
    BY <2>1, <2>2 DEF Step, RecoveryStep, RecoverStart, Rollback, RollbackDone, Unstage, Unbackup, Unjournal, CleanupOrphans,
       PublisherStep, Stage, Prepare, Prepared, Seal, Swap, Swapped, Commit, Cleanup, LockShared, CheckJournal, EndRead,
       disk, NoJournal
  <2>3. ASSUME NEW p \in Procs, Fault(p) PROVE dest' = dest /\ journal'.phase # "prepared"
    BY <2>1, <2>3 DEF Fault, Crash, Fail, FailOutside, FailStaging, FailPrepare, FailSeal, FailSwap, disk
  <2> QED
    BY <2>2, <2>3 DEF Next, Begin, BeginRead, LockExclusive, vars, disk
<1>2. IInv /\ [Next]_vars => [Final]_vars
  BY <1>1
<1>3. Spec => [][Final]_vars
  BY <1>2, InductiveInvariant, PTL DEF Spec
<1> QED
  BY <1>3 DEF CommitIsFinal

-----------------------------------------------------------------------------
(* Candidates and snapshots, whatever the destinations are.                *)

Active == RecoveryLabels \union WriterLabels

\* The candidates of a publisher that has staged and not yet swapped.
CandidatesOK(w) ==
    /\ pc[w] \in {"prepare", "seal"} => \A d \in Dests : stage[w][d] = Whole(version)
    /\ pc[w] = "swap" => \A d \in idx[w]..N : stage[w][d] = Whole(version)
    /\ pc[w] \in {"recover", "orphans"} /\ ret[w] = "prepare" =>
        \A d \in Dests : stage[w][d] = Whole(version)
    /\ pc[w] \in {"rollback", "unstage", "unbackup", "unjournal"} => ret[w] # "prepare"

\* The snapshots of a publisher that is about to write its journal.
SnapshotsOK(w) ==
    /\ pc[w] = "prepare" => \A d \in 1..idx[w] - 1 : backup[w][d] = dest[d]
    /\ pc[w] = "seal" => \A d \in Dests : backup[w][d] = dest[d]
    /\ pc[w] \in {"swap", "commit"} => journal.owner = w

\* What the rollback's checks ask of a journal, also after a crash.
RecoverableOK ==
    journal.phase = "prepared" =>
        \A d \in Dests : IF journal.had[d] THEN Exists(dest[d]) ELSE ~ Exists(backup[journal.owner][d])

WriterOK(w) == CandidatesOK(w) /\ SnapshotsOK(w)

GInv == RecoverableOK /\ \A w \in Writers : WriterOK(w)

-----------------------------------------------------------------------------
(* What the trees are worth.                                               *)

\* A tree is absent or a version that was staged, of which files may lack.
Versioned(t) == t = Absent \/ t.ver \in 1..version

\* A rollback removes the destination, or has begun to.
Doomed(d) == journal.phase = "prepared" /\ ~ journal.had[d] /\ d \notin Retained

\* A destination is whole, unless it is being removed or an interrupted recovery
\* has torn it.
DestOK ==
    \A d \in Dests :
        /\ Versioned(dest[d])
        /\ dest[d] = Absent \/ dest[d].parts = Entries \/ d \in torn \/ Doomed(d)

\* So is the snapshot of a prepared journal, until it is removed.
SavedOK ==
    /\ \A w \in Writers, d \in Dests : Versioned(backup[w][d])
    /\ journal.phase = "prepared" /\ ~ Restored =>
        \A d \in Dests : LET saved == backup[journal.owner][d] IN
            saved = Absent \/ saved.parts = Entries \/ d \in torn

\* The rollback is done with a destination.
RolledBack(d) ==
    IF journal.had[d]
    THEN Exists(backup[journal.owner][d]) => dest[d] = backup[journal.owner][d]
    ELSE d \in Retained \/ dest[d] = Absent

\* Its snapshot goes, and is what the destination was restored from, but for files
\* already removed.
Covered(d) ==
    LET saved == backup[journal.owner][d] IN
    IF journal.had[d]
    THEN Exists(saved) =>
            /\ dest[d].ver = saved.ver
            /\ saved.parts \subseteq dest[d].parts
            /\ d \notin Dirs => dest[d] = saved
    ELSE d \in Retained \/ dest[d] = Absent

\* What the swap has passed is installed, what it has not is the original; the
\* snapshots are the originals.
SwapOK(w) ==
    /\ pc[w] = "swap" =>
        /\ \A d \in 1..idx[w] - 1 : dest[d] = Whole(version)
        /\ \A d \in idx[w]..N : ~ journal.had[d] => dest[d] = Absent
    /\ pc[w] = "commit" => \A d \in Dests : dest[d] = Whole(version)
    /\ pc[w] \in {"swap", "commit"} => \A d \in Dests :
        /\ journal.had[d] => Exists(backup[w][d])
        /\ backup[w][d] = IF d < idx[w] THEN stage[w][d] ELSE dest[d]

RollbackOK(p) ==
    /\ pc[p] = "rollback" => \A d \in idx[p] + 1..N : RolledBack(d)
    /\ pc[p] \in {"unstage", "unjournal"} /\ journal.phase = "prepared" =>
        \A d \in Dests : RolledBack(d)
    /\ pc[p] = "unbackup" /\ journal.phase = "prepared" => \A d \in Dests : Covered(d)
    /\ pc[p] = "unjournal" => backup[journal.owner] = Empty

\* A journal is rolled back because of a fault, and torn because of another.
FaultsOK ==
    /\ journal.phase = "prepared" => faults >= 1 \/ \E w \in Writers : pc[w] \in {"swap", "commit"}
    /\ journal.phase = "committed" => torn = {}
    /\ torn # {} => faults >= 2

FInv ==
    /\ DestOK
    /\ SavedOK
    /\ FaultsOK
    /\ \A w \in Writers : SwapOK(w)
    /\ \A p \in Procs : RollbackOK(p)

-----------------------------------------------------------------------------
(* One process acts at a time, and only the holder of the exclusive lease  *)
(* touches the disk.                                                       *)

Act(p) ==
    \/ p \in Writers /\ Begin(p)
    \/ p \in Readers /\ BeginRead(p)
    \/ LockExclusive(p) \/ Step(p) \/ Fault(p)

LEMMA NextIsAnAct == Next => \E p \in Procs : Act(p)
BY DEF Next, Act, Procs

\* What a process does leaves the others where they are.
LEMMA OthersStay ==
  ASSUME IInv, NEW p \in Procs, Act(p), NEW q \in Procs, q # p
  PROVE  pc'[q] = pc[q] /\ idx'[q] = idx[q] /\ ret'[q] = ret[q]
<1> USE DEF IInv, TypeOK, Goto, Loop, Recover, disk, lease, past
<1>1. ASSUME RecoveryStep(p) PROVE pc'[q] = pc[q] /\ idx'[q] = idx[q] /\ ret'[q] = ret[q]
  BY <1>1 DEF RecoveryStep, RecoverStart, Rollback, RollbackRestore, RollbackRemove, RollbackDone, Unstage, Unbackup, Unjournal, CleanupOrphans
<1>2. ASSUME PublisherStep(p) PROVE pc'[q] = pc[q] /\ idx'[q] = idx[q] /\ ret'[q] = ret[q]
  BY <1>2 DEF PublisherStep, Stage, Prepare, Prepared, Seal, Swap, Swapped, Commit, Cleanup
<1>3. ASSUME Fault(p) PROVE pc'[q] = pc[q] /\ idx'[q] = idx[q] /\ ret'[q] = ret[q]
  BY <1>3 DEF Fault, Crash, Fail, FailOutside, FailStaging, FailPrepare, FailSeal, FailSwap
<1> QED
  BY <1>1, <1>2, <1>3 DEF Act, Step, Begin, BeginRead, LockExclusive, LockShared, CheckJournal, EndRead

\* A process that is not in the recovery or the transaction leaves the disk alone.
LEMMA OnlyHoldersWrite ==
  ASSUME IInv, NEW p \in Procs, Act(p), pc[p] \notin Active
  PROVE  UNCHANGED <<disk, version>>
<1> USE DEF IInv, TypeOK, Active, RecoveryLabels, WriterLabels
<1>1. ~ RecoveryStep(p)
  BY DEF RecoveryStep, RecoverStart, Rollback, RollbackDone, Unstage, Unbackup, Unjournal, CleanupOrphans
<1>2. ~ PublisherStep(p)
  BY DEF PublisherStep, Stage, Prepare, Prepared, Seal, Swap, Swapped, Commit, Cleanup
<1>3. Fault(p) => UNCHANGED <<disk, version>>
  BY DEF Fault, Crash, Fail, FailOutside, FailStaging, FailPrepare, FailSeal, FailSwap
<1> QED
  BY <1>1, <1>2, <1>3 DEF Act, Step, Begin, BeginRead, LockExclusive, LockShared, CheckJournal, EndRead

\* Two processes are never in the recovery or the transaction.
LEMMA Alone ==
  ASSUME IInv, NEW p \in Procs, pc[p] \in Active, NEW q \in Procs, pc[q] \in Active
  PROVE  p = q
BY DEF IInv, LeaseInv, Active

-----------------------------------------------------------------------------
(* The step of GInv: what concerns the process that acts.                  *)

LEMMA RecoveryWriterOK ==
  ASSUME IInv, NEW w \in Writers, WriterOK(w), RecoveryStep(w)
  PROVE  WriterOK(w)'
<1> USE TransactionConstants DEF IInv, TypeOK, ControlInv, JournalInv, Procs, RecoveryLabels, WriterOK, CandidatesOK, SnapshotsOK, Goto, Loop, disk, lease, past
<1>1. CASE RecoverStart(w)
  BY <1>1 DEF RecoverStart
<1>2. CASE Rollback(w)
  BY <1>2 DEF Rollback, RollbackRestore, RollbackRemove
<1>3. CASE RollbackDone(w)
  BY <1>3 DEF RollbackDone
<1>4. CASE Unstage(w)
  BY <1>4 DEF Unstage
<1>5. CASE Unbackup(w)
  BY <1>5 DEF Unbackup
<1>6. CASE Unjournal(w)
  BY <1>6 DEF Unjournal
<1>7. CASE CleanupOrphans(w)
  BY <1>7 DEF CleanupOrphans
<1> QED
  BY <1>1, <1>2, <1>3, <1>4, <1>5, <1>6, <1>7 DEF RecoveryStep

LEMMA PublisherWriterOK ==
  ASSUME IInv, NEW w \in Writers, WriterOK(w), PublisherStep(w)
  PROVE  WriterOK(w)'
<1> USE TransactionConstants DEF IInv, TypeOK, ControlInv, JournalInv, Procs, RecoveryLabels, WriterOK, CandidatesOK, SnapshotsOK, Goto, Loop, disk, lease, past, Dests
<1>1. CASE Stage(w)
  BY <1>1 DEF Stage, Recover
<1>2. CASE Prepare(w)
  <2>1. /\ idx[w] \in Dests
        /\ \A d \in Dests : backup'[w][d] = IF d = idx[w] THEN dest[d] ELSE backup[w][d]
        /\ idx'[w] = idx[w] + 1 /\ pc'[w] = "prepare"
        /\ UNCHANGED <<dest, stage, journal, version>>
    BY <1>2 DEF Prepare
  <2>2. \A d \in 1..idx'[w] - 1 : d \in Dests /\ (d = idx[w] \/ d \in 1..idx[w] - 1)
    BY <2>1
  <2> QED
    BY <1>2, <2>1, <2>2 DEF Prepare
<1>3. CASE Prepared(w)
  BY <1>3 DEF Prepared
<1>4. CASE Seal(w)
  BY <1>4 DEF Seal, PreparedJournal
<1>5. CASE Swap(w)
  BY <1>5 DEF Swap
<1>6. CASE Swapped(w)
  BY <1>6 DEF Swapped
<1>7. CASE Commit(w)
  BY <1>7 DEF Commit, Recover
<1>8. CASE Cleanup(w)
  BY <1>8 DEF Cleanup
<1> QED
  BY <1>1, <1>2, <1>3, <1>4, <1>5, <1>6, <1>7, <1>8 DEF PublisherStep

LEMMA FaultWriterOK ==
  ASSUME IInv, NEW w \in Writers, Fault(w)
  PROVE  WriterOK(w)'
BY DEF IInv, TypeOK, Procs, RecoveryLabels, WriterOK, CandidatesOK, SnapshotsOK, Goto, Fault, Crash, Fail, FailOutside, FailStaging,
   FailPrepare, FailSeal, FailSwap, Recover

LEMMA ActWriterOK ==
  ASSUME IInv, NEW w \in Writers, WriterOK(w), Act(w)
  PROVE  WriterOK(w)'
<1>1. CASE Begin(w)
  BY <1>1 DEF Begin, IInv, TypeOK, Procs, Goto, WriterOK, CandidatesOK, SnapshotsOK
<1>2. CASE LockExclusive(w)
  BY <1>2 DEF LockExclusive, IInv, TypeOK, ControlInv, Procs, Goto, WriterOK, CandidatesOK, SnapshotsOK
<1>3. CASE Step(w)
  <2>1. w \notin Readers
    BY TransactionConstants
  <2> QED
    BY <1>3, <2>1, RecoveryWriterOK, PublisherWriterOK DEF Step, Procs
<1>4. CASE Fault(w)
  BY <1>4, FaultWriterOK
<1>5. w \notin Readers
  BY TransactionConstants
<1> QED
  BY <1>1, <1>2, <1>3, <1>4, <1>5 DEF Act

-----------------------------------------------------------------------------
(* The step of GInv: the journal that may be recovered.                    *)

LEMMA RecoveryRecoverable ==
  ASSUME IInv, RecoverableOK, NEW p \in Procs, RecoveryStep(p)
  PROVE  RecoverableOK'
<1> USE DEF RecoverableOK, disk, lease, past
<1>1. CASE RecoverStart(p) \/ RollbackDone(p) \/ Unstage(p) \/ Unjournal(p) \/ CleanupOrphans(p)
  BY <1>1 DEF RecoverStart, RollbackDone, Unstage, Unjournal, CleanupOrphans, NoJournal, IInv, JournalInv
<1>2. CASE Rollback(p)
  <2> USE DEF IInv, TypeOK
  <2>1. PICK d \in Dests : RollbackRestore(p, d) \/ RollbackRemove(p, d)
    BY <1>2, TransactionConstants DEF Rollback, ControlInv, Dests
  <2>2. UNCHANGED <<backup, journal>>
    BY <1>2 DEF Rollback
  <2>3. CASE RollbackRestore(p, d)
    BY <2>2, <2>3 DEF RollbackRestore
  <2>4. CASE RollbackRemove(p, d)
    BY <2>2, <2>4 DEF RollbackRemove
  <2> QED
    BY <2>1, <2>3, <2>4
<1>3. CASE Unbackup(p)
  <2> USE DEF IInv, TypeOK
  <2>1. UNCHANGED <<dest, journal>> /\ journal.owner \in Writers
    BY <1>3 DEF Unbackup, JournalInv, NoJournal
  <2>2. CASE backup' = backup
    BY <2>1, <2>2
  <2>3. CASE \E d \in Dests : Exists(backup[journal.owner][d]) /\ \E t : backup' = [backup EXCEPT ![journal.owner][d] = t]
    BY <2>1, <2>3
  <2> QED
    BY <1>3, <2>2, <2>3 DEF Unbackup
<1> QED
  BY <1>1, <1>2, <1>3 DEF RecoveryStep

LEMMA PublisherRecoverable ==
  ASSUME IInv, RecoverableOK, NEW w \in Writers, WriterOK(w), PublisherStep(w)
  PROVE  RecoverableOK'
<1> USE DEF RecoverableOK, disk, lease, past, IInv, TypeOK, Procs
<1>1. CASE Stage(w) \/ Prepare(w) \/ Prepared(w) \/ Swapped(w) \/ Commit(w) \/ Cleanup(w)
  BY <1>1 DEF Stage, Prepare, Prepared, Swapped, Commit, Cleanup, JournalInv, Journals
<1>2. CASE Seal(w)
  BY <1>2 DEF Seal, PreparedJournal, WriterOK, SnapshotsOK
<1>3. CASE Swap(w)
  <2>1. /\ idx[w] \in Dests
        /\ idx[w] \in idx[w]..N
    BY <1>3, TransactionConstants DEF Swap, ControlInv, Dests
  <2>2. stage[w][idx[w]] = Whole(version)
    BY <1>3, <2>1 DEF Swap, WriterOK, CandidatesOK
  <2>3. Exists(Whole(version))
    BY DEF Exists, Whole
  <2> QED
    BY <1>3, <2>1, <2>2, <2>3 DEF Swap
<1> QED
  BY <1>1, <1>2, <1>3 DEF PublisherStep

LEMMA FaultRecoverable ==
  ASSUME IInv, RecoverableOK, NEW p \in Procs, p \in Writers => WriterOK(p), Fault(p)
  PROVE  RecoverableOK'
<1> USE DEF RecoverableOK, disk, lease, past, IInv, TypeOK, Procs
<1>1. CASE Crash(p) \/ FailOutside(p) \/ FailStaging(p)
  BY <1>1 DEF Crash, FailOutside, FailStaging
<1>2. CASE FailPrepare(p)
  BY <1>2 DEF FailPrepare, JournalInv
<1>3. CASE FailSeal(p)
  <2>1. p \in Writers
    BY <1>3 DEF FailSeal, ControlInv, WriterLabels
  <2> QED
    BY <1>3, <2>1 DEF FailSeal, PreparedJournal, WriterOK, SnapshotsOK
<1>4. CASE FailSwap(p)
  BY <1>4 DEF FailSwap, Journals
<1> QED
  BY <1>1, <1>2, <1>3, <1>4 DEF Fault, Fail

LEMMA ActRecoverable ==
  ASSUME IInv, GInv, NEW p \in Procs, Act(p)
  PROVE  RecoverableOK'
<1> USE DEF GInv
<1>1. CASE UNCHANGED disk
  BY <1>1 DEF disk, RecoverableOK
<1>2. CASE Step(p)
  <2>1. CASE RecoveryStep(p)
    BY <2>1, RecoveryRecoverable
  <2>2. CASE p \in Writers /\ PublisherStep(p)
    BY <2>2, PublisherRecoverable
  <2> QED
    BY <1>1, <1>2, <2>1, <2>2 DEF Step, LockShared, CheckJournal, EndRead
<1>3. CASE Fault(p)
  BY <1>3, FaultRecoverable
<1> QED
  BY <1>1, <1>2, <1>3 DEF Act, Begin, BeginRead, LockExclusive

LEMMA StepGInv == IInv /\ GInv /\ [Next]_vars => GInv'
<1> SUFFICES ASSUME IInv, GInv, [Next]_vars PROVE GInv'
  OBVIOUS
<1>1. CASE UNCHANGED vars
  BY <1>1 DEF vars, GInv, RecoverableOK, WriterOK, CandidatesOK, SnapshotsOK
<1>2. ASSUME NEW p \in Procs, Act(p) PROVE GInv'
  <2>1. RecoverableOK'
    BY <1>2, ActRecoverable
  <2>2. ASSUME NEW w \in Writers PROVE WriterOK(w)'
    <3>1. CASE w = p
      BY <1>2, <3>1, ActWriterOK DEF GInv
    <3>2. CASE w # p
      <4>1. w \in Procs /\ pc'[w] = pc[w] /\ idx'[w] = idx[w] /\ ret'[w] = ret[w]
        BY <1>2, <3>2, OthersStay DEF Procs
      <4>2. CASE pc[w] \in Active
        <5>1. UNCHANGED <<disk, version>>
          BY <1>2, <3>2, <4>1, <4>2, Alone, OnlyHoldersWrite
        <5> QED
          BY <4>1, <5>1 DEF GInv, disk, WriterOK, CandidatesOK, SnapshotsOK
      <4>3. CASE pc[w] \notin Active
        BY <4>1, <4>3 DEF Active, RecoveryLabels, WriterLabels, WriterOK, CandidatesOK, SnapshotsOK
      <4> QED
        BY <4>2, <4>3
    <3> QED
      BY <3>1, <3>2
  <2> QED
    BY <2>1, <2>2 DEF GInv
<1> QED
  BY <1>1, <1>2, NextIsAnAct

LEMMA GInvariant == Spec => [](IInv /\ GInv)
<1>1. Init => IInv /\ GInv
  <2>1. Init => GInv
    BY DEF Init, GInv, RecoverableOK, NoJournal, WriterOK, CandidatesOK, SnapshotsOK, Procs
  <2> QED
    BY <2>1, InitIInv
<1>2. IInv /\ GInv /\ [Next]_vars => (IInv /\ GInv)'
  BY StepIInv, StepGInv
<1> QED
  BY <1>1, <1>2, PTL DEF Spec

\* transaction.rs:293, the ensure! checks of the rollback loop: they hold of every
\* journal this code writes, so that whatever fails, the next process can recover.
THEOREM RecoveryNeverStuck == Spec => []RecoveryIsNeverStuck
<1>1. IInv /\ GInv => RecoveryIsNeverStuck
  <2> SUFFICES ASSUME IInv, GInv, NEW p \in Procs, pc[p] = "rollback", idx[p] # 0 PROVE RollbackChecks(idx[p])
    BY DEF RecoveryIsNeverStuck
  <2>1. idx[p] \in Dests
    BY TransactionConstants DEF IInv, TypeOK, ControlInv, Dests
  <2>2. journal.phase = "prepared"
    BY DEF IInv, JournalInv
  <2> QED
    BY <2>1, <2>2 DEF GInv, RecoverableOK, RollbackChecks
<1> QED
  BY <1>1, GInvariant, PTL

-----------------------------------------------------------------------------
(* The step of FInv.                                                       *)

\* The types these proofs use.
LEMMA DiskTypes ==
  ASSUME IInv
  PROVE  /\ dest \in [Dests -> Trees]
         /\ stage \in [Writers -> [Dests -> Trees]]
         /\ backup \in [Writers -> [Dests -> Trees]]
         /\ version \in Nat \ {0} /\ faults \in Nat /\ torn \subseteq Dests
         /\ pc \in [Procs -> Labels] /\ idx \in [Procs -> 0..N + 1]
         /\ journal.phase # "none" => journal.owner \in Writers
BY DEF IInv, TypeOK, JournalInv, NoJournal

LEMMA Trees0 ==
  /\ ~ Exists(Absent) /\ Absent.ver = 0 /\ Absent.parts = {}
  /\ \A v : Whole(v).ver = v /\ Whole(v).parts = Entries
BY DEF Exists, Absent, Whole

\* What exists of a tree has a version.
LEMMA VersionedTrees ==
  ASSUME IInv, NEW t, Versioned(t)
  PROVE  /\ ~ Exists(t) => t = Absent
         /\ t.ver \in Nat /\ t.ver <= version
BY DiskTypes, Trees0 DEF Versioned, Exists

\* remove() takes files away and leaves the version until the last of them.
LEMMA RemoveStepShrinks ==
  ASSUME NEW d \in Dests, NEW t \in Trees, NEW u \in RemoveStep(d, t)
  PROVE  u = Absent \/ (d \in Dirs /\ u.ver = t.ver /\ u.parts \subseteq t.parts)
<1>1. CASE d \in Dirs /\ t.parts # {}
  <2>1. PICK e \in t.parts : u = [t EXCEPT !.parts = t.parts \ {e}]
    BY <1>1 DEF RemoveStep
  <2> QED
    BY <1>1, <2>1 DEF Trees
<1>2. CASE ~ (d \in Dirs /\ t.parts # {})
  BY <1>2 DEF RemoveStep
<1> QED
  BY <1>1, <1>2

\* Versions only grow, and an action that is no Stage leaves them alone.
LEMMA VersionGrows ==
  ASSUME IInv, NEW p \in Procs, Act(p)
  PROVE  version' \in Nat /\ version <= version'
<1>1. version' = version \/ version' = version + 1
  <2>1. RecoveryStep(p) => version' = version
    BY DEF RecoveryStep, RecoverStart, Rollback, RollbackDone, Unstage, Unbackup, Unjournal, CleanupOrphans
  <2>2. PublisherStep(p) => version' = version \/ version' = version + 1
    BY DEF PublisherStep, Stage, Prepare, Prepared, Seal, Swap, Swapped, Commit, Cleanup
  <2>3. Fault(p) => version' = version
    BY DEF Fault, Crash, Fail
  <2> QED
    BY <2>1, <2>2, <2>3 DEF Act, Begin, BeginRead, LockExclusive, Step, LockShared, CheckJournal, EndRead
<1> QED
  BY <1>1, DiskTypes

LEMMA StaysVersioned ==
  ASSUME IInv, NEW p \in Procs, Act(p), NEW t, Versioned(t)
  PROVE  t = Absent \/ t.ver \in 1..version'
BY VersionGrows, DiskTypes DEF Versioned

\* Whether the snapshots go depends on the process that acts.
LEMMA RestoredFrame ==
  ASSUME IInv, NEW p \in Procs, Act(p)
  PROVE  /\ pc[p] # "unbackup" /\ pc'[p] # "unbackup" => Restored' = Restored
         /\ pc[p] = "unbackup" /\ pc'[p] # "unbackup" => ~ Restored'
         /\ pc[p] \in Active /\ pc[p] # "unbackup" => ~ Restored
         /\ pc[p] = "unbackup" => Restored
         /\ pc'[p] = "unbackup" => Restored'
<1>1. \A q \in Procs : q # p => pc'[q] = pc[q]
  BY OthersStay
<1>2. pc[p] \in Active => \A q \in Procs : q # p => pc[q] # "unbackup"
  BY Alone DEF Active, RecoveryLabels
<1>3. "unbackup" \in Active
  BY DEF Active, RecoveryLabels
<1> QED
  BY <1>1, <1>2, <1>3 DEF Restored

\* The destination that the rollback's loop has reached.
LEMMA RollbackAt ==
  ASSUME IInv, NEW p \in Procs, Rollback(p)
  PROVE  /\ idx[p] \in Dests /\ pc[p] = "rollback"
         /\ journal.phase = "prepared" /\ journal.owner \in Writers
         /\ RollbackRestore(p, idx[p]) \/ RollbackRemove(p, idx[p])
         /\ UNCHANGED <<backup, journal, version, past>>
         /\ pc'[p] = "rollback"
<1>1. /\ idx[p] \in Dests /\ pc[p] = "rollback"
      /\ journal.phase = "prepared" /\ journal.owner \in Writers
      /\ RollbackRestore(p, idx[p]) \/ RollbackRemove(p, idx[p])
      /\ UNCHANGED <<backup, journal, version, past>>
  BY TransactionConstants DEF Rollback, IInv, TypeOK, ControlInv, JournalInv, NoJournal, Dests
<1>2. pc'[p] = "rollback"
  BY <1>1 DEF RollbackRestore, RollbackRemove, Loop, Goto, IInv, TypeOK
<1> QED
  BY <1>1, <1>2

\* What one step of the rollback does to the destination it has reached.
LEMMA RollbackDoes ==
  ASSUME IInv, NEW p \in Procs, Rollback(p)
  PROVE  LET d == idx[p] saved == backup[journal.owner][d] IN
         \/ /\ journal.had[d] /\ Exists(saved)
            /\ dest' = [dest EXCEPT ![d] = saved] /\ idx'[p] = d - 1
         \/ /\ journal.had[d] /\ ~ Exists(saved)
            /\ dest' = dest /\ idx'[p] = d - 1
         \/ /\ ~ journal.had[d] /\ (d \in Retained \/ ~ Exists(dest[d]))
            /\ dest' = dest /\ idx'[p] = d - 1
         \/ /\ ~ journal.had[d] /\ d \notin Retained /\ idx'[p] = d
            /\ \E t \in RemoveStep(d, dest[d]) : dest' = [dest EXCEPT ![d] = t]
<1>1. CASE RollbackRestore(p, idx[p])
  BY <1>1, RollbackAt DEF RollbackRestore, Loop, IInv, TypeOK
<1>2. CASE RollbackRemove(p, idx[p])
  BY <1>2, RollbackAt DEF RollbackRemove, Loop, IInv, TypeOK
<1> QED
  BY <1>1, <1>2, RollbackAt

\* The owner of the snapshots that the recovery removes.
LEMMA UnbackupAt ==
  ASSUME IInv, NEW p \in Procs, Unbackup(p)
  PROVE  /\ pc[p] = "unbackup" /\ journal.owner \in Writers
         /\ UNCHANGED <<dest, journal, version, past, idx>>
         /\ \/ /\ pc'[p] = "unbackup"
               /\ \E d \in Dests : \E t \in RemoveStep(d, backup[journal.owner][d]) :
                     /\ Exists(backup[journal.owner][d])
                     /\ backup' = [backup EXCEPT ![journal.owner][d] = t]
            \/ backup[journal.owner] = Empty /\ UNCHANGED backup /\ pc'[p] = "unjournal"
<1>1. journal.owner \in Writers
  BY DEF Unbackup, IInv, JournalInv, NoJournal
<1>2. pc \in [Procs -> Labels]
  BY DiskTypes
<1> QED
  BY <1>1, <1>2 DEF Unbackup, Goto, disk

\* Snapshot by snapshot, what one step of their removal does.
LEMMA UnbackupDoes ==
  ASSUME IInv, NEW p \in Procs, Unbackup(p), NEW w \in Writers, NEW d \in Dests
  PROVE  \/ backup'[w][d] = backup[w][d]
         \/ backup'[w][d] = Absent
         \/ /\ d \in Dirs /\ Exists(backup[w][d])
            /\ backup'[w][d].ver = backup[w][d].ver
            /\ backup'[w][d].parts \subseteq backup[w][d].parts
<1>1. CASE backup' = backup
  BY <1>1
<1>2. ASSUME NEW c \in Dests, NEW t \in RemoveStep(c, backup[journal.owner][c]),
             Exists(backup[journal.owner][c]),
             backup' = [backup EXCEPT ![journal.owner][c] = t]
      PROVE  \/ backup'[w][d] = backup[w][d]
             \/ backup'[w][d] = Absent
             \/ /\ d \in Dirs /\ Exists(backup[w][d])
                /\ backup'[w][d].ver = backup[w][d].ver
                /\ backup'[w][d].parts \subseteq backup[w][d].parts
  <2>1. backup \in [Writers -> [Dests -> Trees]] /\ journal.owner \in Writers
    BY DiskTypes, UnbackupAt
  <2>2. CASE w = journal.owner /\ d = c
    <3>1. backup'[w][d] = t /\ backup[w][d] \in Trees
      BY <1>2, <2>1, <2>2
    <3> QED
      BY <1>2, <2>2, <3>1, RemoveStepShrinks
  <2>3. CASE ~ (w = journal.owner /\ d = c)
    BY <1>2, <2>1, <2>3
  <2> QED
    BY <2>2, <2>3
<1> QED
  BY <1>1, <1>2, UnbackupAt

\* The destination that the swap's loop has reached.
LEMMA SwapAt ==
  ASSUME IInv, GInv, NEW w \in Writers, Swap(w)
  PROVE  /\ idx[w] \in Dests /\ idx[w] + 1 \in Int
         /\ pc[w] = "swap" /\ journal.phase = "prepared" /\ journal.owner = w
         /\ dest' = [dest EXCEPT ![idx[w]] = Whole(version)]
         /\ stage' = [stage EXCEPT ![w][idx[w]] = IF journal.had[idx[w]] THEN dest[idx[w]] ELSE Absent]
         /\ UNCHANGED <<backup, journal, version, past>>
         /\ pc' = [pc EXCEPT ![w] = "swap"] /\ idx' = [idx EXCEPT ![w] = idx[w] + 1]
<1>1. idx[w] \in Dests /\ idx[w] \in idx[w]..N /\ idx[w] + 1 \in Int
  BY TransactionConstants DEF Swap, IInv, TypeOK, ControlInv, Dests, Procs
<1>2. stage[w][idx[w]] = Whole(version) /\ journal.owner = w
  BY <1>1 DEF Swap, GInv, WriterOK, CandidatesOK, SnapshotsOK
<1>3. journal.phase = "prepared"
  BY DEF Swap, IInv, JournalInv, Procs
<1> QED
  BY <1>1, <1>2, <1>3 DEF Swap, Loop, Goto

-----------------------------------------------------------------------------
\* What an action that is no fault does to the bookkeeping of what is torn.
LEMMA TornStep ==
  ASSUME IInv, FaultsOK, NEW p \in Procs, Act(p)
  PROVE  /\ torn \subseteq torn' \/ (journal'.phase = "committed" /\ \E w \in Writers : pc[w] = "commit")
         /\ Fault(p) /\ journal'.phase = "prepared" => Tears(p) \subseteq torn'
<1>1. CASE RecoveryStep(p)
  BY <1>1 DEF RecoveryStep, RecoverStart, Rollback, RollbackDone, Unstage, Unbackup, Unjournal, CleanupOrphans, past,
     Fault, Crash, Fail, IInv, TypeOK
<1>2. CASE p \in Writers /\ PublisherStep(p)
  <2>1. CASE Commit(p)
    <3>1. journal'.phase = "committed" /\ pc[p] = "commit"
      BY <2>1 DEF Commit, IInv, TypeOK, Journals
    <3> QED
      BY <1>2, <3>1
  <2>2. CASE ~ Commit(p)
    BY <1>2, <2>2 DEF PublisherStep, Stage, Prepare, Prepared, Seal, Swap, Swapped, Cleanup, past, Fault
  <2> QED
    BY <2>1, <2>2
<1>3. CASE Fault(p)
  <2>1. torn' = IF journal'.phase = "committed" THEN {} ELSE torn \union Tears(p)
    BY <1>3 DEF Fault
  <2>2. journal'.phase = "committed" => journal.phase = "committed" \/ \E w \in Writers : pc[w] = "commit"
    BY <1>3 DEF Fault, Crash, Fail, FailOutside, FailStaging, FailPrepare, FailSeal, FailSwap, PreparedJournal, disk,
       IInv, ControlInv, Procs, WriterLabels
  <2> QED
    BY <2>1, <2>2 DEF FaultsOK
<1>4. CASE ~ RecoveryStep(p) /\ ~ (p \in Writers /\ PublisherStep(p)) /\ ~ Fault(p)
  BY <1>4 DEF Act, Begin, BeginRead, LockExclusive, Step, LockShared, CheckJournal, EndRead, past
<1> QED
  BY <1>1, <1>2, <1>3, <1>4

\* The destinations and the journal stay.
LEMMA DestFrame ==
  ASSUME IInv, NEW p \in Procs, Act(p), DestOK, dest' = dest, torn \subseteq torn',
         \A d \in Dests : Doomed(d) => Doomed(d)'
  PROVE  DestOK'
BY StaysVersioned DEF DestOK, Versioned

LEMMA CommitDestOK ==
  ASSUME IInv, IInv', NEW w \in Writers, SwapOK(w), pc[w] = "commit", UNCHANGED <<dest, version>>
  PROVE  DestOK'
<1>1. version' \in Nat \ {0}
  BY DiskTypes
<1>2. \A d \in Dests : dest'[d] = Whole(version')
  BY DEF SwapOK
<1> QED
  BY <1>1, <1>2, Trees0 DEF DestOK, Versioned

LEMMA RecoveryDestOK ==
  ASSUME IInv, FInv, NEW p \in Procs, Act(p), RecoveryStep(p)
  PROVE  DestOK'
<1> USE DEF FInv
<1>0. torn' = torn /\ version' = version
  BY DEF RecoveryStep, RecoverStart, Rollback, RollbackDone, Unstage, Unbackup, Unjournal, CleanupOrphans, past
<1>1. CASE RecoverStart(p) \/ RollbackDone(p) \/ Unstage(p) \/ Unbackup(p) \/ CleanupOrphans(p)
  <2>1. dest' = dest /\ journal' = journal
    BY <1>1 DEF RecoverStart, RollbackDone, Unstage, Unbackup, CleanupOrphans, disk
  <2>2. \A d \in Dests : Doomed(d) => Doomed(d)'
    BY <2>1 DEF Doomed
  <2> QED
    BY <1>0, <2>1, <2>2, DestFrame
<1>2. CASE Rollback(p)
  <2>a. PICK c \in Dests : c = idx[p]
    BY <1>2, RollbackAt
  <2>b. PICK saved : saved = backup[journal.owner][c]
    OBVIOUS
  <2>1. journal.phase = "prepared" /\ journal.owner \in Writers /\ UNCHANGED <<backup, journal>> /\ pc[p] = "rollback"
    BY <1>2, RollbackAt
  <2>2. ~ Restored
    BY <2>1, RestoredFrame DEF Active, RecoveryLabels
  <2>3. \A d \in Dests : Doomed(d) => Doomed(d)'
    BY <2>1 DEF Doomed
  <2>4. CASE dest' = dest
    BY <1>0, <2>3, <2>4, DestFrame
  <2>5. CASE dest' = [dest EXCEPT ![c] = saved]
    <3>1. Versioned(saved) /\ (saved = Absent \/ saved.parts = Entries \/ c \in torn)
      BY <2>1, <2>2, <2>b DEF SavedOK
    <3>2. \A d \in Dests : dest'[d] = IF d = c THEN saved ELSE dest[d]
      BY <2>1, <2>5, DiskTypes
    <3> QED
      BY <1>0, <2>3, <3>1, <3>2 DEF DestOK, Versioned
  <2>6. CASE ~ journal.had[c] /\ c \notin Retained /\ \E t \in RemoveStep(c, dest[c]) : dest' = [dest EXCEPT ![c] = t]
    <3>1. PICK t \in RemoveStep(c, dest[c]) : dest' = [dest EXCEPT ![c] = t]
      BY <2>6
    <3>2. t = Absent \/ t.ver = dest[c].ver
      BY <2>1, DiskTypes, RemoveStepShrinks
    <3>3. Doomed(c)'
      BY <2>1, <2>6 DEF Doomed
    <3>4. Versioned(dest[c]) /\ (dest[c] = Absent => Absent.parts = {} /\ Absent.ver = 0)
      BY <2>1, Trees0 DEF DestOK
    <3>5. dest[c] = Absent => t = Absent
      BY <3>1, <3>4 DEF RemoveStep
    <3>6. \A d \in Dests : dest'[d] = IF d = c THEN t ELSE dest[d]
      BY <2>1, <3>1, DiskTypes
    <3> QED
      BY <1>0, <2>3, <3>2, <3>3, <3>4, <3>5, <3>6 DEF DestOK, Versioned
  <2> QED
    BY <1>2, <2>4, <2>5, <2>6, <2>a, <2>b, RollbackDoes
<1>3. CASE Unjournal(p)
  <2>1. dest' = dest /\ (journal.phase = "prepared" => \A d \in Dests : RolledBack(d))
    BY <1>3 DEF Unjournal, RollbackOK
  <2>2. \A d \in Dests : Doomed(d) => dest[d] = Absent
    BY <2>1 DEF Doomed, RolledBack
  <2> QED
    BY <1>0, <2>1, <2>2 DEF DestOK, Versioned
<1> QED
  BY <1>1, <1>2, <1>3 DEF RecoveryStep

LEMMA PublisherDestOK ==
  ASSUME IInv, IInv', GInv, FInv, NEW w \in Writers, Act(w), PublisherStep(w)
  PROVE  DestOK'
<1> USE DEF FInv
<1>0. w \in Procs
  BY DEF Procs
<1>1. CASE Stage(w) \/ Prepare(w) \/ Prepared(w) \/ Swapped(w) \/ Cleanup(w)
  <2>1. dest' = dest /\ journal' = journal /\ torn' = torn
    BY <1>1 DEF Stage, Prepare, Prepared, Swapped, Cleanup, disk, past
  <2>2. \A d \in Dests : Doomed(d) => Doomed(d)'
    BY <2>1 DEF Doomed
  <2> QED
    BY <1>0, <2>1, <2>2, DestFrame
<1>2. CASE Seal(w)
  <2>1. dest' = dest /\ torn' = torn /\ journal.phase = "none"
    BY <1>0, <1>2 DEF Seal, past, IInv, JournalInv
  <2>2. \A d \in Dests : Doomed(d) => Doomed(d)'
    BY <2>1 DEF Doomed
  <2> QED
    BY <1>0, <2>1, <2>2, DestFrame
<1>3. CASE Swap(w)
  <2>1. /\ idx[w] \in Dests /\ UNCHANGED <<journal, version, torn>>
        /\ dest' = [dest EXCEPT ![idx[w]] = Whole(version)]
    BY <1>3, SwapAt DEF past
  <2>2. \A d \in Dests : dest'[d] = IF d = idx[w] THEN Whole(version) ELSE dest[d]
    BY <2>1, DiskTypes
  <2>3. \A d \in Dests : Doomed(d) => Doomed(d)'
    BY <2>1 DEF Doomed
  <2> QED
    BY <2>1, <2>2, <2>3, Trees0, DiskTypes DEF DestOK, Versioned
<1>4. CASE Commit(w)
  BY <1>4, CommitDestOK DEF Commit
<1> QED
  BY <1>1, <1>2, <1>3, <1>4 DEF PublisherStep

LEMMA FaultDestOK ==
  ASSUME IInv, IInv', FInv, NEW p \in Procs, Act(p), Fault(p)
  PROVE  DestOK'
<1> USE DEF FInv
<1>1. dest' = dest /\ version' = version
  BY DEF Fault, Crash, Fail, FailOutside, FailStaging, FailPrepare, FailSeal, FailSwap, disk
<1>2. CASE journal' = journal
  <2>1. \A d \in Dests : Doomed(d) => Doomed(d)'
    BY <1>2 DEF Doomed
  <2>2. torn \subseteq torn'
    BY <1>2 DEF Fault, FaultsOK
  <2> QED
    BY <1>1, <2>1, <2>2, DestFrame
<1>3. CASE journal' # journal /\ FailSeal(p)
  <2>1. journal.phase = "none" /\ journal'.phase = "prepared"
    BY <1>3 DEF FailSeal, PreparedJournal, IInv, JournalInv
  <2>2. \A d \in Dests : Doomed(d) => Doomed(d)'
    BY <2>1 DEF Doomed
  <2>3. torn \subseteq torn'
    BY <2>1 DEF Fault
  <2> QED
    BY <1>1, <2>2, <2>3, DestFrame
<1>4. CASE journal' # journal /\ FailSwap(p)
  <2>1. p \in Writers
    BY <1>4 DEF FailSwap, IInv, ControlInv, Procs, WriterLabels
  <2> QED
    BY <1>1, <1>4, <2>1, CommitDestOK DEF FailSwap
<1> QED
  BY <1>2, <1>3, <1>4 DEF Fault, Crash, Fail, FailOutside, FailStaging, FailPrepare, disk

LEMMA ActDestOK ==
  ASSUME IInv, IInv', GInv, FInv, NEW p \in Procs, Act(p)
  PROVE  DestOK'
<1>1. CASE RecoveryStep(p)
  BY <1>1, RecoveryDestOK
<1>2. CASE p \in Writers /\ PublisherStep(p)
  BY <1>2, PublisherDestOK
<1>3. CASE Fault(p)
  BY <1>3, FaultDestOK
<1>4. CASE ~ RecoveryStep(p) /\ ~ (p \in Writers /\ PublisherStep(p)) /\ ~ Fault(p)
  <2>1. dest' = dest /\ journal' = journal /\ torn' = torn
    BY <1>4 DEF Act, Begin, BeginRead, LockExclusive, Step, LockShared, CheckJournal, EndRead, disk, past
  <2>2. \A d \in Dests : Doomed(d) => Doomed(d)'
    BY <2>1 DEF Doomed
  <2> QED
    BY <2>1, <2>2, DestFrame DEF FInv
<1> QED
  BY <1>1, <1>2, <1>3, <1>4

-----------------------------------------------------------------------------
\* The snapshots and the journal stay.
LEMMA SavedFrame ==
  ASSUME IInv, NEW p \in Procs, Act(p), SavedOK, backup' = backup,
         journal'.phase = "prepared" /\ ~ Restored' => journal' = journal /\ ~ Restored /\ torn \subseteq torn'
  PROVE  SavedOK'
<1>1. \A w \in Writers, d \in Dests : Versioned(backup[w][d])'
  BY StaysVersioned DEF SavedOK, Versioned
<1> QED
  BY <1>1 DEF SavedOK

\* Outside a prepared transaction the snapshots may be anything staged before.
LEMMA SavedWithout ==
  ASSUME IInv, NEW p \in Procs, Act(p), SavedOK, journal'.phase # "prepared" \/ Restored',
         \A w \in Writers, d \in Dests :
             \/ backup'[w][d] = backup[w][d]
             \/ backup'[w][d] = Absent
             \/ Versioned(backup'[w][d])
             \/ Exists(backup[w][d]) /\ backup'[w][d].ver = backup[w][d].ver
  PROVE  SavedOK'
<1>1. \A w \in Writers, d \in Dests : Versioned(backup[w][d])'
  <2> TAKE w \in Writers, d \in Dests
  <2>1. Versioned(backup[w][d])
    BY DEF SavedOK
  <2>2. Exists(backup[w][d]) => backup[w][d].ver \in 1..version
    BY <2>1, Trees0 DEF Versioned
  <2>3. backup'[w][d] = Absent \/ backup'[w][d].ver \in 1..version
    BY <2>1, <2>2 DEF Versioned
  <2> QED
    BY <2>3, VersionGrows, DiskTypes DEF Versioned
<1> QED
  BY <1>1 DEF SavedOK

\* The snapshots a journal is sealed with are the destinations.
LEMMA SealSavedOK ==
  ASSUME IInv, GInv, FInv, NEW w \in Writers, Act(w), pc[w] = "seal", UNCHANGED backup,
         journal' = PreparedJournal(w), torn \subseteq torn'
  PROVE  SavedOK'
<1>0. w \in Procs /\ journal.phase = "none"
  BY DEF Procs, IInv, JournalInv
<1>1. \A c \in Writers, d \in Dests : Versioned(backup[c][d])'
  BY <1>0, StaysVersioned DEF FInv, SavedOK, Versioned
<1>2. \A d \in Dests : backup[w][d] = dest[d]
  BY DEF GInv, WriterOK, SnapshotsOK
<1>3. \A d \in Dests : ~ Doomed(d)
  BY <1>0 DEF Doomed
<1>4. \A d \in Dests : backup[w][d] = Absent \/ backup[w][d].parts = Entries \/ d \in torn
  BY <1>2, <1>3 DEF FInv, DestOK
<1> QED
  BY <1>1, <1>4 DEF SavedOK, PreparedJournal

LEMMA RecoverySavedOK ==
  ASSUME IInv, FInv, NEW p \in Procs, Act(p), RecoveryStep(p)
  PROVE  SavedOK'
<1> USE DEF FInv
<1>0. torn' = torn /\ pc \in [Procs -> Labels]
  BY DiskTypes DEF RecoveryStep, RecoverStart, Rollback, RollbackDone, Unstage, Unbackup, Unjournal, CleanupOrphans, past
<1>1. CASE RecoverStart(p) \/ Rollback(p) \/ RollbackDone(p) \/ Unstage(p)
  <2>1. backup' = backup /\ journal' = journal /\ pc[p] # "unbackup" /\ pc[p] \in Active
    BY <1>1 DEF RecoverStart, Rollback, RollbackDone, Unstage, disk, Active, RecoveryLabels
  <2>2. ~ Restored
    BY <2>1, RestoredFrame
  <2> QED
    BY <1>0, <2>1, <2>2, SavedFrame
<1>2. CASE Unbackup(p)
  <2>1. CASE pc'[p] = "unbackup"
    <3>1. Restored'
      BY <2>1, RestoredFrame
    <3>2. \A w \in Writers, d \in Dests :
             \/ backup'[w][d] = backup[w][d]
             \/ backup'[w][d] = Absent
             \/ Exists(backup[w][d]) /\ backup'[w][d].ver = backup[w][d].ver
      BY <1>2, UnbackupDoes
    <3> QED
      BY <3>1, <3>2, SavedWithout
  <2>2. CASE pc'[p] # "unbackup"
    <3>1. /\ backup' = backup /\ journal' = journal
          /\ backup[journal.owner] = Empty
      BY <1>2, <2>2, UnbackupAt
    <3>2. \A d \in Dests : backup[journal.owner][d] = Absent
      BY <3>1 DEF Empty
    <3>3. \A w \in Writers, d \in Dests : Versioned(backup[w][d])'
      BY <3>1, StaysVersioned DEF SavedOK, Versioned
    <3> QED
      BY <3>1, <3>2, <3>3 DEF SavedOK
  <2> QED
    BY <2>1, <2>2
<1>3. CASE Unjournal(p)
  <2>1. backup' = backup /\ journal'.phase = "none"
    BY <1>3 DEF Unjournal, NoJournal
  <2> QED
    BY <2>1, SavedFrame
<1>4. CASE CleanupOrphans(p)
  <2>1. journal'.phase = "none" /\ \A w \in Writers, d \in Dests : backup'[w][d] = Absent
    BY <1>4 DEF CleanupOrphans, Empty, IInv, JournalInv
  <2> QED
    BY <2>1, SavedWithout
<1> QED
  BY <1>1, <1>2, <1>3, <1>4 DEF RecoveryStep

LEMMA PublisherSavedOK ==
  ASSUME IInv, GInv, FInv, NEW w \in Writers, Act(w), PublisherStep(w)
  PROVE  SavedOK'
<1> USE DEF FInv
<1>0. w \in Procs /\ pc \in [Procs -> Labels]
  BY DiskTypes DEF Procs
<1>1. CASE Stage(w) \/ Prepared(w) \/ Swap(w) \/ Swapped(w) \/ Cleanup(w)
  <2>1. backup' = backup /\ journal' = journal /\ pc[w] # "unbackup" /\ pc[w] \in Active /\ torn' = torn
    BY <1>1 DEF Stage, Prepared, Swap, Swapped, Cleanup, disk, past, Active, WriterLabels
  <2>2. ~ Restored
    BY <1>0, <2>1, RestoredFrame
  <2> QED
    BY <1>0, <2>1, <2>2, SavedFrame
<1>2. CASE Prepare(w)
  <2>1. PICK c \in Dests : c = idx[w]
    BY <1>0, <1>2, TransactionConstants DEF Prepare, IInv, TypeOK, ControlInv, Dests
  <2>2. journal'.phase # "prepared"
    BY <1>0, <1>2 DEF Prepare, IInv, JournalInv
  <2>3. backup' = [backup EXCEPT ![w][c] = dest[c]]
    BY <1>2, <2>1 DEF Prepare
  <2>4. \A v \in Writers, d \in Dests : backup'[v][d] = backup[v][d] \/ backup'[v][d] = dest[d]
    BY <2>3, DiskTypes
  <2>5. version' = version
    BY <1>2 DEF Prepare
  <2> QED
    BY <1>0, <2>2, <2>4, <2>5, SavedWithout DEF DestOK, Versioned
<1>3. CASE Seal(w)
  BY <1>3, SealSavedOK DEF Seal, past
<1>4. CASE Commit(w)
  <2>1. backup' = backup /\ journal'.phase = "committed"
    BY <1>4 DEF Commit, IInv, TypeOK, Journals
  <2> QED
    BY <1>0, <2>1, SavedFrame
<1> QED
  BY <1>1, <1>2, <1>3, <1>4 DEF PublisherStep

LEMMA FaultSavedOK ==
  ASSUME IInv, GInv, FInv, NEW p \in Procs, Act(p), Fault(p)
  PROVE  SavedOK'
<1> USE DEF FInv
<1>0. version' = version /\ pc \in [Procs -> Labels]
  BY DiskTypes DEF Fault, Crash, Fail
<1>1. CASE backup' = backup /\ journal' = journal /\ pc[p] # "unbackup"
  <2>1. pc'[p] # "unbackup"
    BY <1>0 DEF Fault, Crash, Fail, FailOutside, FailStaging, FailPrepare, FailSeal, FailSwap, Recover, Goto
  <2>2. Restored' = Restored
    BY <1>1, <2>1, RestoredFrame
  <2>3. journal'.phase = "prepared" => torn \subseteq torn'
    BY DEF Fault
  <2> QED
    BY <1>1, <2>2, <2>3, SavedFrame
<1>2. CASE backup' = backup /\ journal' = journal /\ pc[p] = "unbackup"
  <2>1. \A v \in Writers, d \in Dests : Versioned(backup[v][d])'
    BY <1>2, StaysVersioned DEF SavedOK, Versioned
  <2>2. ASSUME journal.phase = "prepared", NEW d \in Dests
        PROVE  LET saved == backup[journal.owner][d] IN
               saved = Absent \/ saved.parts = Entries \/ d \in torn'
    <3>1. torn' = torn \union Tears(p)
      BY <1>2, <2>2 DEF Fault
    <3>2. journal.owner \in Writers
      BY <2>2, DiskTypes
    <3>3. Versioned(backup[journal.owner][d])
      BY <3>2 DEF SavedOK
    <3>4. ~ Exists(backup[journal.owner][d]) => backup[journal.owner][d] = Absent
      BY <3>3, VersionedTrees
    <3> QED
      BY <1>2, <2>2, <3>1, <3>4 DEF Tears
  <2> QED
    BY <1>2, <2>1, <2>2 DEF SavedOK
<1>3. CASE FailPrepare(p)
  <2>1. p \in Writers /\ journal'.phase # "prepared"
    BY <1>3 DEF FailPrepare, IInv, ControlInv, JournalInv, WriterLabels, Procs
  <2>2. \A v \in Writers, d \in Dests : backup'[v][d] = backup[v][d] \/ backup'[v][d] = Absent
    BY <1>3, <2>1, DiskTypes DEF FailPrepare, Empty
  <2> QED
    BY <2>1, <2>2, SavedWithout
<1>4. CASE FailSeal(p) /\ journal' # journal
  <2>1. p \in Writers
    BY <1>4 DEF FailSeal, IInv, ControlInv, Procs, WriterLabels
  <2>2. torn \subseteq torn'
    BY <1>4 DEF Fault, FailSeal, PreparedJournal
  <2> QED
    BY <1>4, <2>1, <2>2, SealSavedOK DEF FailSeal
<1>5. CASE FailSwap(p) /\ journal' # journal
  <2>1. backup' = backup /\ journal'.phase = "committed"
    BY <1>5 DEF FailSwap, IInv, TypeOK, Journals
  <2> QED
    BY <2>1, SavedFrame
<1> QED
  BY <1>1, <1>2, <1>3, <1>4, <1>5 DEF Fault, Crash, Fail, FailOutside, FailStaging, FailSeal, FailSwap, disk

LEMMA ActSavedOK ==
  ASSUME IInv, GInv, FInv, NEW p \in Procs, Act(p)
  PROVE  SavedOK'
<1>1. CASE RecoveryStep(p)
  BY <1>1, RecoverySavedOK
<1>2. CASE p \in Writers /\ PublisherStep(p)
  BY <1>2, PublisherSavedOK
<1>3. CASE Fault(p)
  BY <1>3, FaultSavedOK
<1>4. CASE ~ RecoveryStep(p) /\ ~ (p \in Writers /\ PublisherStep(p)) /\ ~ Fault(p)
  <2>1. backup' = backup /\ journal' = journal /\ torn' = torn
    BY <1>4 DEF Act, Begin, BeginRead, LockExclusive, Step, LockShared, CheckJournal, EndRead, disk, past
  <2>2. pc[p] # "unbackup" /\ pc'[p] # "unbackup"
    BY <1>4, DiskTypes DEF Act, Begin, BeginRead, LockExclusive, Step, LockShared, CheckJournal, EndRead, Goto
  <2>3. Restored' = Restored
    BY <2>2, RestoredFrame
  <2> QED
    BY <2>1, <2>3, SavedFrame DEF FInv
<1> QED
  BY <1>1, <1>2, <1>3, <1>4

-----------------------------------------------------------------------------
\* Nothing but a fault and a step of the transaction moves the journal's account.
LEMMA RecoveryFaultsOK ==
  ASSUME IInv, FaultsOK, NEW p \in Procs, Act(p), RecoveryStep(p)
  PROVE  FaultsOK'
<1>1. UNCHANGED past /\ (journal' = journal \/ journal' = NoJournal)
  BY DEF RecoveryStep, RecoverStart, Rollback, RollbackDone, Unstage, Unbackup, Unjournal, CleanupOrphans, disk
<1>2. pc[p] \in RecoveryLabels
  BY DEF RecoveryStep, RecoverStart, Rollback, RollbackDone, Unstage, Unbackup, Unjournal, CleanupOrphans, RecoveryLabels
<1>3. pc[p] \notin {"swap", "commit"}
  BY <1>2 DEF RecoveryLabels
<1>4. \A w \in Writers : pc[w] \in {"swap", "commit"} => pc'[w] = pc[w]
  BY <1>3, OthersStay DEF Procs
<1> QED
  BY <1>1, <1>4 DEF FaultsOK, past, NoJournal

LEMMA PublisherFaultsOK ==
  ASSUME IInv, FaultsOK, NEW w \in Writers, Act(w), PublisherStep(w)
  PROVE  FaultsOK'
<1>0. pc \in [Procs -> Labels] /\ w \in Procs
  BY DiskTypes DEF Procs
<1>1. CASE Stage(w) \/ Prepare(w) \/ Prepared(w) \/ Cleanup(w)
  <2>1. UNCHANGED past /\ journal' = journal /\ pc[w] \notin {"swap", "commit"}
    BY <1>1 DEF Stage, Prepare, Prepared, Cleanup, disk
  <2>2. \A v \in Writers : pc[v] \in {"swap", "commit"} => pc'[v] = pc[v]
    BY <1>0, <2>1, OthersStay DEF Procs
  <2> QED
    BY <2>1, <2>2 DEF FaultsOK, past
<1>2. CASE Seal(w) \/ Swap(w) \/ Swapped(w)
  <2>1. UNCHANGED past /\ journal'.phase # "committed" /\ pc'[w] \in {"swap", "commit"}
    BY <1>0, <1>2 DEF Seal, Swap, Swapped, PreparedJournal, Goto, Loop, disk, IInv, JournalInv
  <2> QED
    BY <2>1 DEF FaultsOK, past
<1>3. CASE Commit(w)
  BY <1>3 DEF Commit, FaultsOK, IInv, TypeOK, Journals
<1> QED
  BY <1>1, <1>2, <1>3 DEF PublisherStep

LEMMA FaultFaultsOK ==
  ASSUME IInv, FaultsOK, NEW p \in Procs, Fault(p)
  PROVE  FaultsOK'
<1>1. faults' = faults + 1 /\ faults \in Nat
  BY DiskTypes DEF Fault
<1>2. torn' = IF journal'.phase = "committed" THEN {} ELSE torn \union Tears(p)
  BY DEF Fault
<1>3. Tears(p) # {} => faults >= 1
  <2> SUFFICES ASSUME Tears(p) # {} PROVE faults >= 1
    OBVIOUS
  <2>1. pc[p] = "unbackup" /\ journal.phase = "prepared"
    BY DEF Tears
  <2>2. \A w \in Writers : pc[w] \notin {"swap", "commit"}
    BY <2>1, Alone DEF Active, RecoveryLabels, WriterLabels, Procs
  <2> QED
    BY <2>1, <2>2 DEF FaultsOK
<1> QED
  BY <1>1, <1>2, <1>3 DEF FaultsOK

LEMMA ActFaultsOK ==
  ASSUME IInv, FaultsOK, NEW p \in Procs, Act(p)
  PROVE  FaultsOK'
<1>1. CASE RecoveryStep(p)
  BY <1>1, RecoveryFaultsOK
<1>2. CASE p \in Writers /\ PublisherStep(p)
  BY <1>2, PublisherFaultsOK
<1>3. CASE Fault(p)
  BY <1>3, FaultFaultsOK
<1>4. CASE ~ RecoveryStep(p) /\ ~ (p \in Writers /\ PublisherStep(p)) /\ ~ Fault(p)
  <2>1. journal' = journal /\ UNCHANGED past
    BY <1>4 DEF Act, Begin, BeginRead, LockExclusive, Step, LockShared, CheckJournal, EndRead, disk
  <2>2. pc[p] \notin {"swap", "commit"}
    BY <1>4 DEF Act, Begin, BeginRead, LockExclusive, Step, LockShared, CheckJournal, EndRead
  <2>3. \A v \in Writers : pc[v] \in {"swap", "commit"} => pc'[v] = pc[v]
    BY <2>2, OthersStay DEF Procs
  <2> QED
    BY <2>1, <2>3 DEF FaultsOK, past
<1> QED
  BY <1>1, <1>2, <1>3, <1>4

-----------------------------------------------------------------------------
LEMMA ActSwapOK ==
  ASSUME IInv, GInv, FInv, NEW w \in Writers, Act(w)
  PROVE  SwapOK(w)'
<1>0. SwapOK(w) /\ DestOK /\ w \in Procs
  BY DEF FInv, Procs
<1>1. CASE Seal(w)
  <2>1. /\ pc'[w] = "swap" /\ idx'[w] = 1
        /\ UNCHANGED <<dest, stage, backup>>
        /\ journal'.had = [d \in Dests |-> Exists(dest[d])]
    BY <1>0, <1>1, DiskTypes DEF Seal, PreparedJournal, Loop, Goto
  <2>2. \A d \in Dests : ~ journal'.had[d] => dest[d] = Absent
    BY <1>0, <2>1, VersionedTrees DEF DestOK
  <2>3. \A d \in Dests : backup[w][d] = dest[d] /\ ~ (d < 1)
    BY <1>1 DEF Seal, GInv, WriterOK, SnapshotsOK, Dests
  <2>4. 1..N = Dests /\ 1..1 - 1 = {}
    BY DEF Dests
  <2> QED
    BY <2>1, <2>2, <2>3, <2>4 DEF SwapOK
<1>2. CASE Swap(w)
  <2>1. PICK c \in Dests : c = idx[w]
    BY <1>2, SwapAt
  <2>2. pc'[w] = "swap" /\ idx'[w] = c + 1 /\ UNCHANGED <<backup, journal, version>>
    BY <1>0, <1>2, <2>1, SwapAt, DiskTypes
  <2>3. /\ \A d \in 1..c + 1 - 1 : d \in Dests /\ (d = c \/ d \in 1..c - 1)
        /\ \A d \in c + 1..N : d \in Dests /\ d # c /\ d \in c..N
        /\ \A d \in Dests : d < c + 1 <=> d = c \/ d < c
    BY TransactionConstants DEF Dests
  <2>4. \A d \in Dests : /\ dest'[d] = IF d = c THEN Whole(version) ELSE dest[d]
                         /\ stage'[w][d] = IF d # c THEN stage[w][d]
                                           ELSE IF journal.had[c] THEN dest[c] ELSE Absent
    BY <1>2, <2>1, SwapAt, DiskTypes
  <2>5. /\ \A d \in 1..c - 1 : dest[d] = Whole(version)
        /\ \A d \in c..N : ~ journal.had[d] => dest[d] = Absent
        /\ \A d \in Dests : /\ journal.had[d] => Exists(backup[w][d])
                            /\ backup[w][d] = IF d < c THEN stage[w][d] ELSE dest[d]
    BY <1>0, <1>2, <2>1, SwapAt DEF SwapOK
  <2>6. c \in c..N /\ ~ (c < c)
    BY <2>1 DEF Dests
  <2>7. backup[w][c] = stage'[w][c]
    BY <2>4, <2>5, <2>6
  <2>8. /\ \A d \in 1..c + 1 - 1 : dest'[d] = Whole(version)
        /\ \A d \in c + 1..N : ~ journal.had[d] => dest'[d] = Absent
    BY <2>3, <2>4, <2>5
  <2>9. \A d \in Dests : /\ d < idx'[w] => backup[w][d] = stage'[w][d]
                         /\ ~ (d < idx'[w]) => backup[w][d] = dest'[d]
    BY <2>2, <2>3, <2>4, <2>5, <2>7
  <2>10. /\ \A d \in 1..idx'[w] - 1 : dest'[d] = Whole(version')
         /\ \A d \in idx'[w]..N : ~ journal'.had[d] => dest'[d] = Absent
    BY <2>1, <2>2, <2>8 DEF Dests
  <2>11. pc'[w] # "commit" /\ backup' = backup /\ journal' = journal
    BY <2>2
  <2> QED
    BY <2>2, <2>5, <2>9, <2>10, <2>11 DEF SwapOK
<1>3. CASE Swapped(w)
  <2>1. Dests = 1..idx[w] - 1 /\ UNCHANGED <<disk, idx, version>> /\ pc'[w] = "commit" /\ pc[w] = "swap"
    BY <1>0, <1>3, TransactionConstants, DiskTypes DEF Swapped, Dests, Goto
  <2> QED
    BY <1>0, <2>1 DEF SwapOK, disk
<1>4. CASE ~ (Seal(w) \/ Swap(w) \/ Swapped(w))
  <2> USE DEF IInv, TypeOK, Procs
  <2>1. pc'[w] \notin {"swap", "commit"}
    <3>1. ~ (LockShared(w) \/ CheckJournal(w) \/ EndRead(w))
      BY DEF ControlInv, LockShared, CheckJournal, EndRead, ReaderLabels
    <3>2. CASE RecoveryStep(w)
      BY <3>2 DEF RecoveryStep, RecoverStart, Rollback, RollbackRestore, RollbackRemove, RollbackDone, Unstage, Unbackup,
         Unjournal, CleanupOrphans, Goto, Loop, Returns
    <3>3. CASE PublisherStep(w)
      BY <1>4, <3>3 DEF PublisherStep, Stage, Prepare, Prepared, Commit, Cleanup, Goto, Loop, Recover
    <3>4. CASE Fault(w)
      BY <3>4 DEF Fault, Crash, Fail, FailOutside, FailStaging, FailPrepare, FailSeal, FailSwap, Goto, Recover
    <3> QED
      BY <3>1, <3>2, <3>3, <3>4, TransactionConstants DEF Act, Begin, BeginRead, LockExclusive, Step, Goto
  <2> QED
    BY <2>1 DEF SwapOK
<1> QED
  BY <1>1, <1>2, <1>3, <1>4

LEMMA ActRollbackOK ==
  ASSUME IInv, GInv, FInv, NEW p \in Procs, Act(p)
  PROVE  RollbackOK(p)'
<1>0. RollbackOK(p) /\ DestOK /\ pc \in [Procs -> Labels] /\ idx \in [Procs -> 0..N + 1]
  BY DiskTypes DEF FInv
<1>1. CASE RecoverStart(p)
  <2>1. N + 1..N = {}
    BY TransactionConstants
  <2>2. /\ UNCHANGED disk
        /\ pc'[p] = "orphans" \/ (pc'[p] = "rollback" /\ idx'[p] = N) \/ (pc'[p] = "unstage" /\ journal.phase = "committed")
    BY <1>0, <1>1 DEF RecoverStart, Loop, Goto
  <2> QED
    BY <2>1, <2>2 DEF RollbackOK, disk
<1>2. CASE Rollback(p)
  <2>1. PICK c \in Dests : c = idx[p]
    BY <1>2, RollbackAt
  <2>2. PICK saved : saved = backup[journal.owner][c]
    OBVIOUS
  <2>3. /\ \A d \in c - 1 + 1..N : d \in Dests /\ (d = c \/ d \in c + 1..N)
        /\ \A d \in c + 1..N : d \in Dests /\ d # c
    BY TransactionConstants DEF Dests
  <2>4. pc'[p] = "rollback" /\ pc[p] = "rollback" /\ UNCHANGED <<backup, journal>>
    BY <1>2, RollbackAt
  <2>5. \A d \in c + 1..N : RolledBack(d)
    BY <1>0, <2>1, <2>4 DEF RollbackOK
  <2>6. \A d \in Dests \ {c} : dest'[d] = dest[d]
    BY <1>2, <2>1, RollbackDoes, DiskTypes
  <2>7. \A d \in c + 1..N : RolledBack(d)'
    BY <2>3, <2>4, <2>5, <2>6 DEF RolledBack
  <2>8. idx'[p] = c \/ (idx'[p] = c - 1 /\ RolledBack(c)')
    <3>1. dest \in [Dests -> Trees]
      BY DiskTypes
    <3>2. ~ Exists(dest[c]) => dest[c] = Absent
      BY <1>0, VersionedTrees DEF DestOK
    <3> QED
      BY <1>2, <2>1, <2>4, <3>1, <3>2, RollbackDoes DEF RolledBack
  <2>9. \A d \in idx'[p] + 1..N : RolledBack(d)'
    BY <2>3, <2>7, <2>8
  <2> QED
    BY <2>4, <2>9 DEF RollbackOK
<1>3. CASE RollbackDone(p)
  <2>1. idx[p] + 1..N = Dests
    BY <1>3 DEF RollbackDone, Dests
  <2>2. UNCHANGED disk /\ pc'[p] = "unstage" /\ pc[p] = "rollback"
    BY <1>0, <1>3 DEF RollbackDone, Goto
  <2> QED
    BY <1>0, <2>1, <2>2 DEF RollbackOK, RolledBack, disk
<1>4. CASE Unstage(p)
  <2>1. UNCHANGED <<dest, backup, journal>> /\ pc'[p] = "unbackup" /\ pc[p] = "unstage"
    BY <1>0, <1>4 DEF Unstage, Goto
  <2>2. \A d \in Dests : RolledBack(d) => Covered(d)
    BY DEF RolledBack, Covered
  <2> QED
    BY <1>0, <2>1, <2>2 DEF RollbackOK, Covered
<1>5. CASE Unbackup(p)
  <2>1. pc[p] = "unbackup" /\ journal.owner \in Writers /\ UNCHANGED <<dest, journal>>
    BY <1>5, UnbackupAt
  <2>2. CASE pc'[p] = "unbackup"
    <3> SUFFICES ASSUME journal.phase = "prepared", NEW d \in Dests PROVE Covered(d)'
      BY <2>1, <2>2 DEF RollbackOK
    <3>1. Covered(d)
      BY <1>0, <2>1 DEF RollbackOK
    <3>2. PICK old : old = backup[journal.owner][d]
      OBVIOUS
    <3>3. PICK new : new = backup'[journal.owner][d]
      OBVIOUS
    <3>4. new = old \/ new = Absent \/ (d \in Dirs /\ Exists(old) /\ new.ver = old.ver /\ new.parts \subseteq old.parts)
      BY <1>5, <2>1, <3>2, <3>3, UnbackupDoes
    <3> QED
      BY <2>1, <3>1, <3>2, <3>3, <3>4, Trees0 DEF Covered
  <2>3. CASE pc'[p] # "unbackup"
    <3>1. backup[journal.owner] = Empty /\ UNCHANGED backup /\ pc'[p] = "unjournal"
      BY <1>5, <2>3, UnbackupAt
    <3>2. \A d \in Dests : ~ Exists(backup[journal.owner][d])
      BY <3>1, Trees0 DEF Empty
    <3>3. journal.phase = "prepared" => \A d \in Dests : Covered(d)
      BY <1>0, <2>1 DEF RollbackOK
    <3>4. journal.phase = "prepared" => \A d \in Dests : RolledBack(d)
      BY <3>2, <3>3 DEF Covered, RolledBack
    <3> QED
      BY <2>1, <3>1, <3>4 DEF RollbackOK, RolledBack
  <2> QED
    BY <2>2, <2>3
<1>6. CASE Unjournal(p) \/ CleanupOrphans(p)
  <2>1. pc'[p] \notin {"rollback", "unstage", "unbackup", "unjournal"}
    BY <1>6 DEF Unjournal, CleanupOrphans, Goto, Loop, Returns, IInv, TypeOK
  <2> QED
    BY <2>1 DEF RollbackOK
<1>7. CASE ~ RecoveryStep(p)
  <2>1. pc'[p] \notin {"rollback", "unstage", "unbackup", "unjournal"}
    <3>1. CASE PublisherStep(p)
      BY <1>0, <3>1 DEF PublisherStep, Stage, Prepare, Prepared, Seal, Swap, Swapped, Commit, Cleanup, Goto, Loop, Recover
    <3>2. CASE Fault(p)
      BY <1>0, <3>2 DEF Fault, Crash, Fail, FailOutside, FailStaging, FailPrepare, FailSeal, FailSwap, Goto, Recover
    <3> QED
      BY <1>0, <1>7, <3>1, <3>2 DEF Act, Begin, BeginRead, LockExclusive, Step, LockShared, CheckJournal, EndRead, Goto
  <2> QED
    BY <2>1 DEF RollbackOK
<1> QED
  BY <1>1, <1>2, <1>3, <1>4, <1>5, <1>6, <1>7 DEF RecoveryStep

LEMMA StepFInv == IInv /\ GInv /\ FInv /\ [Next]_vars => FInv'
<1> SUFFICES ASSUME IInv, GInv, FInv, [Next]_vars PROVE FInv'
  OBVIOUS
<1>1. CASE UNCHANGED vars
  BY <1>1 DEF vars, FInv, DestOK, SavedOK, Versioned, Doomed, Restored, SwapOK, RollbackOK, RolledBack, Covered, FaultsOK
<1>2. ASSUME NEW p \in Procs, Act(p) PROVE FInv'
  <2>0. IInv'
    BY StepIInv
  <2>1. DestOK' /\ SavedOK' /\ FaultsOK'
    BY <1>2, <2>0, ActDestOK, ActSavedOK, ActFaultsOK DEF FInv
  <2>2. ASSUME NEW q \in Procs, q # p PROVE (q \in Writers => SwapOK(q)') /\ RollbackOK(q)'
    <3>1. pc'[q] = pc[q] /\ idx'[q] = idx[q]
      BY <1>2, <2>2, OthersStay
    <3>2. CASE pc[q] \in Active
      <4>1. UNCHANGED <<disk, version>>
        BY <1>2, <2>2, <3>2, Alone, OnlyHoldersWrite
      <4> QED
        BY <3>1, <4>1 DEF FInv, disk, SwapOK, RollbackOK, RolledBack, Covered
    <3>3. CASE pc[q] \notin Active
      BY <3>1, <3>3 DEF Active, RecoveryLabels, WriterLabels, SwapOK, RollbackOK
    <3> QED
      BY <3>2, <3>3
  <2>3. RollbackOK(p)' /\ (p \in Writers => SwapOK(p)')
    BY <1>2, ActRollbackOK, ActSwapOK
  <2> QED
    BY <2>1, <2>2, <2>3 DEF FInv, Procs
<1> QED
  BY <1>1, <1>2, NextIsAnAct

LEMMA FInvariant == Spec => [](IInv /\ GInv /\ FInv)
<1>1. Init => FInv
  <2> SUFFICES ASSUME Init PROVE FInv
    OBVIOUS
  <2>1. \A d \in Dests : dest[d] = Absent \/ (dest[d].ver = 1 /\ dest[d].parts = Entries)
    BY Trees0 DEF Init
  <2>2. version = 1 /\ \A w \in Writers, d \in Dests : backup[w][d] = Absent
    BY DEF Init, Empty
  <2>3. DestOK /\ SavedOK
    BY <2>1, <2>2 DEF DestOK, SavedOK, Versioned, Init, NoJournal
  <2> QED
    BY <2>3 DEF Init, FInv, SwapOK, RollbackOK, FaultsOK, NoJournal, Procs
<1>2. IInv /\ GInv /\ FInv /\ [Next]_vars => FInv'
  BY StepFInv
<1> QED
  BY <1>1, <1>2, GInvariant, PTL DEF Spec

-----------------------------------------------------------------------------
(* Every step is a step of Publication, or invisible, or the interruption   *)
(* that Publication does not promise away.                                  *)

Promise == INSTANCE Publication WITH published <- Published, Versions <- Nat \ {0}

LEMMA SameOutcomes ==
  ASSUME \A d \in Dests : Outcome(d)' = Outcome(d)
  PROVE  Published' = Published
BY DEF Published

LEMMA OutcomeTypes ==
  ASSUME IInv
  PROVE  \A d \in Dests : Published[d] = Outcome(d) /\ Outcome(d) \in Trees
<1>1. journal.phase = "prepared" => journal.owner \in Writers
  BY DiskTypes
<1>2. Absent \in Trees
  BY TreeTypes
<1> QED
  BY <1>1, <1>2, DiskTypes DEF Published, Outcome

\* A rollback that is done with a destination leaves its outcome there.
LEMMA RolledBackOutcome ==
  ASSUME NEW d \in Dests, journal.phase # "prepared" \/ Restored \/ RolledBack(d)
  PROVE  Outcome(d) = dest[d]
BY DEF Outcome, RolledBack

\* Neither the trees nor the bookkeeping change.
LEMMA OutcomeFrame ==
  ASSUME UNCHANGED <<dest, backup, journal>>, Restored' = Restored
  PROVE  Published' = Published
BY SameOutcomes DEF Outcome

\* No transaction is prepared.
LEMMA OutcomeWithout ==
  ASSUME journal.phase # "prepared", journal'.phase # "prepared", dest' = dest
  PROVE  Published' = Published
BY SameOutcomes DEF Outcome

\* The recovery leaves what it would leave.
LEMMA RecoveryIsInvisible ==
  ASSUME IInv, FInv, NEW p \in Procs, Act(p), RecoveryStep(p)
  PROVE  Published' = Published
<1>0. pc \in [Procs -> Labels] /\ RollbackOK(p)
  BY DiskTypes DEF FInv
<1>1. CASE RecoverStart(p) \/ RollbackDone(p)
  <2>1. UNCHANGED disk /\ pc[p] # "unbackup" /\ pc'[p] # "unbackup"
    BY <1>0, <1>1 DEF RecoverStart, RollbackDone, Loop, Goto
  <2> QED
    BY <2>1, RestoredFrame, OutcomeFrame DEF disk
<1>2. CASE Rollback(p)
  <2>0. PICK c \in Dests : c = idx[p]
    BY <1>2, RollbackAt
  <2>1. /\ UNCHANGED <<backup, journal>> /\ journal.phase = "prepared"
        /\ pc[p] = "rollback" /\ pc'[p] = "rollback"
    BY <1>2, RollbackAt
  <2>2. Restored' = Restored /\ ~ Restored
    BY <2>1, RestoredFrame DEF Active, RecoveryLabels
  <2>3. \A d \in Dests : d # c => dest'[d] = dest[d]
    BY <1>2, <2>0, RollbackDoes, DiskTypes
  <2>4. journal.had[c] /\ ~ Exists(backup[journal.owner][c]) => dest' = dest
    BY <1>2, <2>0, RollbackDoes
  <2>5. ~ journal.had[c] /\ c \in Retained => dest' = dest
    BY <1>2, <2>0, RollbackDoes
  <2>6. \A d \in Dests : Outcome(d)' = Outcome(d)
    BY <2>1, <2>2, <2>3, <2>4, <2>5 DEF Outcome, Exists
  <2> QED
    BY <2>6, SameOutcomes
<1>3. CASE Unstage(p)
  <2>1. UNCHANGED <<dest, backup, journal>> /\ pc[p] = "unstage" /\ pc'[p] = "unbackup"
    BY <1>0, <1>3 DEF Unstage, Goto
  <2>2. Restored'
    BY <2>1, RestoredFrame
  <2>3. \A d \in Dests : Outcome(d) = dest[d]
    BY <1>0, <2>1, RolledBackOutcome DEF RollbackOK
  <2>4. \A d \in Dests : Outcome(d)' = dest'[d]
    BY <2>2 DEF Outcome
  <2> QED
    BY <2>1, <2>3, <2>4, SameOutcomes
<1>4. CASE Unbackup(p)
  <2>1. pc[p] = "unbackup" /\ UNCHANGED <<dest, journal>> /\ Restored
    BY <1>4, UnbackupAt, RestoredFrame
  <2>2. \A d \in Dests : Outcome(d) = dest[d]
    BY <2>1, RolledBackOutcome
  <2>3. ASSUME NEW d \in Dests PROVE Outcome(d)' = dest[d]
    <3>1. CASE pc'[p] = "unbackup"
      <4>1. Restored'
        BY <3>1, RestoredFrame
      <4> QED
        BY <2>1, <4>1 DEF Outcome
    <3>2. CASE pc'[p] # "unbackup"
      <4>1. backup' = backup /\ ~ Exists(backup[journal.owner][d])
        BY <1>4, <3>2, UnbackupAt, Trees0 DEF Empty
      <4>2. journal.phase = "prepared" => Covered(d)
        BY <1>0, <2>1 DEF RollbackOK
      <4> QED
        BY <2>1, <4>1, <4>2 DEF Outcome, Covered
    <3> QED
      BY <3>1, <3>2
  <2> QED
    BY <2>2, <2>3, SameOutcomes
<1>5. CASE Unjournal(p)
  <2>1. dest' = dest /\ journal'.phase = "none" /\ pc[p] = "unjournal"
    BY <1>5 DEF Unjournal, NoJournal
  <2>2. \A d \in Dests : Outcome(d) = dest[d]
    BY <1>0, <2>1, RolledBackOutcome DEF RollbackOK
  <2>3. \A d \in Dests : Outcome(d)' = dest[d]
    BY <2>1 DEF Outcome
  <2> QED
    BY <2>2, <2>3, SameOutcomes
<1>6. CASE CleanupOrphans(p)
  BY <1>6, OutcomeWithout DEF CleanupOrphans, IInv, JournalInv
<1> QED
  BY <1>1, <1>2, <1>3, <1>4, <1>5, <1>6 DEF RecoveryStep

\* The prepared journal promises what is there.
LEMMA SealIsInvisible ==
  ASSUME IInv, GInv, FInv, NEW w \in Writers, pc[w] = "seal",
         journal' = PreparedJournal(w), UNCHANGED <<dest, backup>>
  PROVE  Published' = Published
<1> SUFFICES ASSUME NEW d \in Dests PROVE Outcome(d)' = Outcome(d)
  BY SameOutcomes
<1>1. journal.phase = "none" /\ backup[w][d] = dest[d]
  BY DEF IInv, JournalInv, Procs, GInv, WriterOK, SnapshotsOK
<1>2. ~ Exists(dest[d]) => dest[d] = Absent
  BY VersionedTrees DEF FInv, DestOK
<1>3. Outcome(d) = dest[d]
  BY <1>1 DEF Outcome
<1>4. /\ journal'.owner = w /\ dest'[d] = dest[d] /\ backup'[w][d] = dest[d]
      /\ journal'.had[d] = Exists(dest[d])
  BY <1>1 DEF PreparedJournal
<1> QED
  BY <1>2, <1>3, <1>4 DEF Outcome, Exists

\* A swapped destination is visible only where a rollback would retain it.
LEMMA SwapRefines ==
  ASSUME IInv, GInv, FInv, NEW w \in Writers, Act(w), Swap(w)
  PROVE  [Promise!Next]_Published
<1>0. PICK d \in Dests : d = idx[w]
  BY SwapAt
<1>1. /\ version \in Nat \ {0} /\ dest \in [Dests -> Trees]
      /\ journal.phase = "prepared" /\ journal.owner = w
      /\ dest' = [dest EXCEPT ![d] = Whole(version)]
      /\ UNCHANGED <<backup, journal>>
  BY <1>0, SwapAt, DiskTypes
<1>2. /\ journal.had[d] => Exists(backup[w][d])
      /\ ~ journal.had[d] => dest[d] = Absent
  <2>1. d \in d..N
    BY TransactionConstants DEF Dests
  <2> QED
    BY <1>0, <1>1, <2>1 DEF Swap, FInv, SwapOK
<1>3. ~ Restored /\ ~ Restored'
  <2>1. w \in Procs /\ pc[w] = "swap" /\ pc'[w] = "swap"
    BY SwapAt, DiskTypes DEF Procs
  <2> QED
    BY <2>1, RestoredFrame DEF Active, WriterLabels
<1>4. \A c \in Dests \ {d} : Outcome(c)' = Outcome(c)
  BY <1>1, <1>3 DEF Outcome
<1>5. CASE journal.had[d] \/ d \notin Retained
  <2>1. Outcome(d)' = Outcome(d)
    BY <1>1, <1>2, <1>3, <1>5 DEF Outcome
  <2> QED
    BY <1>4, <2>1, SameOutcomes
<1>6. CASE ~ journal.had[d] /\ d \in Retained
  <2>1. Outcome(d) = Absent /\ Outcome(d)' = Whole(version)
    BY <1>1, <1>2, <1>3, <1>6 DEF Outcome
  <2>2. Published' = [Published EXCEPT ![d] = Whole(version)]
    BY <1>4, <2>1 DEF Published
  <2>3. Published[d] = Absent
    BY <2>1 DEF Published
  <2> QED
    BY <1>1, <1>6, <2>2, <2>3 DEF Promise!Next, Promise!Retain, Promise!Absent, Promise!Whole, Absent, Whole
<1> QED
  BY <1>5, <1>6

\* The commit publishes every destination at once.
LEMMA CommitRefines ==
  ASSUME IInv, GInv, FInv, NEW w \in Writers, pc[w] = "commit",
         journal' = [journal EXCEPT !.phase = "committed"], UNCHANGED dest
  PROVE  Promise!Publish
<1>1. version \in Nat \ {0} /\ journal.owner = w /\ journal'.phase = "committed"
  BY DEF GInv, WriterOK, SnapshotsOK, IInv, TypeOK, Journals
<1>2. ASSUME NEW d \in Dests PROVE Published[d].ver <= version /\ Outcome(d)' = Whole(version)
  <2>1. Versioned(dest[d]) /\ Versioned(backup[w][d]) /\ Versioned(Absent)
    BY DEF FInv, DestOK, SavedOK, Versioned
  <2>2. Outcome(d) \in {dest[d], backup[w][d], Absent}
    BY <1>1 DEF Outcome
  <2>3. Outcome(d).ver <= version
    BY <2>1, <2>2, VersionedTrees
  <2>4. dest[d] = Whole(version)
    BY DEF FInv, SwapOK
  <2>5. Published[d] = Outcome(d)
    BY DEF Published
  <2>6. Outcome(d)' = Whole(version)
    BY <1>1, <2>4 DEF Outcome
  <2> QED
    BY <2>3, <2>5, <2>6
<1>3. Published' = [d \in Dests |-> Whole(version)]
  BY <1>2 DEF Published
<1> QED
  BY <1>1, <1>2, <1>3 DEF Promise!Publish, Promise!Whole, Whole

\* A snapshot that lacks files is what the next rollback restores.
LEMMA InterruptionTears ==
  ASSUME IInv, FInv, NEW p \in Procs, Act(p), Fault(p), pc[p] = "unbackup", journal.phase = "prepared"
  PROVE  Promise!Tear(Dirs)
<1>1. UNCHANGED <<dest, backup, journal>>
  BY DEF Fault, Crash, Fail, FailOutside, FailStaging, FailPrepare, FailSeal, FailSwap, disk
<1>2. pc'[p] # "unbackup"
  BY DiskTypes DEF Fault, Crash, Fail, FailOutside, FailStaging, FailPrepare, FailSeal, FailSwap, Goto
<1>3. Restored /\ ~ Restored' /\ journal.owner \in Writers
  BY <1>2, RestoredFrame, DiskTypes
<1>4. \A d \in Dests : Covered(d)
  BY DEF FInv, RollbackOK
<1>5. \A d \in Dests : Published[d] = dest[d] /\ dest[d] \in Trees /\ backup[journal.owner][d] \in Trees
  BY <1>3, DiskTypes, OutcomeTypes, RolledBackOutcome
<1> DEFINE lost == [d \in Dirs |-> dest[d].parts \ (Outcome(d)').parts]
<1>6. lost \in [Dirs -> SUBSET Entries]
  <2>1. \A d \in Dirs : dest[d].parts \subseteq Entries
    BY <1>5, TransactionConstants DEF Trees
  <2> QED
    BY <2>1
<1>7. ASSUME NEW d \in Dests
      PROVE  Published'[d] = IF d \in Dirs THEN [Published[d] EXCEPT !.parts = @ \ lost[d]] ELSE Published[d]
  <2>1. Published'[d] = Outcome(d)'
    BY DEF Published
  <2>2. Outcome(d)' = dest[d] \/ (Outcome(d)' = backup[journal.owner][d] /\ journal.had[d] /\ Exists(backup[journal.owner][d]))
    BY <1>1, <1>3, <1>4 DEF Outcome, Covered, Exists
  <2>3. CASE Outcome(d)' = dest[d]
    <3>1. d \in Dirs => lost[d] = {}
      BY <2>3
    <3>2. [dest[d] EXCEPT !.parts = @ \ {}] = dest[d]
      BY <1>5 DEF Trees
    <3> QED
      BY <1>5, <2>1, <2>3, <3>1, <3>2
  <2>4. CASE Outcome(d)' = backup[journal.owner][d] /\ journal.had[d] /\ Exists(backup[journal.owner][d])
    <3>1. PICK saved \in Trees : saved = backup[journal.owner][d]
      BY <1>5
    <3>2. /\ dest[d].ver = saved.ver
          /\ saved.parts \subseteq dest[d].parts
          /\ d \notin Dirs => dest[d] = saved
      BY <1>4, <2>4, <3>1 DEF Covered
    <3>3. [dest[d] EXCEPT !.parts = @ \ (dest[d].parts \ saved.parts)] = saved
      BY <1>5, <3>1, <3>2 DEF Trees
    <3>4. d \in Dirs => lost[d] = dest[d].parts \ saved.parts
      BY <2>4, <3>1
    <3> QED
      BY <1>5, <2>1, <2>4, <3>1, <3>2, <3>3, <3>4
  <2> QED
    BY <2>2, <2>3, <2>4
<1>8. Published' = [d \in Dests |->
           IF d \in Dirs THEN [Published[d] EXCEPT !.parts = @ \ lost[d]] ELSE Published[d]]
  BY <1>7 DEF Published
<1> HIDE DEF lost
<1> QED
  BY <1>6, <1>8 DEF Promise!Tear

LEMMA FaultRefines ==
  ASSUME IInv, GInv, FInv, NEW p \in Procs, Act(p), Fault(p)
  PROVE  [Promise!Next \/ (Interruption /\ Promise!Tear(Dirs))]_Published
<1>0. pc'[p] # "unbackup"
  BY DiskTypes DEF Fault, Crash, Fail, FailOutside, FailStaging, FailPrepare, FailSeal, FailSwap, Recover, Goto
<1>1. CASE pc[p] = "unbackup" /\ journal.phase = "prepared"
  BY <1>1, InterruptionTears DEF Interruption
<1>2. CASE pc[p] = "unbackup" /\ journal.phase # "prepared"
  <2>1. UNCHANGED <<dest, journal>>
    BY <1>2 DEF Fault, Crash, Fail, FailOutside, FailStaging, FailPrepare, FailSeal, FailSwap, disk
  <2> QED
    BY <1>2, <2>1, OutcomeWithout
<1>3. CASE pc[p] # "unbackup" /\ UNCHANGED <<dest, backup, journal>>
  BY <1>0, <1>3, RestoredFrame, OutcomeFrame
<1>4. CASE FailPrepare(p)
  BY <1>4, OutcomeWithout DEF FailPrepare, IInv, JournalInv
<1>5. CASE FailSeal(p) /\ journal' # journal
  <2>1. p \in Writers
    BY <1>5 DEF FailSeal, IInv, ControlInv, Procs, WriterLabels
  <2> QED
    BY <1>5, <2>1, SealIsInvisible DEF FailSeal
<1>6. CASE FailSwap(p) /\ journal' # journal
  <2>1. p \in Writers
    BY <1>6 DEF FailSwap, IInv, ControlInv, Procs, WriterLabels
  <2> QED
    BY <1>6, <2>1, CommitRefines DEF FailSwap, Promise!Next
<1> QED
  BY <1>1, <1>2, <1>3, <1>4, <1>5, <1>6
  DEF Fault, Crash, Fail, FailOutside, FailStaging, FailSeal, FailSwap, disk

LEMMA PublisherRefines ==
  ASSUME IInv, GInv, FInv, NEW w \in Writers, Act(w), PublisherStep(w)
  PROVE  [Promise!Next]_Published
<1>0. w \in Procs /\ pc \in [Procs -> Labels]
  BY DiskTypes DEF Procs
<1>1. CASE Stage(w) \/ Prepared(w) \/ Swapped(w) \/ Cleanup(w)
  <2>1. UNCHANGED <<dest, backup, journal>> /\ pc[w] # "unbackup" /\ pc'[w] # "unbackup"
    BY <1>0, <1>1 DEF Stage, Prepared, Swapped, Cleanup, Recover, Goto, disk
  <2> QED
    BY <1>0, <2>1, RestoredFrame, OutcomeFrame
<1>2. CASE Prepare(w)
  BY <1>0, <1>2, OutcomeWithout DEF Prepare, IInv, JournalInv
<1>3. CASE Seal(w)
  BY <1>3, SealIsInvisible DEF Seal
<1>4. CASE Swap(w)
  BY <1>4, SwapRefines
<1>5. CASE Commit(w)
  BY <1>5, CommitRefines DEF Commit, Promise!Next
<1> QED
  BY <1>1, <1>2, <1>3, <1>4, <1>5 DEF PublisherStep

LEMMA ActRefines ==
  ASSUME IInv, GInv, FInv, NEW p \in Procs, Act(p)
  PROVE  [Promise!Next \/ (Interruption /\ Promise!Tear(Dirs))]_Published
<1>1. CASE RecoveryStep(p)
  BY <1>1, RecoveryIsInvisible
<1>2. CASE p \in Writers /\ PublisherStep(p)
  BY <1>2, PublisherRefines
<1>3. CASE Fault(p)
  BY <1>3, FaultRefines
<1>4. CASE ~ RecoveryStep(p) /\ ~ (p \in Writers /\ PublisherStep(p)) /\ ~ Fault(p)
  <2>1. UNCHANGED <<dest, backup, journal>>
    BY <1>4 DEF Act, Begin, BeginRead, LockExclusive, Step, LockShared, CheckJournal, EndRead, disk
  <2>2. pc[p] # "unbackup" /\ pc'[p] # "unbackup"
    BY <1>4, DiskTypes DEF Act, Begin, BeginRead, LockExclusive, Step, LockShared, CheckJournal, EndRead, Goto
  <2> QED
    BY <2>1, <2>2, RestoredFrame, OutcomeFrame
<1> QED
  BY <1>1, <1>2, <1>3, <1>4

LEMMA StepRefines ==
  IInv /\ GInv /\ FInv /\ [Next]_vars => [Promise!Next \/ (Interruption /\ Promise!Tear(Dirs))]_Published
<1>1. UNCHANGED vars => UNCHANGED Published
  <2> SUFFICES ASSUME UNCHANGED vars PROVE Published' = Published
    OBVIOUS
  <2>1. UNCHANGED <<dest, backup, journal, pc>>
    BY DEF vars
  <2>2. Restored' = Restored
    BY <2>1 DEF Restored
  <2> QED
    BY <2>1, <2>2, OutcomeFrame
<1> QED
  BY <1>1, ActRefines, NextIsAnAct

\* publish_checked and recover_preserving, for files and directories alike: whoever
\* is killed or fails wherever, what a recovery would leave changes as a whole, to a
\* version no older than any destination.  Only directories lose files, and only when
\* a recovery is interrupted while it removes the snapshots it has restored.
THEOREM TransactionImplementsPublication ==
  Spec => Promise!Init /\ [][Promise!Next \/ (Interruption /\ Promise!Tear(Dirs))]_Published
<1>1. Init => Promise!Init
  BY DEF Init, Promise!Init, Published, Outcome, NoJournal, Promise!Absent, Promise!Whole, Absent, Whole
<1>2. IInv /\ GInv /\ FInv /\ [Next]_vars => [Promise!Next \/ (Interruption /\ Promise!Tear(Dirs))]_Published
  BY StepRefines
<1> QED
  BY <1>1, <1>2, FInvariant, PTL DEF Spec

-----------------------------------------------------------------------------
(* What a reader finds, with a lease and without.                          *)

\* What is published is one publication, but for retained destinations.
OnePublication(f) ==
    \A d \in Dests \ Retained : f[d].ver > 1 => \A c \in Dests : f[c].ver = f[d].ver

LEMMA PublishedIsOne == Spec => []OnePublication(Published)
<1>1. Promise!Init => OnePublication(Published)
  BY DEF Promise!Init, OnePublication, Promise!Absent, Promise!Whole
<1>2. IInv /\ OnePublication(Published) /\ [Promise!Next \/ (Interruption /\ Promise!Tear(Dirs))]_Published
        => OnePublication(Published)'
  <2> SUFFICES ASSUME IInv, OnePublication(Published), [Promise!Next \/ Promise!Tear(Dirs)]_Published
               PROVE  OnePublication(Published')
    BY DEF OnePublication
  <2> USE DEF OnePublication, Promise!Absent, Promise!Whole
  <2>1. CASE UNCHANGED Published
    BY <2>1
  <2>2. CASE Promise!Publish
    BY <2>2 DEF Promise!Publish
  <2>3. CASE Promise!Retain
    <3>0. PICK d \in Retained, v \in Nat \ {0} :
             Published[d] = Promise!Absent /\ Published' = [Published EXCEPT ![d] = Promise!Whole(v)]
      BY <2>3 DEF Promise!Retain
    <3>1. Published[d].ver = 0 /\ Published' = [Published EXCEPT ![d] = Promise!Whole(v)]
      BY <3>0
    <3>2. d \in Dests /\ \A c \in Dests : c # d => Published'[c] = Published[c]
      BY <3>1, TransactionConstants DEF Published
    <3>3. \A c \in Dests \ Retained : ~ (Published[c].ver > 1)
      BY <3>1, <3>2
    <3> QED
      BY <3>1, <3>2, <3>3
  <2>4. CASE Promise!Tear(Dirs)
    <3>1. PICK lost \in [Dirs -> SUBSET Entries] :
             Published' = [d \in Dests |->
                 IF d \in Dirs THEN [Published[d] EXCEPT !.parts = @ \ lost[d]] ELSE Published[d]]
      BY <2>4 DEF Promise!Tear
    <3>2. \A d \in Dests : Published[d] \in Trees
      BY OutcomeTypes
    <3>3. ASSUME NEW t \in Trees, NEW s PROVE [t EXCEPT !.parts = s].ver = t.ver
      BY DEF Trees
    <3>4. \A d \in Dests : Published'[d].ver = Published[d].ver
      BY <3>1, <3>2, <3>3
    <3> QED
      BY <3>4
  <2> QED
    BY <2>1, <2>2, <2>3, <2>4 DEF Promise!Next
<1> QED
  BY <1>1, <1>2, InductiveInvariant, TransactionImplementsPublication, PTL

\* With no journal, what is there is whole, but for what is torn.
LEMMA NoJournalNoDoom ==
  ASSUME FInv, journal.phase = "none", NEW d \in Dests \ torn, Exists(dest[d])
  PROVE  dest[d].parts = Entries
BY Trees0 DEF FInv, DestOK, Doomed

\* transaction.rs:46 Lease::read: whoever reads under the lease finds the
\* destinations of one publication, and every one of them whole that no interrupted
\* recovery has torn, after any history of crashes and errors of any publishers.
THEOREM ReadersOnePublication == Spec => []ReadersSeeOnePublication
<1>1. IInv /\ FInv /\ OnePublication(Published) => ReadersSeeOnePublication
  <2> SUFFICES ASSUME IInv, FInv, OnePublication(Published), NEW r \in Readers, pc[r] = "reading"
               PROVE  /\ \A d \in Dests \ torn : Exists(dest[d]) => dest[d].parts = Entries
                      /\ \A d \in Dests \ Retained : dest[d].ver > 1 => \A c \in Dests : dest[c].ver = dest[d].ver
    BY DEF ReadersSeeOnePublication
  <2>1. journal.phase = "none"
    BY DEF IInv, JournalInv, Procs
  <2>2. \A d \in Dests : Published[d] = dest[d]
    BY <2>1 DEF Published, Outcome
  <2> QED
    BY <2>1, <2>2, NoJournalNoDoom DEF OnePublication
<1> QED
  BY <1>1, FInvariant, PublishedIsOne, PTL

\* transaction.rs:180 "Keep the rollback snapshot immutable so recovery can itself
\* be interrupted": of one kill or error that holds, with directories as with files.
THEOREM OneFault == Spec => []OneFaultLosesNothing
<1>1. IInv /\ FInv => OneFaultLosesNothing
  <2> SUFFICES ASSUME IInv, FInv, faults <= 1, journal.phase = "none", NEW d \in Dests, Exists(dest[d])
               PROVE  dest[d].parts = Entries
    BY DEF OneFaultLosesNothing, InterruptedRecoveryIsRepeatable
  <2>1. torn = {}
    BY DiskTypes DEF FInv, FaultsOK
  <2> QED
    BY <2>1, NoJournalNoDoom
<1> QED
  BY <1>1, FInvariant, PTL

\* transaction.rs:357 and 372, recover_preserving(parent, active): what the publisher
\* is about to install, and what it would go back to, survive every recovery and
\* orphan cleanup of every other process, until the transaction has its commit.
THEOREM CandidatesAlwaysSurvive == Spec => []CandidatesSurvive
<1>1. IInv /\ GInv /\ FInv => CandidatesSurvive
  <2> SUFFICES ASSUME IInv, GInv, FInv, NEW w \in Writers
               PROVE  /\ pc[w] \in {"prepare", "seal"} => \A d \in Dests : stage[w][d] = Whole(version)
                      /\ pc[w] = "swap" => \A d \in idx[w]..N : stage[w][d] = Whole(version)
                      /\ pc[w] = "seal" => backup[w] = dest
                      /\ pc[w] \in {"swap", "commit"} =>
                          \A d \in Dests : backup[w][d] = IF d < idx[w] THEN stage[w][d] ELSE dest[d]
    BY DEF CandidatesSurvive
  <2>1. pc[w] = "seal" => backup[w] = dest
    <3>1. pc[w] = "seal" => \A d \in Dests : backup[w][d] = dest[d]
      BY DEF GInv, WriterOK, SnapshotsOK
    <3>2. backup[w] \in [Dests -> Trees] /\ dest \in [Dests -> Trees]
      BY DiskTypes
    <3> QED
      BY <3>1, <3>2
  <2> QED
    BY <2>1 DEF GInv, WriterOK, CandidatesOK, FInv, SwapOK
<1> QED
  BY <1>1, FInvariant, PTL

-----------------------------------------------------------------------------
(* Without a lease: while a transaction or its recovery runs, the versions  *)
(* fall from the first destination to the last.                            *)

Ahead ==
    /\ \A d \in Dests : Published[d].ver <= dest[d].ver
    /\ \A g, d \in Dests : g < d /\ dest[d].ver # Published[d].ver => dest[d].ver <= dest[g].ver

LEMMA AheadWhereEqual ==
  ASSUME IInv', \A d \in Dests : Published'[d].ver = dest'[d].ver
  PROVE  Ahead'
<1>1. \A d \in Dests : dest'[d].ver \in Nat
  BY DEF IInv, TypeOK, Trees
<1> QED
  BY <1>1 DEF Ahead

\* Where no rollback is to come, every outcome is there.
LEMMA PublishedIsThere ==
  ASSUME IInv', journal'.phase # "prepared" \/ Restored'
  PROVE  Ahead'
<1>1. \A d \in Dests : Published'[d] = dest'[d]
  BY DEF Published, Outcome
<1> QED
  BY <1>1, AheadWhereEqual

LEMMA RollbackAhead ==
  ASSUME IInv, IInv', FInv, Ahead, NEW p \in Procs, Act(p), Rollback(p)
  PROVE  Ahead'
<1>0. Published' = Published
  BY RecoveryIsInvisible DEF RecoveryStep
<1>1. PICK c \in Dests : c = idx[p]
  BY RollbackAt
<1>2. /\ journal.phase = "prepared" /\ journal.owner \in Writers /\ pc[p] = "rollback"
      /\ dest \in [Dests -> Trees]
  BY RollbackAt, DiskTypes
<1>3. ~ Restored
  BY <1>2, RestoredFrame DEF Active, RecoveryLabels
<1>4. ASSUME NEW d \in Dests, d > c PROVE dest[d] = Published[d]
  <2>1. d \in c + 1..N
    BY <1>4, TransactionConstants DEF Dests
  <2>2. RolledBack(d)
    BY <1>1, <1>2, <2>1 DEF FInv, RollbackOK
  <2> QED
    BY <2>2, OutcomeTypes, RolledBackOutcome
<1>5. \A d \in Dests : d # c => dest'[d] = dest[d]
  BY <1>1, <1>2, RollbackDoes
<1>6. dest'[c].ver = dest[c].ver \/ dest'[c].ver = Published[c].ver
  <2>1. CASE dest' = dest
    BY <2>1
  <2>2. CASE journal.had[c] /\ Exists(backup[journal.owner][c]) /\ dest' = [dest EXCEPT ![c] = backup[journal.owner][c]]
    BY <1>2, <1>3, <2>2 DEF Published, Outcome
  <2>3. CASE ~ journal.had[c] /\ c \notin Retained /\ \E t \in RemoveStep(c, dest[c]) : dest' = [dest EXCEPT ![c] = t]
    <3>1. PICK t \in RemoveStep(c, dest[c]) : dest' = [dest EXCEPT ![c] = t]
      BY <2>3
    <3>2. t = Absent \/ t.ver = dest[c].ver
      BY <1>2, RemoveStepShrinks
    <3>3. Published[c] = Absent
      BY <1>2, <1>3, <2>3 DEF Published, Outcome
    <3> QED
      BY <1>2, <3>1, <3>2, <3>3
  <2> QED
    BY <1>1, <2>1, <2>2, <2>3, RollbackDoes
<1>7. \A d \in Dests : dest[d].ver \in Nat /\ Published[d].ver \in Nat /\ d \in Int
  BY <1>2, OutcomeTypes DEF Trees, Dests
<1>8. \A d \in Dests : dest'[d].ver # Published[d].ver => dest'[d].ver = dest[d].ver /\ ~ (d > c)
  BY <1>4, <1>5, <1>6, <1>7
<1>9. \A d \in Dests : Published[d].ver <= dest'[d].ver
  BY <1>5, <1>6, <1>7 DEF Ahead
<1>10. ASSUME NEW g \in Dests, NEW d \in Dests, g < d, dest'[d].ver # Published[d].ver
       PROVE  dest'[d].ver <= dest'[g].ver
  <2>1. dest'[d].ver = dest[d].ver /\ ~ (d > c)
    BY <1>8, <1>10
  <2>2. g # c
    BY <1>7, <1>10, <2>1
  <2> QED
    BY <1>5, <1>10, <2>1, <2>2 DEF Ahead
<1> QED
  BY <1>0, <1>9, <1>10 DEF Ahead

LEMMA SwapAhead ==
  ASSUME IInv, GInv, FInv, Ahead, NEW w \in Writers, Act(w), Swap(w)
  PROVE  Ahead'
<1>0. PICK c \in Dests : c = idx[w]
  BY SwapAt
<1>1. /\ version \in Nat /\ dest \in [Dests -> Trees] /\ journal.phase = "prepared" /\ journal.owner = w
      /\ pc[w] = "swap"
      /\ dest' = [dest EXCEPT ![c] = Whole(version)] /\ UNCHANGED <<backup, journal>>
  BY <1>0, SwapAt, DiskTypes
<1>2. ~ Restored /\ ~ Restored'
  <2>1. w \in Procs /\ pc'[w] = "swap"
    BY SwapAt, DiskTypes DEF Procs
  <2> QED
    BY <1>1, <2>1, RestoredFrame DEF Active, WriterLabels
<1>3. \A d \in Dests : dest'[d] = IF d = c THEN Whole(version) ELSE dest[d]
  BY <1>1
<1>4. \A d \in Dests : d < c => dest[d] = Whole(version)
  <2>1. \A d \in Dests : d < c => d \in 1..c - 1
    BY DEF Dests
  <2> QED
    BY <1>0, <1>1, <2>1 DEF FInv, SwapOK
<1>5. \A d \in Dests : /\ Published'[d] = Published[d] \/ Published'[d] = dest'[d]
                       /\ d # c => Published'[d] = Published[d]
  BY <1>1, <1>2, <1>3 DEF Published, Outcome
<1>6. \A d \in Dests : /\ dest[d].ver \in Nat /\ dest[d].ver <= version
                       /\ Published[d].ver \in Nat /\ Published[d].ver <= version
  <2> TAKE d \in Dests
  <2>1. dest[d].ver \in Nat /\ dest[d].ver <= version
    BY VersionedTrees DEF FInv, DestOK
  <2>2. Published[d].ver <= dest[d].ver /\ Published[d].ver \in Nat
    BY OutcomeTypes DEF Ahead, Trees
  <2> QED
    BY <1>1, <2>1, <2>2
<1>7. \A d \in Dests : Published'[d].ver <= dest'[d].ver
  BY <1>1, <1>3, <1>5, <1>6, Trees0 DEF Ahead
<1>8. ASSUME NEW g \in Dests, NEW d \in Dests, g < d, dest'[d].ver # Published'[d].ver
      PROVE  dest'[d].ver <= dest'[g].ver
  <2>1. CASE g = c
    BY <1>1, <1>3, <1>6, <2>1, Trees0
  <2>2. CASE d = c /\ g # c
    BY <1>1, <1>3, <1>4, <1>8, <2>2, Trees0
  <2>3. CASE d # c /\ g # c
    BY <1>3, <1>5, <1>8, <2>3 DEF Ahead
  <2> QED
    BY <2>1, <2>2, <2>3
<1> QED
  BY <1>7, <1>8 DEF Ahead

\* Neither what is there nor what is promised changes.
LEMMA AheadFrame ==
  ASSUME Ahead, UNCHANGED <<dest, Published>>
  PROVE  Ahead'
BY DEF Ahead

LEMMA ActAhead ==
  ASSUME IInv, IInv', GInv, FInv, Ahead, NEW p \in Procs, Act(p)
  PROVE  Ahead'
<1>0. pc \in [Procs -> Labels] /\ (journal'.phase # "prepared" \/ Restored' => Ahead')
  BY DiskTypes, PublishedIsThere
<1>1. CASE RecoveryStep(p)
  <2>1. CASE Rollback(p)
    BY <2>1, RollbackAhead
  <2>2. CASE ~ Rollback(p)
    <3>1. dest' = dest
      BY <1>1, <2>2 DEF RecoveryStep, RecoverStart, RollbackDone, Unstage, Unbackup, Unjournal, CleanupOrphans, disk
    <3> QED
      BY <1>1, <3>1, RecoveryIsInvisible, AheadFrame
  <2> QED
    BY <2>1, <2>2
<1>2. CASE p \in Writers /\ PublisherStep(p)
  <2>1. CASE Swap(p)
    BY <1>2, <2>1, SwapAhead
  <2>2. CASE Seal(p)
    BY <1>2, <2>2, SealIsInvisible, AheadFrame DEF Seal
  <2>3. CASE Prepare(p) \/ Commit(p)
    <3>1. journal'.phase # "prepared"
      BY <2>3 DEF Prepare, Commit, IInv, JournalInv, TypeOK, Journals
    <3> QED
      BY <1>0, <3>1
  <2>4. CASE Stage(p) \/ Prepared(p) \/ Swapped(p) \/ Cleanup(p)
    <3>1. UNCHANGED <<dest, backup, journal>> /\ pc[p] # "unbackup" /\ pc'[p] # "unbackup"
      BY <1>0, <2>4 DEF Stage, Prepared, Swapped, Cleanup, Recover, Goto, disk
    <3> QED
      BY <3>1, RestoredFrame, OutcomeFrame, AheadFrame
  <2> QED
    BY <1>2, <2>1, <2>2, <2>3, <2>4 DEF PublisherStep
<1>3. CASE Fault(p)
  <2>0. dest' = dest /\ pc'[p] # "unbackup"
    BY <1>0, <1>3 DEF Fault, Crash, Fail, FailOutside, FailStaging, FailPrepare, FailSeal, FailSwap, Recover, Goto, disk
  <2>1. CASE pc[p] = "unbackup" /\ journal'.phase = "prepared"
    <3>1. UNCHANGED <<backup, journal>>
      BY <1>3, <2>1 DEF Fault, Crash, Fail, FailOutside, FailStaging, FailPrepare, FailSeal, FailSwap, disk
    <3>2. ~ Restored' /\ \A d \in Dests : Covered(d)
      BY <2>0, <2>1, <3>1, RestoredFrame DEF FInv, RollbackOK
    <3>3. \A d \in Dests : Outcome(d)'.ver = dest'[d].ver
      BY <2>0, <2>1, <3>1, <3>2 DEF Outcome, Covered, Exists
    <3>4. \A d \in Dests : Published'[d].ver = dest'[d].ver
      BY <3>3 DEF Published
    <3> QED
      BY <3>4, AheadWhereEqual
  <2>2. CASE pc[p] # "unbackup" /\ UNCHANGED <<backup, journal>>
    BY <2>0, <2>2, RestoredFrame, OutcomeFrame, AheadFrame
  <2>3. CASE journal'.phase = "prepared" /\ journal' # journal
    <3>1. FailSeal(p)
      BY <1>3, <2>3 DEF Fault, Crash, Fail, FailOutside, FailStaging, FailPrepare, FailSwap, IInv, TypeOK, Journals, disk
    <3>2. p \in Writers
      BY <3>1 DEF FailSeal, IInv, ControlInv, Procs, WriterLabels
    <3> QED
      BY <2>3, <3>1, <3>2, SealIsInvisible, AheadFrame DEF FailSeal
  <2>4. CASE journal'.phase = "prepared" /\ journal' = journal /\ backup' # backup
    <3>1. FailPrepare(p)
      BY <1>3, <2>4 DEF Fault, Crash, Fail, FailOutside, FailStaging, FailSeal, FailSwap, disk
    <3> QED
      BY <2>4, <3>1 DEF FailPrepare, IInv, JournalInv
  <2>5. CASE journal'.phase # "prepared"
    BY <1>0, <2>5
  <2>6. CASE pc[p] = "unbackup" \/ ~ UNCHANGED <<backup, journal>>
    BY <2>1, <2>3, <2>4, <2>5, <2>6
  <2> QED
    BY <2>2, <2>6
<1>4. CASE ~ RecoveryStep(p) /\ ~ (p \in Writers /\ PublisherStep(p)) /\ ~ Fault(p)
  <2>1. UNCHANGED <<dest, backup, journal>>
    BY <1>4 DEF Act, Begin, BeginRead, LockExclusive, Step, LockShared, CheckJournal, EndRead, disk
  <2>2. pc[p] # "unbackup" /\ pc'[p] # "unbackup"
    BY <1>0, <1>4 DEF Act, Begin, BeginRead, LockExclusive, Step, LockShared, CheckJournal, EndRead, Goto
  <2> QED
    BY <2>1, <2>2, RestoredFrame, OutcomeFrame, AheadFrame
<1> QED
  BY <1>1, <1>2, <1>3, <1>4

\* publication.rs:1288, the order of the destinations: viewers take no lease, and at
\* no moment of a publication, of its rollback, or after a crash in either, is there
\* a catalog ahead of the retained generation installed before it.
THEOREM CatalogsNeverAhead == Spec => []CatalogsFindTheirGeneration
<1>1. Init => Ahead
  <2> SUFFICES ASSUME Init PROVE Ahead
    OBVIOUS
  <2>1. \A d \in Dests : Published[d] = dest[d]
    BY DEF Init, NoJournal, Published, Outcome
  <2>2. \A d \in Dests : dest[d].ver \in Nat
    BY DEF Init, Absent, Whole
  <2> QED
    BY <2>1, <2>2 DEF Ahead
<1>2. IInv /\ IInv' /\ GInv /\ FInv /\ Ahead /\ [Next]_vars => Ahead'
  <2>1. ASSUME Ahead, UNCHANGED vars PROVE Ahead'
    <3>1. UNCHANGED <<dest, backup, journal, pc>>
      BY <2>1 DEF vars
    <3>2. Restored' = Restored
      BY <3>1 DEF Restored
    <3> QED
      BY <2>1, <3>1, <3>2, OutcomeFrame, AheadFrame
  <2> QED
    BY <2>1, ActAhead, NextIsAnAct
<1>3. IInv /\ Ahead /\ OnePublication(Published) => CatalogsFindTheirGeneration
  <2> SUFFICES ASSUME IInv, Ahead, OnePublication(Published),
                      NEW g \in Retained, NEW d \in Dests \ Retained, g < d, dest[d].ver > 1
               PROVE  dest[g].ver >= dest[d].ver
    BY DEF CatalogsFindTheirGeneration
  <2>0. g \in Dests
    BY TransactionConstants
  <2>1. dest[d].ver \in Nat /\ dest[g].ver \in Nat
    BY <2>0, DiskTypes DEF Trees
  <2>2. CASE dest[d].ver # Published[d].ver
    BY <2>0, <2>1, <2>2 DEF Ahead
  <2>3. CASE dest[d].ver = Published[d].ver
    <3>1. Published[g].ver = dest[d].ver /\ Published[g].ver <= dest[g].ver
      BY <2>0, <2>3 DEF Ahead, OnePublication
    <3> QED
      BY <2>1, <3>1
  <2> QED
    BY <2>2, <2>3
<1> QED
  BY <1>1, <1>2, <1>3, FInvariant, PublishedIsOne, PTL DEF Spec

=============================================================================
