-------------------------- MODULE AdmissionProofs --------------------------
(***************************************************************************)
(* What holds of Admission for any number of operations, tasks, archives   *)
(* and versions, and any budget.                                           *)
(***************************************************************************)
EXTENDS Admission, FiniteSetTheorems, RankedRecursion, TLAPS

-----------------------------------------------------------------------------
(* The inductive invariant.  The budget has its own, below.                *)

Types ==
    /\ file \in [Archives -> 1..MaxVersion]
    /\ session \in [Ops -> {"before", "open", "closed"}]
    /\ slot \in [Archives -> 0..MaxVersion]
    /\ owner \in [Archives -> Tasks \union {None}]
    /\ pc \in [Tasks -> Labels]
    /\ identity \in [Tasks -> 0..MaxVersion]
    /\ content \in [Tasks -> 0..MaxVersion]
    /\ got \in [Tasks -> 0..MaxVersion]

\* A task runs inside its operation's session.
SessionInv ==
    \A t \in Tasks :
        /\ pc[t] # "queued" => session[OpOf[t]] # "before"
        /\ pc[t] \notin Ended \union {"queued"} => session[OpOf[t]] = "open"

\* The task in a slot holds its mutex, finds the slot empty once it reads, and
\* has read a version whole unless the file has moved on.
SlotInv ==
    \A t \in Tasks :
        LET a == ArchiveOf[t] IN
        /\ pc[t] \in InSlot => owner[a] = t /\ 1 <= identity[t] /\ identity[t] <= file[a]
        /\ pc[t] = "read" => slot[a] = 0
        /\ pc[t] = "read" /\ file[a] = identity[t] => content[t] = identity[t]

\* What a task has been given, and that the slot keeps it as long as a session
\* of the task's operation is open.
GotInv ==
    \A t \in Tasks :
        /\ pc[t] \in {"queued", "first", "slot", "opened", "read"} => got[t] = 0
        /\ pc[t] \in {"admitted", "second", "decoding", "done"} => got[t] # 0
        /\ got[t] # 0 => got[t] = identity[t] /\ Matches(t, got[t])
        /\ got[t] # 0 /\ session[OpOf[t]] = "open" => slot[ArchiveOf[t]] = got[t]

IInv == Types /\ SessionInv /\ SlotInv /\ GotInv

LEMMA InitIInv == Init => IInv
<1> SUFFICES ASSUME Init PROVE IInv
  OBVIOUS
<1> USE AdmissionConstants
<1>1. Types
  BY DEF Init, Types, Labels
<1>2. SessionInv /\ SlotInv /\ GotInv
  BY DEF Init, SessionInv, SlotInv, GotInv, InSlot
<1> QED
  BY <1>1, <1>2 DEF IInv

-----------------------------------------------------------------------------
(* One lemma per group of actions.                                         *)

LEMMA SessionSteps ==
  ASSUME IInv, NEW o \in Ops, OpenSession(o) \/ CloseSession(o)
  PROVE  IInv'
<1> USE AdmissionConstants DEF IInv, Types, SessionInv, SlotInv, GotInv, admission, TasksOf, Ended, InSlot, Labels
<1>1. CASE OpenSession(o)
  BY <1>1 DEF OpenSession, Matches
<1>2. CASE CloseSession(o)
  <2>1. Types'
    BY <1>2 DEF CloseSession
  <2>2. SessionInv'
    BY <1>2 DEF CloseSession
  <2>3. SlotInv'
    BY <1>2 DEF CloseSession
  <2>4. GotInv'
    BY <1>2 DEF CloseSession, Users, Matches
  <2> QED
    BY <2>1, <2>2, <2>3, <2>4
<1> QED
  BY <1>1, <1>2

\* Steps outside the slot change nothing but pc and the budget.
LEMMA OutsideSteps ==
  ASSUME IInv, NEW t \in Tasks,
         Start(t) \/ Refuse(t) \/ Acquire(t) \/ Admitted(t) \/ Decoded(t)
  PROVE  IInv'
<1> USE AdmissionConstants DEF IInv, Types, SessionInv, SlotInv, GotInv, admission, Ended, InSlot, Labels, Goto
<1>1. CASE Start(t)
  BY <1>1 DEF Start, TasksOf, Matches
<1>2. CASE Refuse(t)
  BY <1>2 DEF Refuse, Matches
<1>3. CASE Acquire(t)
  BY <1>3 DEF Acquire, Matches
<1>4. CASE Admitted(t)
  BY <1>4 DEF Admitted, Matches
<1>5. CASE Decoded(t)
  BY <1>5 DEF Decoded, Matches
<1> QED
  BY <1>1, <1>2, <1>3, <1>4, <1>5

\* A task that fails inside the slot gives up the mutex and keeps nothing.
LEMMA FailStep ==
  ASSUME IInv, NEW t \in Tasks, pc[t] \in InSlot, Fail(t),
         UNCHANGED <<slot, identity, content, got, file, session>>
  PROVE  IInv'
<1> USE AdmissionConstants DEF IInv, Types, SessionInv, SlotInv, GotInv, Ended, InSlot, Labels
<1>1. /\ owner' = [owner EXCEPT ![ArchiveOf[t]] = None]
      /\ pc' = [pc EXCEPT ![t] = "failed"]
  BY DEF Fail, Unlock, Goto
<1>2. Types' /\ SessionInv'
  BY <1>1
<1>3. SlotInv'
  BY <1>1
<1>4. GotInv'
  BY <1>1 DEF Matches
<1> QED
  BY <1>2, <1>3, <1>4

LEMMA SlotSteps ==
  ASSUME IInv, NEW t \in Tasks,
         LockSlot(t) \/ Reuse(t) \/ Read(t) \/ Extract(t) \/ ExtractFails(t)
  PROVE  IInv'
<1> USE AdmissionConstants DEF IInv, Types, SessionInv, SlotInv, GotInv, Ended, InSlot, Labels, Goto
<1>1. CASE LockSlot(t)
  BY <1>1 DEF LockSlot, Matches
<1>2. CASE Reuse(t)
  <2>1. CASE slot[ArchiveOf[t]] = identity[t] /\ Matches(t, slot[ArchiveOf[t]])
    BY <1>2, <2>1 DEF Reuse, Unlock, Matches
  <2>2. CASE ~ (slot[ArchiveOf[t]] = identity[t] /\ Matches(t, slot[ArchiveOf[t]]))
    BY <1>2, <2>2, FailStep DEF Reuse
  <2> QED
    BY <2>1, <2>2
<1>3. CASE Read(t)
  BY <1>3 DEF Read, Matches
<1>4. CASE Extract(t)
  <2>1. CASE file[ArchiveOf[t]] = identity[t] /\ Matches(t, content[t])
    <3> DEFINE a == ArchiveOf[t]
    <3>1. /\ content[t] = identity[t] /\ content[t] # 0 /\ slot[a] = 0
          /\ session[OpOf[t]] = "open" /\ owner[a] = t
      BY <1>4, <2>1 DEF Extract
    <3>2. \A u \in Tasks : ArchiveOf[u] = a /\ session[OpOf[u]] = "open" => got[u] = 0
      BY <3>1
    <3>3. \A u \in Tasks \ {t} : ArchiveOf[u] = a => pc[u] \notin InSlot
      BY <3>1
    <3>4. /\ slot' = [slot EXCEPT ![a] = identity[t]]
          /\ got' = [got EXCEPT ![t] = content[t]]
          /\ owner' = [owner EXCEPT ![a] = None]
          /\ pc' = [pc EXCEPT ![t] = "admitted"]
          /\ UNCHANGED <<identity, content, file, session>>
      BY <1>4, <2>1 DEF Extract, Unlock
    <3>5. Types' /\ SessionInv'
      BY <3>1, <3>4
    <3>6. SlotInv'
      BY <3>1, <3>3, <3>4
    <3>7. GotInv'
      BY <2>1, <3>1, <3>2, <3>4 DEF Matches
    <3> QED
      BY <3>5, <3>6, <3>7
  <2>2. CASE ~ (file[ArchiveOf[t]] = identity[t] /\ Matches(t, content[t]))
    BY <1>4, <2>2, FailStep DEF Extract
  <2> QED
    BY <2>1, <2>2
<1>5. CASE ExtractFails(t)
  BY <1>5, FailStep DEF ExtractFails
<1> QED
  BY <1>1, <1>2, <1>3, <1>4, <1>5

LEMMA OtherSteps ==
  ASSUME IInv, (\E a \in Archives : ChangeFile(a)) \/ (\E t \in Tasks : Wake(t)) \/ UNCHANGED vars
  PROVE  IInv'
<1> USE AdmissionConstants DEF IInv, Types, SessionInv, SlotInv, GotInv, admission, Ended, InSlot, Labels
<1>1. CASE \E a \in Archives : ChangeFile(a)
  BY <1>1 DEF ChangeFile, Matches
<1>2. CASE \E t \in Tasks : Wake(t)
  BY <1>2 DEF Wake, Matches
<1>3. CASE UNCHANGED vars
  BY <1>3 DEF vars, Matches
<1> QED
  BY <1>1, <1>2, <1>3

LEMMA NextIInv == IInv /\ [Next]_vars => IInv'
<1> SUFFICES ASSUME IInv, [Next]_vars PROVE IInv'
  OBVIOUS
<1> QED
  BY SessionSteps, OutsideSteps, SlotSteps, OtherSteps DEF Next, TaskStep

-----------------------------------------------------------------------------
(* Sums of a function over a finite set, as BudgetIsExact folds them.        *)

Sum(f, S) == FoldFunctionOnSet(+, 0, f, S)

\* The element the fold takes next.
Chosen(s) == CHOOSE x \in s : TRUE

\* The function the fold defines by recursion.
Adds(iter, f, S) ==
    iter = [s \in SUBSET S |-> IF s = {} THEN 0 ELSE f[Chosen(s)] + iter[s \ {Chosen(s)}]]

\* Induction over the subsets of a finite set, along the order of the fold.
LEMMA SubsetInduction ==
  ASSUME NEW S, IsFiniteSet(S), NEW G, {} \in G,
         \A s \in SUBSET S : s # {} /\ s \ {Chosen(s)} \in G => s \in G
  PROVE  \A s \in SUBSET S : s \in G
<1> DEFINE D == SUBSET S
           rank == [s \in D |-> Cardinality(s)]
<1>1. \A s \in D : IsFiniteSet(s) /\ Cardinality(s) \in Nat
  BY FS_Subset, FS_CardinalityType
<1>2. rank \in [D -> Nat]
  BY <1>1
<1>3. ASSUME NEW s \in D, \A u \in D : rank[u] < rank[s] => u \in G
      PROVE  s \in G
  <2>1. CASE s # {}
    <3>1. Chosen(s) \in s /\ s \ {Chosen(s)} \in D
      BY <2>1 DEF Chosen
    <3>2. rank[s \ {Chosen(s)}] < rank[s]
      BY <1>1, <3>1, FS_RemoveElement
    <3> QED
      BY <1>3, <2>1, <3>1, <3>2
  <2> QED
    BY <2>1
<1>4. \A s \in D : (\A u \in D : rank[u] < rank[s] => u \in G) => s \in G
  BY <1>3
<1>5. \A s \in D : s \in G
  <2> HIDE DEF D, rank
  <2> QED
    BY <1>2, <1>4, RankInduction
<1> QED
  BY <1>5

\* The recursion of the fold defines a function.
LEMMA AddsExists ==
  ASSUME NEW T, NEW f \in [T -> Int], NEW S \in SUBSET T, IsFiniteSet(S)
  PROVE  \E iter : Adds(iter, f, S)
<1> DEFINE D == SUBSET S
           B == {{}}
           N == Cardinality(S)
           rank == [s \in D |-> Cardinality(s)]
           before == [s \in D |-> IF s = {} THEN {} ELSE s \ {Chosen(s)}]
           base == [s \in D |-> 0]
           step == [a \in D \X Int |-> IF a[1] = {} THEN 0 ELSE f[Chosen(a[1])] + a[2]]
<1>1. \A s \in D : s # {} => Chosen(s) \in s
  BY DEF Chosen
<1>2. N \in Nat /\ \A s \in D : IsFiniteSet(s) /\ Cardinality(s) \in 0..N
  BY FS_Subset, FS_CardinalityType
<1>3. rank \in [D -> 0..N] /\ B \in SUBSET D
  BY <1>2
<1>4. /\ base \in [D -> Int]
      /\ before \in [D -> D]
      /\ step \in [D \X Int -> Int]
  BY <1>1
<1>5. \A s \in D \ B : rank[before[s]] < rank[s]
  BY <1>1, <1>2, FS_RemoveElement
<1>6. \E g : Recursive(g, D, Int, B, base, before, step)
  <2> HIDE DEF D, rank, before, base, step, B, N
  <2> QED
    BY <1>2, <1>3, <1>4, <1>5, RecursionExists
<1>7. PICK g : Recursive(g, D, Int, B, base, before, step)
  BY <1>6
<1>8. /\ g \in [D -> Int]
      /\ \A s \in D : g[s] = IF s = {} THEN 0 ELSE f[Chosen(s)] + g[s \ {Chosen(s)}]
  BY <1>4, <1>7 DEF Recursive
<1> QED
  BY <1>8 DEF Adds

\* What that function is for every subset.
PartialSumsOf(iter, f, S) ==
    /\ iter \in [SUBSET S -> Int]
    /\ iter[S] = Sum(f, S)
    /\ iter[{}] = 0
    /\ \A s \in SUBSET S : s # {} => iter[s] = f[Chosen(s)] + iter[s \ {Chosen(s)}]

\* A sum is the last of the partial sums its fold takes.
LEMMA PartialSums ==
  ASSUME NEW T, NEW f \in [T -> Int], NEW S \in SUBSET T, IsFiniteSet(S)
  PROVE  \E iter : PartialSumsOf(iter, f, S)
<1> DEFINE iter == CHOOSE i : Adds(i, f, S)
           G == {s \in SUBSET S : iter[s] \in Int}
<1>1. Adds(iter, f, S)
  BY AddsExists
<1>2. iter[S] = Sum(f, S)
  BY Zenon DEF Sum, FoldFunctionOnSet, MapThenFoldSet, Adds, Chosen
<1> HIDE DEF iter
<1>3. /\ DOMAIN iter = SUBSET S
      /\ iter[{}] = 0
    /\ \A s \in SUBSET S : s # {} => iter[s] = f[Chosen(s)] + iter[s \ {Chosen(s)}]
  BY <1>1 DEF Adds
<1>4. {} \in G
  <2>1. {} \in SUBSET S
    OBVIOUS
  <2> QED
    BY <1>3, <2>1
<1>5. ASSUME NEW s \in SUBSET S, s # {}, s \ {Chosen(s)} \in G
      PROVE  s \in G
  BY <1>3, <1>5 DEF Chosen
<1>6. \A s \in SUBSET S : s \in G
  <2> HIDE DEF G
  <2> QED
    BY <1>4, <1>5, SubsetInduction
<1>7. iter = [s \in SUBSET S |-> iter[s]]
  BY <1>1 DEF Adds
<1>8. PartialSumsOf(iter, f, S)
  BY <1>2, <1>3, <1>6, <1>7 DEF PartialSumsOf
<1> QED
  BY <1>8

\* A sum changes by what one of its terms does.
LEMMA SumChanges ==
  ASSUME NEW T, NEW f \in [T -> Int], NEW h \in [T -> Int], NEW S \in SUBSET T, IsFiniteSet(S),
         NEW t \in T, \A x \in T \ {t} : h[x] = f[x]
  PROVE  Sum(h, S) = Sum(f, S) + (IF t \in S THEN h[t] - f[t] ELSE 0)
<1> DEFINE change(s) == IF t \in s THEN h[t] - f[t] ELSE 0
<1>1. PICK i : PartialSumsOf(i, f, S)
  BY PartialSums
<1>2. PICK j : PartialSumsOf(j, h, S)
  BY PartialSums
<1>3. /\ i \in [SUBSET S -> Int] /\ i[S] = Sum(f, S)
      /\ j \in [SUBSET S -> Int] /\ j[S] = Sum(h, S)
      /\ i[{}] = 0 /\ j[{}] = 0
      /\ \A s \in SUBSET S : s # {} => /\ i[s] = f[Chosen(s)] + i[s \ {Chosen(s)}]
                                       /\ j[s] = h[Chosen(s)] + j[s \ {Chosen(s)}]
  BY <1>1, <1>2 DEF PartialSumsOf
<1> DEFINE G == {s \in SUBSET S : j[s] = i[s] + change(s)}
<1>4. {} \in G
  <2>1. {} \in SUBSET S
    OBVIOUS
  <2> QED
    BY <1>3, <2>1
<1>5. ASSUME NEW s \in SUBSET S, s # {}, s \ {Chosen(s)} \in G
      PROVE  s \in G
  <2> DEFINE x == Chosen(s)
             r == s \ {x}
  <2>1. x \in s /\ r \in SUBSET S
    BY <1>5 DEF Chosen
  <2> HIDE DEF x
  <2>2. j[s] = h[x] + j[r] /\ i[s] = f[x] + i[r] /\ j[r] = i[r] + change(r)
    BY <1>3, <1>5 DEF x
  <2>3. i[r] \in Int /\ f[x] \in Int /\ h[x] \in Int /\ f[t] \in Int /\ h[t] \in Int
    BY <1>3, <2>1
  <2>4. CASE x = t
    BY <2>1, <2>2, <2>3, <2>4
  <2>5. CASE x # t
    <3>1. h[x] = f[x] /\ change(r) = change(s)
      BY <2>1, <2>5
    <3> QED
      BY <2>2, <2>3, <3>1
  <2> QED
    BY <2>4, <2>5
<1>6. S \in G
  <2> HIDE DEF G
  <2> QED
    BY <1>4, <1>5, SubsetInduction
<1> QED
  BY <1>3, <1>6

\* A sum of naturals is one, and at least each of its terms; one of zeros is zero.
LEMMA SumOfNaturals ==
  ASSUME NEW T, NEW f \in [T -> Nat], NEW S \in SUBSET T, IsFiniteSet(S)
  PROVE  /\ Sum(f, S) \in Nat
         /\ (\A x \in S : f[x] = 0) => Sum(f, S) = 0
<1>1. PICK i : PartialSumsOf(i, f, S)
  BY PartialSums
<1>2. /\ i \in [SUBSET S -> Int] /\ i[S] = Sum(f, S)
      /\ i[{}] = 0
      /\ \A s \in SUBSET S : s # {} => i[s] = f[Chosen(s)] + i[s \ {Chosen(s)}]
  BY <1>1 DEF PartialSumsOf
<1> DEFINE G == {s \in SUBSET S : i[s] \in Nat /\ ((\A x \in S : f[x] = 0) => i[s] = 0)}
<1>3. {} \in G
  <2>1. {} \in SUBSET S
    OBVIOUS
  <2> QED
    BY <1>2, <2>1
<1>4. ASSUME NEW s \in SUBSET S, s # {}, s \ {Chosen(s)} \in G
      PROVE  s \in G
  BY <1>2, <1>4 DEF Chosen
<1>5. S \in G
  <2> HIDE DEF G
  <2> QED
    BY <1>3, <1>4, SubsetInduction
<1> QED
  BY <1>2, <1>5

\* A term is at most the sum.
LEMMA TermBound ==
  ASSUME NEW T, NEW f \in [T -> Nat], NEW S \in SUBSET T, IsFiniteSet(S), NEW t \in S
  PROVE  f[t] <= Sum(f, S)
<1> DEFINE h == [f EXCEPT ![t] = 0]
<1>1. h \in [T -> Nat] /\ h \in [T -> Int] /\ f \in [T -> Int] /\ t \in T /\ \A x \in T \ {t} : h[x] = f[x]
  OBVIOUS
<1>2. h[t] = 0 /\ f[t] \in Nat
  OBVIOUS
<1> HIDE DEF h
<1>3. Sum(h, S) = Sum(f, S) + (h[t] - f[t])
  BY <1>1, SumChanges
<1>4. Sum(h, S) \in Nat /\ Sum(f, S) \in Nat
  BY <1>1, SumOfNaturals
<1> QED
  BY <1>2, <1>3, <1>4

-----------------------------------------------------------------------------
(* The budget: what a reservation and its drop do to the sums.             *)

\* The counter of an operation is the sum of its tasks' reservations.
Exact(o) == used[o] = Sum(held, TasksOf(o)) /\ used[o] <= Limit

\* Only a task between its reserve() and its drop owns a reservation.
Owners == \A t \in Tasks : pc[t] \in Ended \union {"queued", "first", "second"} => held[t] = 0

BudgetInv == BudgetTypeOK /\ faults \in 0..MaxFaults /\ (\A o \in Ops : Exact(o)) /\ Owners

LEMMA BudgetInvIsExact == BudgetInv => BudgetIsExact
<1> SUFFICES ASSUME BudgetInv, NEW o \in Ops
             PROVE  /\ used[o] = FoldFunctionOnSet(+, 0, held, TasksOf(o))
                    /\ used[o] <= Limit
                    /\ \A t \in TasksOf(o) :
                          pc[t] \in Ended \union {"queued", "first", "second"} => held[t] = 0
  BY Zenon DEF BudgetIsExact
<1>1. Exact(o) /\ Owners
  BY DEF BudgetInv
<1>2. used[o] = FoldFunctionOnSet(+, 0, held, TasksOf(o))
  BY <1>1, Zenon DEF Exact, Sum
<1> QED
  BY <1>1, <1>2, Zenon DEF Exact, Owners, TasksOf

\* The tasks of an operation are finitely many.
LEMMA TasksOfFinite == \A o \in Ops : TasksOf(o) \in SUBSET Tasks /\ IsFiniteSet(TasksOf(o))
<1> SUFFICES ASSUME NEW o \in Ops PROVE TasksOf(o) \in SUBSET Tasks /\ IsFiniteSet(TasksOf(o))
  OBVIOUS
<1>1. TasksOf(o) \in SUBSET Tasks
  BY DEF TasksOf
<1> QED
  BY <1>1, BudgetConstants, FS_Subset

\* Setting one task's reservation moves the sum of its operation, and no other.
LEMMA SumsFollow ==
  ASSUME BudgetTypeOK, NEW t \in Tasks, NEW n \in Nat, held' = [held EXCEPT ![t] = n],
         NEW o \in Ops
  PROVE  Sum(held', TasksOf(o)) = Sum(held, TasksOf(o)) + (IF o = OpOf[t] THEN n - held[t] ELSE 0)
<1> DEFINE h == [held EXCEPT ![t] = n]
           S == TasksOf(o)
<1>1. held \in [Tasks -> Nat]
  BY DEF BudgetTypeOK
<1>2. held \in [Tasks -> Int] /\ h \in [Tasks -> Int]
  BY <1>1
<1>3. h[t] = n /\ \A x \in Tasks \ {t} : h[x] = held[x]
  BY <1>1
<1>4. t \in S <=> o = OpOf[t]
  BY DEF TasksOf
<1>5. S \in SUBSET Tasks /\ IsFiniteSet(S)
  BY TasksOfFinite
<1>6. held' = h
  OBVIOUS
<1> HIDE DEF h, S
<1>7. Sum(h, S) = Sum(held, S) + (IF t \in S THEN h[t] - held[t] ELSE 0)
  BY <1>2, <1>3, <1>5, SumChanges
<1> QED
  BY <1>3, <1>4, <1>6, <1>7 DEF S

\* MemoryBudget::reserve
LEMMA ReserveKeepsSums ==
  ASSUME BudgetTypeOK, \A o \in Ops : Exact(o),
         NEW t \in Tasks, NEW n \in Nat, held[t] = 0, Reserve(OpOf[t], t, n)
  PROVE  BudgetTypeOK' /\ \A o \in Ops : Exact(o)'
<1> USE AdmissionConstants, BudgetConstants
<1>1. /\ used \in [Ops -> Nat] /\ OpOf[t] \in Ops
      /\ n <= Limit - used[OpOf[t]]
      /\ used' = [used EXCEPT ![OpOf[t]] = @ + n]
      /\ held' = [held EXCEPT ![t] = n]
      /\ UNCHANGED waiting
  BY DEF Reserve, Fits, BudgetTypeOK
<1>2. BudgetTypeOK'
  BY <1>1 DEF BudgetTypeOK
<1>3. ASSUME NEW o \in Ops PROVE Exact(o)'
  <2>1. Sum(held', TasksOf(o)) = Sum(held, TasksOf(o)) + (IF o = OpOf[t] THEN n - held[t] ELSE 0)
    BY <1>1, SumsFollow
  <2>2. used[o] = Sum(held, TasksOf(o)) /\ used[o] <= Limit
    BY DEF Exact
  <2>3. used'[o] = Sum(held', TasksOf(o)) /\ used'[o] <= Limit
    BY <1>1, <2>1, <2>2
  <2> QED
    BY <2>3 DEF Exact, TasksOf
<1> QED
  BY <1>2, <1>3

\* Reservation::drop
LEMMA DropKeepsSums ==
  ASSUME BudgetTypeOK, \A o \in Ops : Exact(o),
         NEW t \in Tasks, NEW failed \in BOOLEAN, Drop(OpOf[t], t, failed)
  PROVE  BudgetTypeOK' /\ (\A o \in Ops : Exact(o)') /\ held' = [held EXCEPT ![t] = 0]
<1> USE AdmissionConstants, BudgetConstants
<1>1. /\ used \in [Ops -> Nat] /\ held \in [Tasks -> Nat] /\ OpOf[t] \in Ops
      /\ used' = [used EXCEPT ![OpOf[t]] = @ - held[t]]
      /\ held' = [held EXCEPT ![t] = 0]
      /\ waiting' = {}
  BY DEF Drop, BudgetTypeOK
<1>2. held[t] <= used[OpOf[t]]
  <2>1. t \in TasksOf(OpOf[t])
    BY DEF TasksOf
  <2>2. held[t] <= Sum(held, TasksOf(OpOf[t]))
    BY <1>1, <2>1, TasksOfFinite, TermBound
  <2> QED
    BY <1>1, <2>2 DEF Exact
<1>3. BudgetTypeOK'
  BY <1>1, <1>2 DEF BudgetTypeOK
<1>4. ASSUME NEW o \in Ops PROVE Exact(o)'
  <2>1. Sum(held', TasksOf(o)) = Sum(held, TasksOf(o)) + (IF o = OpOf[t] THEN 0 - held[t] ELSE 0)
    BY <1>1, SumsFollow
  <2>2. used[o] = Sum(held, TasksOf(o)) /\ used[o] <= Limit
    BY DEF Exact
  <2>3. used'[o] = Sum(held', TasksOf(o)) /\ used'[o] <= Limit
    BY <1>1, <1>2, <2>1, <2>2
  <2> QED
    BY <2>3 DEF Exact, TasksOf
<1> QED
  BY <1>1, <1>3, <1>4

LEMMA InitBudgetInv == Init => BudgetInv
<1> SUFFICES ASSUME Init PROVE BudgetInv
  OBVIOUS
<1> USE AdmissionConstants, BudgetConstants
<1>1. BudgetTypeOK /\ faults \in 0..MaxFaults /\ Owners
  BY DEF Init, BudgetInit, BudgetTypeOK, Owners
<1>2. ASSUME NEW o \in Ops PROVE Exact(o)
  <2>1. held \in [Tasks -> Nat] /\ (\A x \in TasksOf(o) : held[x] = 0) /\ used[o] = 0
    BY DEF Init, BudgetInit, TasksOf
  <2>2. Sum(held, TasksOf(o)) = 0
    BY <2>1, TasksOfFinite, SumOfNaturals
  <2> QED
    BY <2>1, <2>2 DEF Exact
<1> QED
  BY <1>1, <1>2 DEF BudgetInv

\* A step that leaves the sums alone, as most do.
LEMMA SumsUnchanged ==
  ASSUME BudgetInv, UNCHANGED <<used, held>>, waiting' \in SUBSET Tasks
  PROVE  BudgetTypeOK' /\ \A o \in Ops : Exact(o)'
BY DEF BudgetInv, BudgetTypeOK, Exact, TasksOf

LEMMA BudgetSteps ==
  ASSUME Types, BudgetInv, NEW t \in Tasks, TaskStep(t) \/ ExtractFails(t)
  PROVE  BudgetInv'
<1> USE AdmissionConstants, BudgetConstants
<1> USE DEF Types, Owners, Ended, Labels, Goto
<1>1. BudgetTypeOK /\ faults \in 0..MaxFaults /\ (\A o \in Ops : Exact(o)) /\ Owners
      /\ held \in [Tasks -> Nat]
  BY DEF BudgetInv, BudgetTypeOK
<1>2. ASSUME UNCHANGED <<used, held, waiting, faults>>, NEW l \in Labels, pc' = [pc EXCEPT ![t] = l],
             l \in Ended \union {"queued", "first", "second"} => held[t] = 0
      PROVE  BudgetInv'
  <2>1. waiting' \in SUBSET Tasks
    BY <1>1, <1>2 DEF BudgetTypeOK
  <2>2. Owners'
    BY <1>1, <1>2
  <2> QED
    BY <1>1, <1>2, <2>1, <2>2, SumsUnchanged DEF BudgetInv
<1>3. ASSUME NEW failed \in BOOLEAN, Drop(OpOf[t], t, failed), NEW l \in Labels, pc' = [pc EXCEPT ![t] = l],
             faults' \in 0..MaxFaults
      PROVE  BudgetInv'
  <2>1. BudgetTypeOK' /\ (\A o \in Ops : Exact(o)') /\ held' = [held EXCEPT ![t] = 0]
    BY <1>1, <1>3, DropKeepsSums
  <2>2. Owners'
    BY <1>1, <1>3, <2>1
  <2> QED
    BY <1>3, <2>1, <2>2 DEF BudgetInv
<1>4. CASE Start(t) \/ Refuse(t)
  BY <1>1, <1>2, <1>4 DEF Start, Refuse, budgetVars
<1>5. CASE Acquire(t)
  <2>1. pc[t] \in {"first", "second"} /\ held[t] = 0 /\ faults' = faults /\ Want(t) \in Nat
    BY <1>1, <1>5 DEF Acquire, Want
  <2>2. CASE Reserve(OpOf[t], t, Want(t)) /\ Goto(t, IF pc[t] = "first" THEN "slot" ELSE "decoding")
    <3>1. BudgetTypeOK' /\ \A o \in Ops : Exact(o)'
      BY <1>1, <2>1, <2>2, ReserveKeepsSums
    <3>2. Owners'
      BY <1>1, <2>1, <2>2 DEF Reserve
    <3> QED
      BY <1>1, <2>1, <3>1, <3>2 DEF BudgetInv
  <2>3. CASE Wait(OpOf[t], t, Want(t)) /\ UNCHANGED pc
    <3>1. UNCHANGED <<used, held>> /\ waiting' \in SUBSET Tasks
      BY <1>1, <2>3 DEF Wait, BudgetTypeOK
    <3> QED
      BY <1>1, <2>1, <2>3, <3>1, SumsUnchanged DEF BudgetInv
  <2> QED
    BY <1>5, <2>2, <2>3 DEF Acquire
<1>6. CASE LockSlot(t) \/ Read(t)
  BY <1>1, <1>2, <1>6 DEF LockSlot, Read, budgetVars
<1>7. CASE Reuse(t)
  <2>1. CASE slot[ArchiveOf[t]] = identity[t] /\ Matches(t, slot[ArchiveOf[t]])
    BY <1>2, <1>7, <2>1 DEF Reuse, budgetVars
  <2>2. CASE ~ (slot[ArchiveOf[t]] = identity[t] /\ Matches(t, slot[ArchiveOf[t]]))
    BY <1>1, <1>3, <1>7, <2>2 DEF Reuse, Fail
  <2> QED
    BY <2>1, <2>2
<1>8. CASE Extract(t)
  <2>1. CASE file[ArchiveOf[t]] = identity[t] /\ Matches(t, content[t])
    BY <1>2, <1>8, <2>1 DEF Extract, budgetVars
  <2>2. CASE ~ (file[ArchiveOf[t]] = identity[t] /\ Matches(t, content[t]))
    BY <1>1, <1>3, <1>8, <2>2 DEF Extract, Fail
  <2> QED
    BY <2>1, <2>2
<1>9. CASE ExtractFails(t)
  <2>1. faults' \in 0..MaxFaults
    BY <1>1, <1>9 DEF ExtractFails
  <2>2. Drop(OpOf[t], t, TRUE) /\ pc' = [pc EXCEPT ![t] = "failed"]
    BY <1>9 DEF ExtractFails, Fail
  <2> QED
    BY <1>3, <2>1, <2>2
<1>10. CASE Admitted(t)
  BY <1>1, <1>3, <1>10 DEF Admitted
<1>11. CASE Decoded(t)
  BY <1>1, <1>3, <1>11 DEF Decoded
<1> QED
  BY <1>4, <1>5, <1>6, <1>7, <1>8, <1>9, <1>10, <1>11 DEF TaskStep

LEMMA NextBudgetInv == Types /\ BudgetInv /\ [Next]_vars => BudgetInv'
<1> SUFFICES ASSUME Types, BudgetInv, [Next]_vars PROVE BudgetInv'
  OBVIOUS
<1>1. ASSUME UNCHANGED <<used, held, pc, faults>>, waiting' \in SUBSET Tasks PROVE BudgetInv'
  BY <1>1, SumsUnchanged DEF BudgetInv, Owners
<1>2. waiting \in SUBSET Tasks
  BY DEF BudgetInv, BudgetTypeOK
<1>3. CASE \E o \in Ops : OpenSession(o) \/ CloseSession(o)
  BY <1>1, <1>2, <1>3 DEF OpenSession, CloseSession, budgetVars
<1>4. CASE \E t \in Tasks : TaskStep(t) \/ ExtractFails(t)
  BY <1>4, BudgetSteps
<1>5. CASE \E t \in Tasks : Wake(t)
  BY <1>1, <1>2, <1>5 DEF Wake, SpuriousWake
<1>6. CASE \E a \in Archives : ChangeFile(a)
  BY <1>1, <1>2, <1>6 DEF ChangeFile, budgetVars
<1>7. CASE UNCHANGED vars
  BY <1>1, <1>2, <1>7 DEF vars, budgetVars
<1> QED
  BY <1>3, <1>4, <1>5, <1>6, <1>7 DEF Next

-----------------------------------------------------------------------------
(* The theorems.                                                           *)

\* The inductive invariant holds throughout.
THEOREM InductiveInvariant == Spec => []IInv
<1>1. Init => IInv
  BY InitIInv
<1> QED
  BY <1>1, NextIInv, PTL DEF Spec

\* The budget's part of it holds throughout as well.
THEOREM BudgetInvariant == Spec => []BudgetInv
<1>1. Init => BudgetInv
  BY InitBudgetInv
<1>2. Types /\ BudgetInv /\ [Next]_vars => BudgetInv'
  BY NextBudgetInv
<1>3. IInv => Types
  BY DEF IInv
<1> QED
  BY <1>1, <1>2, <1>3, InductiveInvariant, PTL DEF Spec

\* The counter of every budget is the sum of the reservations its tasks hold,
\* never above the limit, and no error path keeps one (resources.rs,
\* MemoryBudget::reserve and Reservation::drop).
THEOREM BudgetsAreExact == Spec => []BudgetIsExact
  BY BudgetInvariant, BudgetInvIsExact, PTL

\* Every variable keeps its type; in particular no budget's counter underflows
\* (resources.rs, Reservation::drop).
THEOREM TypeCorrect == Spec => []TypeOK
<1>1. IInv /\ BudgetInv => TypeOK
  BY DEF IInv, Types, BudgetInv, TypeOK
<1> QED
  BY <1>1, InductiveInvariant, BudgetInvariant, PTL

\* Operations that overlap work from one version of every archive they share
\* (source.rs, ArchiveSession and admit_archive).
THEOREM SessionsNeverMix == Spec => []SessionsAgree
<1>1. IInv => SessionsAgree
  <2> SUFFICES ASSUME IInv, NEW t \in Tasks, NEW u \in Tasks
               PROVE  /\ pc[t] \in {"admitted", "second", "decoding", "done"} => got[t] # 0
                      /\ /\ {OpOf[t], OpOf[u]} \subseteq Users
                         /\ ArchiveOf[t] = ArchiveOf[u]
                         /\ got[t] # 0 /\ got[u] # 0
                         => got[t] = got[u]
    BY DEF SessionsAgree
  <2> QED
    BY DEF IInv, GotInv, Users
<1> QED
  BY <1>1, InductiveInvariant, PTL

\* Whoever extracted it, the directory a task is given is the file it opened
\* itself and the one its descriptor names (source.rs, admit_archive).
THEOREM AdmissionsAreHonest == Spec => []AdmittedIsTheOpenedFile
<1>1. IInv => AdmittedIsTheOpenedFile
  BY DEF IInv, GotInv, AdmittedIsTheOpenedFile
<1> QED
  BY <1>1, InductiveInvariant, PTL
=============================================================================
