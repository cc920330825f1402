---------------------------- MODULE MemoryBudget ----------------------------
(***************************************************************************)
(* The allocation admission of the publisher                               *)
(* (conformance/publisher/src/resources.rs, MemoryBudget and Reservation): *)
(* a counter under a mutex and a condition variable that a dropped         *)
(* reservation signals.  The actions change the variables of this module;  *)
(* a module that extends it says when a task takes them.                   *)
(***************************************************************************)
EXTENDS Naturals, FiniteSets

CONSTANTS
    Ops,    \* publisher operations; each has a budget of its own
    Tasks,  \* the independent jobs of their worker pools
    Limit   \* bytes a budget admits

\* The jobs of an operation come from a list.
ASSUME BudgetConstants == Limit \in Nat /\ IsFiniteSet(Tasks)

VARIABLES
    used,     \* used[o]: bytes admitted by the budget of o
    held,     \* held[t]: bytes of the reservation t owns, 0 if it owns none
    waiting   \* tasks blocked on the condition variable `released`

budgetVars == <<used, held, waiting>>

BudgetTypeOK ==
    /\ used \in [Ops -> Nat]
    /\ held \in [Tasks -> Nat]
    /\ waiting \in SUBSET Tasks

BudgetInit ==
    /\ used = [o \in Ops |-> 0]
    /\ held = [t \in Tasks |-> 0]
    /\ waiting = {}

\* The mutex is held from the test to the update, so each is one action.
Fits(o, n) == n <= Limit - used[o]

Reserve(o, t, n) ==
    /\ n <= Limit
    /\ t \notin waiting
    /\ Fits(o, n)
    /\ used' = [used EXCEPT ![o] = @ + n]
    /\ held' = [held EXCEPT ![t] = n]
    /\ UNCHANGED waiting

\* Condvar::wait: unlocks and sleeps until a release.
Wait(o, t, n) ==
    /\ n <= Limit
    /\ t \notin waiting
    /\ ~ Fits(o, n)
    /\ waiting' = waiting \union {t}
    /\ UNCHANGED <<used, held>>

\* A condition variable may wake a waiter for no reason.
SpuriousWake(t) ==
    /\ t \in waiting
    /\ waiting' = waiting \ {t}
    /\ UNCHANGED <<used, held>>

\* Mutant: the reservation of a failed job is not returned.
Drop_Leaks(o, t, failed) ==
    /\ used' = IF failed THEN used ELSE [used EXCEPT ![o] = @ - held[t]]
    /\ held' = [held EXCEPT ![t] = 0]
    /\ waiting' = {}

\* Reservation::drop, "even when a parse/validation/write fails".
Drop(o, t, failed) ==
    /\ used' = [used EXCEPT ![o] = @ - held[t]]
    /\ held' = [held EXCEPT ![t] = 0]
    /\ waiting' = {}
=============================================================================
