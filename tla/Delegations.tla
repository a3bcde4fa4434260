------------------------------ MODULE Delegations ------------------------------
(***************************************************************************)
(* GovernedSubagentProvider and the two tools that delegate through it:    *)
(* delegate_task, which starts one child and disposes of it, and           *)
(* run_registered_workflow, whose engine starts a child per task.  The     *)
(* provider counts the children of the whole runtime.  A start and a       *)
(* dispose wait for the spawn adapter, other delegations go on meanwhile,  *)
(* and the tool, the engine and the fiber that ends may all dispose of the *)
(* same child.                                                             *)
(***************************************************************************)
EXTENDS Naturals, FiniteSets

CONSTANTS
    Delegates,      \* the delegations that are asked for
    MaxChildren,    \* MAX_ACTIVE_DELEGATIONS (4 in the code)
    MaxDisposals    \* bound on the disposals of one child

ASSUME DelegationAssumption == MaxChildren \in Nat \ {0} /\ MaxDisposals \in Nat \ {0}

VARIABLES
    child,          \* "none", "starting", "working", "settled" or "failed"
    disposals,      \* the disposals of a child that are under way
    asked,          \* how many were begun
    slotFree,       \* released: the run gave its place back
    activeChildren  \* active

delegationVars == <<child, disposals, asked, slotFree, activeChildren>>

DelegationInit ==
    /\ child = [d \in Delegates |-> "none"]
    /\ disposals = [d \in Delegates |-> 0]
    /\ asked = [d \in Delegates |-> 0]
    /\ slotFree = [d \in Delegates |-> FALSE]
    /\ activeChildren = 0

(* start: the place is taken before the adapter is waited for; without an  *)
(* adapter that honours the contract, or a place, there is no child.       *)
StartChild(d) ==
    /\ child[d] = "none"
    /\ \/ /\ activeChildren < MaxChildren
          /\ activeChildren' = activeChildren + 1
          /\ child' = [child EXCEPT ![d] = "starting"]
       \/ /\ child' = [child EXCEPT ![d] = "failed"]
          /\ UNCHANGED activeChildren
    /\ UNCHANGED <<disposals, asked, slotFree>>

(* The adapter answers, or fails: the catch gives the place back. *)
ChildStarted(d) ==
    /\ child[d] = "starting"
    /\ \/ child' = [child EXCEPT ![d] = "working"] /\ UNCHANGED activeChildren
       \/ /\ child' = [child EXCEPT ![d] = "failed"]
          /\ activeChildren' = activeChildren - 1
    /\ UNCHANGED <<disposals, asked, slotFree>>

(* The result settles: completed, cancelled with the step, or an error. *)
ChildSettles(d) ==
    /\ child[d] = "working" /\ child' = [child EXCEPT ![d] = "settled"]
    /\ UNCHANGED <<disposals, asked, slotFree, activeChildren>>

(* The finally of the tool once the result settled; the engine of a        *)
(* workflow and the fiber that ends do not wait for it.                    *)
DisposeChild(d) ==
    /\ child[d] \in {"working", "settled"} /\ asked[d] < MaxDisposals
    /\ asked' = [asked EXCEPT ![d] = @ + 1]
    /\ disposals' = [disposals EXCEPT ![d] = @ + 1]
    /\ UNCHANGED <<child, slotFree, activeChildren>>

(* Fault: every disposal gives a place back. *)
GiveBackTwice(d) ==
    /\ activeChildren' = IF activeChildren > 0 THEN activeChildren - 1 ELSE 0
    /\ slotFree' = [slotFree EXCEPT ![d] = TRUE]

GiveBack(d) ==
    /\ activeChildren' = IF slotFree[d] THEN activeChildren ELSE activeChildren - 1
    /\ slotFree' = [slotFree EXCEPT ![d] = TRUE]

(* The adapter's dispose ended, or threw: the finally runs in both cases. *)
ChildDisposed(d) ==
    /\ disposals[d] > 0
    /\ disposals' = [disposals EXCEPT ![d] = @ - 1]
    /\ child' = [child EXCEPT ![d] = "settled"]
    /\ GiveBack(d)
    /\ UNCHANGED asked

DelegationNext ==
    \E d \in Delegates :
        \/ StartChild(d) \/ ChildStarted(d) \/ ChildSettles(d)
        \/ DisposeChild(d) \/ ChildDisposed(d)

DelegationSpec == DelegationInit /\ [][DelegationNext]_delegationVars
-----------------------------------------------------------------------------
(* The children that hold a place. *)
Placed == {d \in Delegates : child[d] \in {"starting", "working", "settled"} /\ ~slotFree[d]}

(* The count is the number of children that were started and not disposed *)
(* of, and never above the limit, whatever starts fail and disposals       *)
(* overlap: no place is lost and none is given back twice.                 *)
PlacesCounted ==
    /\ activeChildren = Cardinality(Placed)
    /\ activeChildren <= MaxChildren
=============================================================================
