----------------------------- MODULE ApprovalBroker -----------------------------
(***************************************************************************)
(* DshApprovalBroker: the bridge between the approval requests of the DSH  *)
(* tool runtime and the human.  Each request waits for a promise that is   *)
(* settled by a decision, by the abort of the tool call or by disposal;    *)
(* the records are kept, oldest first, up to a limit of history.  Requests *)
(* are numbered in the order in which their handlers run.                  *)
(***************************************************************************)
EXTENDS Naturals, FiniteSets

CONSTANTS
    MaxRequests,    \* bound on the requests of a run
    HistoryLimit    \* records kept before decided ones are dropped

ASSUME BrokerAssumption == MaxRequests \in Nat /\ HistoryLimit \in Nat

Requests == 1 .. MaxRequests

VARIABLES
    record,      \* status of each record, "none" before it and "dropped" after it
    promise,     \* what the handler of each request got: "none", "waiting" or an outcome
    disposed     \* the plugin was unloaded

brokerVars == <<record, promise, disposed>>

Outcomes == {"allowed-once", "rejected", "cancelled", "unavailable"}

BrokerInit ==
    /\ record = [r \in Requests |-> "none"]
    /\ promise = [r \in Requests |-> "none"]
    /\ disposed = FALSE

(* Fault: a record is dropped although its request still waits. *)
DroppableAny(rec) == {r \in Requests : rec[r] \in Outcomes \cup {"pending"}}

Droppable(rec) == {r \in Requests : rec[r] \in Outcomes}

Kept(rec) == {r \in Requests : rec[r] \notin {"none", "dropped"}}

(* prune: the oldest decided records go, until the limit is met or only     *)
(* pending ones are left.                                                   *)
Surplus(rec) ==
    {r \in Droppable(rec) :
        Cardinality({q \in Droppable(rec) : q <= r}) + HistoryLimit <= Cardinality(Kept(rec))}

Prune(rec) == [r \in Requests |-> IF r \in Surplus(rec) THEN "dropped" ELSE rec[r]]

(* open: the history is pruned before a request that is already aborted is  *)
(* settled.                                                                 *)
OpenRequest(r, aborted) ==
    LET opened == Prune([record EXCEPT ![r] = "pending"]) IN
    /\ ~disposed
    /\ promise[r] = "none" /\ \A q \in Requests : q < r => promise[q] # "none"
    /\ IF aborted
       THEN record' = [opened EXCEPT ![r] = "cancelled"] /\ promise' = [promise EXCEPT ![r] = "cancelled"]
       ELSE record' = opened /\ promise' = [promise EXCEPT ![r] = "waiting"]
    /\ UNCHANGED disposed

(* Fault: a decided record is decided again. *)
AnswerableAgain(r) == record[r] \in Outcomes \cup {"pending"}

Answerable(r) == record[r] = "pending"

Resolve(r, outcome) ==
    /\ Answerable(r)
    /\ record' = [record EXCEPT ![r] = outcome]
    /\ promise' = [promise EXCEPT ![r] = outcome]
    /\ UNCHANGED disposed

(* The tool call is aborted: the listener holds the record itself. *)
AbortRequest(r) ==
    /\ promise[r] = "waiting"
    /\ record' = [record EXCEPT ![r] = IF @ = "pending" THEN "cancelled" ELSE @]
    /\ promise' = [promise EXCEPT ![r] = "cancelled"]
    /\ UNCHANGED disposed

Dispose ==
    /\ ~disposed /\ disposed' = TRUE
    /\ record' = [r \in Requests |-> IF record[r] = "pending" THEN "unavailable" ELSE record[r]]
    /\ promise' = [r \in Requests |-> IF record[r] = "pending" THEN "unavailable" ELSE promise[r]]

BrokerNext ==
    \/ \E r \in Requests : \/ \E aborted \in BOOLEAN : OpenRequest(r, aborted)
                           \/ \E outcome \in Outcomes \ {"unavailable"} : Resolve(r, outcome)
                           \/ AbortRequest(r)
    \/ Dispose

BrokerSpec == BrokerInit /\ [][BrokerNext]_brokerVars
-----------------------------------------------------------------------------
(* The types of the variables. *)
BrokerTypeOK ==
    /\ record \in [Requests -> {"none", "pending", "dropped"} \cup Outcomes]
    /\ promise \in [Requests -> {"none", "waiting"} \cup Outcomes]
    /\ disposed \in BOOLEAN

(* A tool call that waits can always still be answered: its record is in   *)
(* the list a human sees, whatever the history limit dropped, and nothing  *)
(* waits once the bridge is gone.                                          *)
NoOrphan == \A r \in Requests : promise[r] = "waiting" <=> record[r] = "pending" /\ ~disposed

-----------------------------------------------------------------------------
(* A request is a one-shot confirmation.                                   *)

Requested == INSTANCE OneShot
    WITH Asks <- Requests,
         phase <- [r \in Requests |-> CASE promise[r] = "none" -> "none"
                                        [] promise[r] = "waiting" -> "open"
                                        [] OTHER -> "closed"],
         effects <- [r \in Requests |-> IF promise[r] = "allowed-once" THEN 1 ELSE 0]

(* The approval bridge implements the one-shot confirmation. *)
BrokerOneShot == Requested!Spec
=============================================================================
