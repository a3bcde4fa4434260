----------------------------- MODULE PolicyTickets -----------------------------
(***************************************************************************)
(* PolicyService: the confirmation tickets that stand between a model's    *)
(* tool call and a side effect.  A tool call is decided twice, by the      *)
(* pre-execute hook and again by the tool itself; a human, or the model    *)
(* through confirm_action, resolves a ticket; an approved ticket runs its  *)
(* executor, whose promise settles later.                                  *)
(***************************************************************************)
EXTENDS Naturals, Sequences

CONSTANTS
    Actions,      \* fingerprints: capability, operation and exact payload
    SelfExecuting, \* actions at L3 whose capability may execute by itself
    Unbound,      \* actions no executor is registered for
    Calls,        \* tool calls that may be under way together
    MaxTickets    \* bound on the tickets of a run

ASSUME TicketsAssumption ==
    /\ Actions # {} /\ SelfExecuting \subseteq Actions /\ Unbound \subseteq Actions
    /\ MaxTickets \in Nat

Ids == 1 .. MaxTickets

NoId == 0    \* the call names no confirmation

VARIABLES
    nextId,     \* the id of the next ticket
    action,     \* what each ticket is bound to
    status,     \* "none" until the ticket is created
    running,    \* executor promises of the ticket that have not settled
    started,    \* history: how often the ticket's executor was called
    audit,      \* the verdicts recorded as each ticket changes its status
    calls       \* the tool calls

ticketVars == <<nextId, action, status, running, started, audit, calls>>

(* "approved" is declared in the source and never assigned. *)
TicketStatuses == {"none", "pending", "executing", "denied", "cancelled", "consumed", "failed"}

Rest == [pc |-> "idle", action |-> CHOOSE a \in Actions : TRUE, conf |-> NoId]

TicketsInit ==
    /\ nextId = 1
    /\ action = [t \in Ids |-> CHOOSE a \in Actions : TRUE]
    /\ status = [t \in Ids |-> "none"]
    /\ running = [t \in Ids |-> 0]
    /\ started = [t \in Ids |-> 0]
    /\ audit = [t \in Ids |-> <<>>]
    /\ calls = [c \in Calls |-> Rest]

-----------------------------------------------------------------------------
(* decide                                                                  *)

PendingFor(a) == {t \in Ids : status[t] = "pending" /\ action[t] = a}

(* Fault: a ticket is decided again when its executor has failed. *)
OpenAfterFailure(t) == status[t] \in {"pending", "failed"}

(* The status checks of resolve and of tryClaim and tryClose. *)
Open(t) == status[t] = "pending"

(* decideExisting: a ticket of another action, or a decided one, denies.    *)
Refused(a, conf) == conf # NoId /\ ~(conf < nextId /\ action[conf] = a /\ Open(conf))

(* The effect of a decision that is not refused: a ticket is created unless *)
(* the call names one, the action runs by itself, or one is pending.        *)
Ticketed(a, conf) ==
    IF a \in SelfExecuting \/ conf # NoId \/ PendingFor(a) # {}
    THEN UNCHANGED <<nextId, action, status>>
    ELSE /\ nextId \in Ids
         /\ nextId' = nextId + 1
         /\ action' = [action EXCEPT ![nextId] = a]
         /\ status' = [status EXCEPT ![nextId] = "pending"]

Denied(a, conf) == a \notin SelfExecuting /\ Refused(a, conf)

(* The pre-execute hook: a refused or aborted call never reaches the tool. *)
PreExecute(c, a, conf) ==
    /\ calls[c].pc = "idle"
    /\ ~Denied(a, conf)
    /\ Ticketed(a, conf)
    /\ calls' = [calls EXCEPT ![c] = [pc |-> "hooked", action |-> a, conf |-> conf]]
    /\ UNCHANGED <<running, started, audit>>

(* apply: the tool decides again, after whatever ran in between.  Only an   *)
(* action that runs by itself goes on to its executor.                      *)
Apply(c, aborted) ==
    LET a == calls[c].action  conf == calls[c].conf IN
    /\ calls[c].pc = "hooked"
    /\ IF aborted \/ Denied(a, conf) THEN UNCHANGED <<nextId, action, status>> ELSE Ticketed(a, conf)
    /\ calls' = [calls EXCEPT ![c] = IF ~aborted /\ a \in SelfExecuting \ Unbound
                                     THEN [@ EXCEPT !.pc = "running"] ELSE Rest]
    /\ UNCHANGED <<running, started, audit>>

AutoSettles(c) ==
    /\ calls[c].pc = "running"
    /\ calls' = [calls EXCEPT ![c] = Rest]
    /\ UNCHANGED <<nextId, action, status, running, started, audit>>

-----------------------------------------------------------------------------
(* resolve.  A decision on a ticket that is not open changes nothing and   *)
(* adds a refusal to the audit, which is left out of the model.            *)

Recorded(t, entry) == audit' = [audit EXCEPT ![t] = Append(@, entry)]

(* deny, cancel, and a cancel because the caller's signal was aborted. *)
Turned(t, to, entry) ==
    /\ Open(t)
    /\ status' = [status EXCEPT ![t] = to]
    /\ Recorded(t, entry)
    /\ UNCHANGED <<nextId, action, running, started, calls>>

Deny(t) == Turned(t, "denied", "deny")

Cancel(t) == Turned(t, "cancelled", "cancelled")

Abort(t) == Turned(t, "cancelled", "deny")

(* tryClaim and runClaimed up to the executor's promise: the ticket is      *)
(* claimed before any wait.                                                 *)
Approve(t) ==
    /\ Open(t)
    /\ IF action[t] \in Unbound
       THEN /\ status' = [status EXCEPT ![t] = "failed"]
            /\ audit' = [audit EXCEPT ![t] = @ \o <<"approved", "deny">>]
            /\ UNCHANGED <<running, started>>
       ELSE /\ status' = [status EXCEPT ![t] = "executing"]
            /\ Recorded(t, "approved")
            /\ running' = [running EXCEPT ![t] = @ + 1]
            /\ started' = [started EXCEPT ![t] = @ + 1]
    /\ UNCHANGED <<nextId, action, calls>>

Outcome(ok) == IF ok THEN [status |-> "consumed", entry |-> "consumed"]
                     ELSE [status |-> "failed", entry |-> "deny"]

(* The executor's promise settles. *)
Settles(t, ok) ==
    /\ running[t] > 0
    /\ running' = [running EXCEPT ![t] = @ - 1]
    /\ status' = [status EXCEPT ![t] = Outcome(ok).status]
    /\ Recorded(t, Outcome(ok).entry)
    /\ UNCHANGED <<nextId, action, started, calls>>

TicketsNext ==
    \/ \E c \in Calls : \/ \E a \in Actions, conf \in Ids \cup {NoId} : PreExecute(c, a, conf)
                        \/ \E aborted \in BOOLEAN : Apply(c, aborted)
                        \/ AutoSettles(c)
    \/ \E t \in Ids : \/ Deny(t) \/ Cancel(t) \/ Abort(t) \/ Approve(t)
                      \/ \E ok \in BOOLEAN : Settles(t, ok)

TicketsSpec == TicketsInit /\ [][TicketsNext]_ticketVars
-----------------------------------------------------------------------------
Verdicts == {"approved", "deny", "cancelled", "consumed"}

(* The types of the variables. *)
TicketsTypeOK ==
    /\ nextId \in 1 .. MaxTickets + 1
    /\ action \in [Ids -> Actions]
    /\ status \in [Ids -> TicketStatuses]
    /\ running \in [Ids -> Nat] /\ started \in [Ids -> Nat]
    /\ audit \in [Ids -> Seq(Verdicts)]
    /\ calls \in [Calls -> [pc : {"idle", "hooked", "running"}, action : Actions, conf : Ids \cup {NoId}]]

(* The executor of a ticket is called at most once, however two approvals  *)
(* race, and never for a ticket that was denied or cancelled: the status   *)
(* is claimed before the executor is awaited.                              *)
ExecutedOnce ==
    \A t \in Ids : /\ started[t] <= 1
                   /\ status[t] \in {"none", "pending", "denied", "cancelled"} => started[t] = 0

(* At most one ticket of an action waits for a human, though every call is *)
(* decided twice and calls for the same action overlap.                    *)
OnePending == \A t, u \in Ids : Open(t) /\ Open(u) /\ action[t] = action[u] => t = u

(* Refusals of stale decisions aside, the audit trail says of every ticket *)
(* what happened to it: an approval before anything ran, and how the       *)
(* execution ended.                                                        *)
AuditTells ==
    \A t \in Ids :
        audit[t] \in CASE status[t] \in {"none", "pending"} -> {<<>>}
                       [] status[t] = "executing" -> {<<"approved">>}
                       [] status[t] = "consumed"  -> {<<"approved", "consumed">>}
                       [] status[t] = "failed"    -> {<<"approved", "deny">>}
                       [] status[t] = "denied"    -> {<<"deny">>}
                       [] status[t] = "cancelled" -> {<<"cancelled">>, <<"deny">>}

-----------------------------------------------------------------------------
(* A ticket is a one-shot confirmation.                                    *)

Phase(s) == CASE s = "none" -> "none"
              [] s = "pending" -> "open"
              [] s = "executing" -> "granted"
              [] OTHER -> "closed"

Tickets == INSTANCE OneShot WITH Asks <- Ids, phase <- [t \in Ids |-> Phase(status[t])], effects <- started

(* The tickets implement the one-shot confirmation. *)
TicketsOneShot == Tickets!Spec
=============================================================================
