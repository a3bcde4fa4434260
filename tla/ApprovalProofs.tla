------------------------------ MODULE ApprovalProofs ------------------------------
(***************************************************************************)
(* Both approval systems implement the one-shot confirmation, for every    *)
(* number of tickets, calls and requests and every history limit; and what *)
(* the workbench brings to an approval is sound, for every number of       *)
(* revisions, specifications, reviews, failed writes and deaths.           *)
(***************************************************************************)
EXTENDS Approvals, Authoring, SequenceTheorems, TLAPS

-----------------------------------------------------------------------------
(* Policy tickets.  The status of a ticket determines the rest: how many   *)
(* promises are open, how often its executor was called, its audit trail.  *)

Ran(t) ==
    /\ running[t] = IF status[t] = "executing" THEN 1 ELSE 0
    /\ status[t] \in {"executing", "consumed"} => started[t] = 1
    /\ status[t] \in {"none", "pending", "denied", "cancelled"} => started[t] = 0
    /\ status[t] = "failed" => started[t] \in {0, 1}

Trail(t) ==
    audit[t] \in CASE status[t] \in {"none", "pending"} -> {<<>>}
                   [] status[t] = "executing" -> {<<"approved">>}
                   [] status[t] = "consumed"  -> {<<"approved", "consumed">>}
                   [] status[t] = "failed"    -> {<<"approved", "deny">>}
                   [] status[t] = "denied"    -> {<<"deny">>}
                   [] status[t] = "cancelled" -> {<<"cancelled">>, <<"deny">>}

TicketsInv ==
    /\ TicketsTypeOK
    /\ \A t \in Ids : t >= nextId <=> status[t] = "none"
    /\ \A t \in Ids : Ran(t)
    /\ \A t \in Ids : Trail(t)
    /\ OnePending

LEMMA TicketsInvInit == TicketsInit => TicketsInv
<1> USE TicketsAssumption
<1> SUFFICES ASSUME TicketsInit PROVE TicketsInv
  OBVIOUS
<1> USE DEF TicketsInit
<1>1. TicketsTypeOK
  <2>1. (CHOOSE a \in Actions : TRUE) \in Actions
    OBVIOUS
  <2>2. action \in [Ids -> Actions]
    BY <2>1
  <2>3. calls \in [Calls -> [pc : {"idle", "hooked", "running"}, action : Actions, conf : Ids \cup {NoId}]]
    BY <2>1 DEF Rest
  <2>4. audit \in [Ids -> Seq(Verdicts)]
    OBVIOUS
  <2>5. nextId \in 1 .. MaxTickets + 1 /\ status \in [Ids -> TicketStatuses]
        /\ running \in [Ids -> Nat] /\ started \in [Ids -> Nat]
    BY DEF TicketStatuses
  <2> QED
    BY <2>2, <2>3, <2>4, <2>5 DEF TicketsTypeOK
<1>2. \A t \in Ids : t >= nextId <=> status[t] = "none"
  BY DEF Ids
<1>3. \A t \in Ids : Ran(t)
  BY DEF Ran
<1>4. \A t \in Ids : Trail(t)
  BY DEF Trail
<1>5. OnePending
  BY DEF OnePending, Open
<1> QED
  BY <1>1, <1>2, <1>3, <1>4, <1>5 DEF TicketsInv

(* Only Ticketed creates a ticket, and only when none of the action waits.  *)
LEMMA TicketedKeeps ==
    ASSUME TicketsInv, NEW a \in Actions, NEW conf \in Ids \cup {NoId}, Ticketed(a, conf),
           UNCHANGED <<running, started, audit>>,
           calls' \in [Calls -> [pc : {"idle", "hooked", "running"}, action : Actions, conf : Ids \cup {NoId}]]
    PROVE  TicketsInv'
<1> USE TicketsAssumption DEF TicketsInv
<1>1. CASE UNCHANGED <<nextId, action, status>>
  <2>1. TicketsTypeOK' /\ (\A t \in Ids : t >= nextId <=> status[t] = "none")' /\ OnePending'
    BY <1>1 DEF TicketsTypeOK, OnePending, Open
  <2>2. (\A t \in Ids : Ran(t))'
    BY <1>1 DEF Ran
  <2>3. (\A t \in Ids : Trail(t))'
    BY <1>1 DEF Trail
  <2> QED
    BY <2>1, <2>2, <2>3
<1>2. CASE ~UNCHANGED <<nextId, action, status>>
  <2>1. /\ PendingFor(a) = {} /\ nextId \in Ids /\ nextId' = nextId + 1
        /\ action' = [action EXCEPT ![nextId] = a]
        /\ status' = [status EXCEPT ![nextId] = "pending"]
        /\ status[nextId] = "none"
    BY <1>2 DEF Ticketed, TicketsTypeOK, Ids
  <2>2. TicketsTypeOK'
    BY <2>1 DEF TicketsTypeOK, Ids, TicketStatuses
  <2>3. (\A t \in Ids : t >= nextId <=> status[t] = "none")'
    BY <2>1 DEF TicketsTypeOK, Ids
  <2>4. (\A t \in Ids : Ran(t))'
    BY <2>1 DEF TicketsTypeOK, Ran
  <2>5. (\A t \in Ids : Trail(t))'
    BY <2>1 DEF TicketsTypeOK, Trail
  <2>6. OnePending'
    BY <2>1 DEF TicketsTypeOK, OnePending, Open, PendingFor
  <2> QED
    BY <2>2, <2>3, <2>4, <2>5, <2>6
<1> QED
  BY <1>1, <1>2

(* A ticket that is resolved, or whose executor settles, keeps its place.   *)
LEMMA ResolvedKeeps ==
    ASSUME TicketsInv, NEW t \in Ids, NEW s \in TicketStatuses \ {"none", "pending"},
           status[t] \in {"pending", "executing"},
           status' = [status EXCEPT ![t] = s], UNCHANGED <<nextId, action, calls>>,
           running' \in [Ids -> Nat], started' \in [Ids -> Nat], audit' \in [Ids -> Seq(Verdicts)],
           \A u \in Ids \ {t} : /\ running'[u] = running[u] /\ started'[u] = started[u]
                                /\ audit'[u] = audit[u],
           Ran(t)', Trail(t)'
    PROVE  TicketsInv'
<1> USE DEF TicketsInv
<1>1. TicketsTypeOK'
  BY DEF TicketsTypeOK
<1>2. (\A u \in Ids : u >= nextId <=> status[u] = "none")'
  BY DEF TicketsTypeOK, TicketStatuses
<1>3. (\A u \in Ids : Ran(u))'
  BY DEF TicketsTypeOK, Ran
<1>4. (\A u \in Ids : Trail(u))'
  BY DEF TicketsTypeOK, Trail
<1>5. OnePending'
  BY DEF TicketsTypeOK, OnePending, Open
<1> QED
  BY <1>1, <1>2, <1>3, <1>4, <1>5

LEMMA ApproveKeeps == ASSUME TicketsInv, NEW t \in Ids, Approve(t) PROVE TicketsInv'
<1> USE DEF TicketsInv
<1>1. status[t] = "pending" /\ audit[t] = <<>> /\ running[t] = 0 /\ started[t] = 0
  BY DEF Approve, Open, Ran, Trail
<1>2. CASE action[t] \in Unbound
  <2>1. /\ status' = [status EXCEPT ![t] = "failed"] /\ UNCHANGED <<running, started, nextId, action, calls>>
        /\ audit' = [audit EXCEPT ![t] = @ \o <<"approved", "deny">>]
    BY <1>2 DEF Approve
  <2>2. <<>> \o <<"approved", "deny">> = <<"approved", "deny">>
    OBVIOUS
  <2>3. audit'[t] = <<"approved", "deny">> /\ audit' \in [Ids -> Seq(Verdicts)]
    BY <1>1, <2>1, <2>2 DEF TicketsTypeOK, Verdicts
  <2>4. Trail(t)'
    BY <2>1, <2>3 DEF Trail, TicketsTypeOK
  <2>5. Ran(t)'
    BY <1>1, <2>1 DEF Ran, TicketsTypeOK
  <2>6. \A u \in Ids \ {t} : running'[u] = running[u] /\ started'[u] = started[u] /\ audit'[u] = audit[u]
    BY <2>1 DEF TicketsTypeOK
  <2>7. running' \in [Ids -> Nat] /\ started' \in [Ids -> Nat]
    BY <2>1 DEF TicketsTypeOK
  <2>8. "failed" \in TicketStatuses \ {"none", "pending"}
    BY DEF TicketStatuses
  <2> QED
    BY <1>1, <2>1, <2>3, <2>4, <2>5, <2>6, <2>7, <2>8, ResolvedKeeps
<1>3. CASE action[t] \notin Unbound
  <2>1. /\ status' = [status EXCEPT ![t] = "executing"] /\ UNCHANGED <<nextId, action, calls>>
        /\ audit' = [audit EXCEPT ![t] = Append(@, "approved")]
        /\ running' = [running EXCEPT ![t] = @ + 1] /\ started' = [started EXCEPT ![t] = @ + 1]
    BY <1>3 DEF Approve, Recorded
  <2>2. audit'[t] = <<"approved">> /\ audit' \in [Ids -> Seq(Verdicts)]
    BY <1>1, <2>1 DEF TicketsTypeOK, Verdicts
  <2>3. Trail(t)'
    BY <2>1, <2>2 DEF Trail, TicketsTypeOK
  <2>4. Ran(t)'
    BY <1>1, <2>1 DEF Ran, TicketsTypeOK
  <2>5. \A u \in Ids \ {t} : running'[u] = running[u] /\ started'[u] = started[u] /\ audit'[u] = audit[u]
    BY <2>1 DEF TicketsTypeOK
  <2>6. running' \in [Ids -> Nat] /\ started' \in [Ids -> Nat]
    BY <2>1 DEF TicketsTypeOK
  <2>7. "executing" \in TicketStatuses \ {"none", "pending"}
    BY DEF TicketStatuses
  <2> QED
    BY <1>1, <2>1, <2>2, <2>3, <2>4, <2>5, <2>6, <2>7, ResolvedKeeps
<1> QED
  BY <1>2, <1>3

LEMMA TurnedKeeps ==
    ASSUME TicketsInv, NEW t \in Ids, Deny(t) \/ Cancel(t) \/ Abort(t)
    PROVE  TicketsInv'
<1> USE DEF TicketsInv
<1>1. PICK to \in {"denied", "cancelled"}, entry \in {"deny", "cancelled"} :
        Turned(t, to, entry) /\ (to = "denied" => entry = "deny")
  BY DEF Deny, Cancel, Abort
<1>2. status[t] = "pending" /\ audit[t] = <<>> /\ running[t] = 0 /\ started[t] = 0
  BY <1>1 DEF Turned, Open, Ran, Trail
<1>3. /\ status' = [status EXCEPT ![t] = to] /\ UNCHANGED <<nextId, action, running, started, calls>>
      /\ audit' = [audit EXCEPT ![t] = Append(@, entry)]
  BY <1>1 DEF Turned, Recorded
<1>4. audit'[t] = <<entry>> /\ audit' \in [Ids -> Seq(Verdicts)]
  BY <1>2, <1>3 DEF TicketsTypeOK, Verdicts
<1>5. Trail(t)'
  BY <1>1, <1>3, <1>4 DEF Trail, TicketsTypeOK
<1>6. Ran(t)'
  BY <1>2, <1>3 DEF Ran, TicketsTypeOK
<1> QED
  BY <1>2, <1>3, <1>4, <1>5, <1>6, ResolvedKeeps DEF TicketsTypeOK, TicketStatuses

LEMMA Pair ==
    ASSUME NEW S, NEW x \in S, NEW y \in S
    PROVE  Append(<<x>>, y) = <<x, y>> /\ <<x, y>> \in Seq(S)
<1>1. <<x>> \in Seq(S) /\ <<x, y>> \in Seq(S) /\ Len(<<x>>) = 1 /\ Len(<<x, y>>) = 2
  OBVIOUS
<1>2. /\ Append(<<x>>, y) \in Seq(S) /\ Len(Append(<<x>>, y)) = 2
      /\ \A i \in 1 .. 1 : Append(<<x>>, y)[i] = <<x>>[i]
      /\ Append(<<x>>, y)[2] = y
  BY <1>1, AppendProperties
<1>3. \A i \in 1 .. 2 : Append(<<x>>, y)[i] = <<x, y>>[i]
  BY <1>2
<1> QED
  BY <1>1, <1>2, <1>3, SeqEqual

LEMMA SettlesKeeps ==
    ASSUME TicketsInv, NEW t \in Ids, NEW ok \in BOOLEAN, Settles(t, ok)
    PROVE  TicketsInv'
<1> USE DEF TicketsInv
<1>1. status[t] = "executing" /\ audit[t] = <<"approved">> /\ running[t] = 1 /\ started[t] = 1
  <2>1. status[t] = "executing"
    BY DEF Settles, Ran, TicketsTypeOK
  <2> QED
    BY <2>1 DEF Ran, Trail
<1>2. PICK to \in {"consumed", "failed"}, entry \in {"consumed", "deny"} :
        Outcome(ok) = [status |-> to, entry |-> entry] /\ (to = "consumed" <=> entry = "consumed")
  BY DEF Outcome
<1>3. /\ status' = [status EXCEPT ![t] = to] /\ UNCHANGED <<nextId, action, started, calls>>
      /\ running' = [running EXCEPT ![t] = @ - 1]
      /\ audit' = [audit EXCEPT ![t] = Append(@, entry)]
  BY <1>2 DEF Settles, Recorded
<1>4. audit'[t] = <<"approved", entry>> /\ audit' \in [Ids -> Seq(Verdicts)]
  <2>1. "approved" \in Verdicts /\ entry \in Verdicts
    BY DEF Verdicts
  <2>2. Append(<<"approved">>, entry) = <<"approved", entry>> /\ <<"approved", entry>> \in Seq(Verdicts)
    BY <2>1, Pair
  <2> QED
    BY <1>1, <1>3, <2>2 DEF TicketsTypeOK
<1>5. Trail(t)'
  BY <1>2, <1>3, <1>4 DEF Trail, TicketsTypeOK
<1>6. Ran(t)'
  BY <1>1, <1>3 DEF Ran, TicketsTypeOK
<1>7. running' \in [Ids -> Nat]
  BY <1>1, <1>3 DEF TicketsTypeOK
<1> QED
  BY <1>1, <1>3, <1>4, <1>5, <1>6, <1>7, ResolvedKeeps DEF TicketsTypeOK, TicketStatuses

LEMMA TicketsInvNext == TicketsInv /\ [TicketsNext]_ticketVars => TicketsInv'
<1> USE TicketsAssumption
<1> SUFFICES ASSUME TicketsInv, [TicketsNext]_ticketVars PROVE TicketsInv'
  OBVIOUS
<1>1. ASSUME NEW c \in Calls, NEW a \in Actions, NEW conf \in Ids \cup {NoId}, PreExecute(c, a, conf)
      PROVE  TicketsInv'
  BY <1>1, TicketedKeeps DEF PreExecute, TicketsInv, TicketsTypeOK
<1>2. ASSUME NEW c \in Calls, NEW aborted \in BOOLEAN, Apply(c, aborted) PROVE TicketsInv'
  <2> DEFINE a == calls[c].action  conf == calls[c].conf
  <2>1. a \in Actions /\ conf \in Ids \cup {NoId}
    BY DEF TicketsInv, TicketsTypeOK
  <2>2. calls' \in [Calls -> [pc : {"idle", "hooked", "running"}, action : Actions, conf : Ids \cup {NoId}]]
    BY <1>2 DEF Apply, TicketsInv, TicketsTypeOK, Rest
  <2>3. UNCHANGED <<running, started, audit>>
    BY <1>2 DEF Apply
  <2>4. Ticketed(a, conf) \/ UNCHANGED <<nextId, action, status>>
    BY <1>2 DEF Apply
  <2>5. CASE UNCHANGED <<nextId, action, status>>
    BY <2>2, <2>3, <2>5 DEF TicketsInv, TicketsTypeOK, OnePending, Open, Ran, Trail
  <2> QED
    BY <2>1, <2>2, <2>3, <2>4, <2>5, TicketedKeeps
<1>3. ASSUME NEW c \in Calls, AutoSettles(c) PROVE TicketsInv'
  BY <1>3 DEF AutoSettles, TicketsInv, TicketsTypeOK, OnePending, Open, Ran, Trail, Rest
<1>4. CASE UNCHANGED ticketVars
  BY <1>4 DEF ticketVars, TicketsInv, TicketsTypeOK, OnePending, Open, Ran, Trail
<1> QED
  BY <1>1, <1>2, <1>3, <1>4, ApproveKeeps, TurnedKeeps, SettlesKeeps DEF TicketsNext

(* What TicketsInv says of the statuses and trails is what the runs check.  *)
LEMMA TicketsInvUse == TicketsInv => ExecutedOnce /\ OnePending /\ AuditTells
<1> SUFFICES ASSUME TicketsInv PROVE ExecutedOnce /\ OnePending /\ AuditTells
  OBVIOUS
<1>1. ASSUME NEW t \in Ids
      PROVE  started[t] <= 1 /\ (status[t] \in {"none", "pending", "denied", "cancelled"} => started[t] = 0)
  <2>1. status[t] \in TicketStatuses /\ Ran(t)
    BY DEF TicketsInv, TicketsTypeOK
  <2>2. started[t] \in {0, 1}
    BY <2>1 DEF Ran, TicketStatuses
  <2> QED
    BY <2>1, <2>2 DEF Ran
<1>2. AuditTells
  BY DEF TicketsInv, AuditTells, Trail
<1> QED
  BY <1>1, <1>2 DEF TicketsInv, ExecutedOnce

THEOREM TicketsInvariance == TicketsSpec => []TicketsInv
  BY TicketsInvInit, TicketsInvNext, PTL DEF TicketsSpec

(* The variables of the policy service keep their types.                    *)
THEOREM TicketsTyped == TicketsSpec => []TicketsTypeOK
<1>1. TicketsInv => TicketsTypeOK
  BY DEF TicketsInv
<1> QED
  BY <1>1, TicketsInvariance, PTL

(* However many calls overlap and however approvals race, an executor is    *)
(* called at most once for a ticket, never for a denied or cancelled one.   *)
THEOREM OnlyOnce == TicketsSpec => []ExecutedOnce
  BY TicketsInvUse, TicketsInvariance, PTL

(* A human is never asked about one action by two open tickets.             *)
THEOREM OneWaits == TicketsSpec => []OnePending
  BY TicketsInvUse, TicketsInvariance, PTL

(* The audit trail of a ticket is determined by what happened to it.        *)
THEOREM AuditTruth == TicketsSpec => []AuditTells
  BY TicketsInvUse, TicketsInvariance, PTL

-----------------------------------------------------------------------------
(* Policy tickets implement the one-shot confirmation.                      *)

LEMMA TicketsStartOneShot == TicketsInit => Tickets!Init
  BY DEF TicketsInit, Tickets!Init, Phase

(* A ticket that takes a step of its own takes a step of a confirmation.    *)
LEMMA TicketSteps ==
    ASSUME TicketsInv, NEW t \in Ids, NEW s \in TicketStatuses \ {"none", "pending"},
           status' = [status EXCEPT ![t] = s],
           \/ status[t] \in {"pending", "executing"} /\ s # "executing" /\ started' = started
           \/ status[t] = "pending" /\ s = "executing" /\ started' = [started EXCEPT ![t] = 1]
    PROVE  Tickets!Next
<1> DEFINE ph == [u \in Ids |-> Phase(status[u])]
<1>1. ph' = [ph EXCEPT ![t] = Phase(s)]
  BY DEF TicketsInv, TicketsTypeOK, Phase
<1>2. CASE status[t] \in {"pending", "executing"} /\ s # "executing" /\ started' = started
  <2>1. ph[t] \in {"open", "granted"} /\ Phase(s) = "closed"
    BY <1>2 DEF Phase, TicketStatuses
  <2>2. Tickets!Close(t)
    BY <1>1, <1>2, <2>1 DEF Tickets!Close
  <2> QED
    BY <2>2 DEF Tickets!Next
<1>3. CASE status[t] = "pending" /\ s = "executing" /\ started' = [started EXCEPT ![t] = 1]
  <2>1. ph[t] = "open" /\ Phase(s) = "granted"
    BY <1>3 DEF Phase
  <2>2. Tickets!Grant(t)
    BY <1>1, <1>3, <2>1 DEF Tickets!Grant
  <2> QED
    BY <2>2 DEF Tickets!Next
<1> QED
  BY <1>2, <1>3

LEMMA TicketedSteps ==
    ASSUME TicketsInv, NEW a \in Actions, NEW conf \in Ids \cup {NoId},
           Ticketed(a, conf), UNCHANGED started
    PROVE  [Tickets!Next]_(Tickets!vars)
<1>1. CASE UNCHANGED <<nextId, action, status>>
  BY <1>1 DEF Tickets!vars, Phase
<1>2. CASE ~UNCHANGED <<nextId, action, status>>
  <2> DEFINE ph == [u \in Ids |-> Phase(status[u])]
  <2>1. nextId \in Ids /\ status' = [status EXCEPT ![nextId] = "pending"] /\ status[nextId] = "none"
    BY <1>2 DEF Ticketed, TicketsInv, TicketsTypeOK, Ids
  <2>2. ph[nextId] = "none" /\ ph' = [ph EXCEPT ![nextId] = "open"]
    BY <2>1 DEF TicketsInv, TicketsTypeOK, Phase
  <2>3. Tickets!Ask(nextId)
    BY <2>1, <2>2 DEF Tickets!Ask
  <2> QED
    BY <2>1, <2>3 DEF Tickets!Next
<1> QED
  BY <1>1, <1>2

LEMMA TicketsStep == TicketsInv /\ [TicketsNext]_ticketVars => [Tickets!Next]_(Tickets!vars)
<1> USE TicketsAssumption
<1> SUFFICES ASSUME TicketsInv, [TicketsNext]_ticketVars PROVE [Tickets!Next]_(Tickets!vars)
  OBVIOUS
<1> "denied" \in TicketStatuses /\ "cancelled" \in TicketStatuses
      /\ "failed" \in TicketStatuses /\ "consumed" \in TicketStatuses /\ "executing" \in TicketStatuses
  BY DEF TicketStatuses
<1>1. CASE UNCHANGED <<status, started>>
  BY <1>1 DEF Tickets!vars, Phase
<1>2. ASSUME NEW c \in Calls, NEW a \in Actions, NEW conf \in Ids \cup {NoId}, PreExecute(c, a, conf)
      PROVE  [Tickets!Next]_(Tickets!vars)
  BY <1>2, TicketedSteps DEF PreExecute
<1>3. ASSUME NEW c \in Calls, NEW aborted \in BOOLEAN, Apply(c, aborted)
      PROVE  [Tickets!Next]_(Tickets!vars)
  <2> DEFINE a == calls[c].action  conf == calls[c].conf
  <2>1. a \in Actions /\ conf \in Ids \cup {NoId}
    BY DEF TicketsInv, TicketsTypeOK
  <2>2. UNCHANGED started /\ (Ticketed(a, conf) \/ UNCHANGED status)
    BY <1>3 DEF Apply
  <2> QED
    BY <1>1, <2>1, <2>2, TicketedSteps
<1>4. ASSUME NEW c \in Calls, AutoSettles(c) PROVE [Tickets!Next]_(Tickets!vars)
  BY <1>1, <1>4 DEF AutoSettles
<1>5. ASSUME NEW t \in Ids, Deny(t) \/ Cancel(t) \/ Abort(t) PROVE Tickets!Next
  <2>1. PICK to \in {"denied", "cancelled"} :
          status[t] = "pending" /\ status' = [status EXCEPT ![t] = to] /\ started' = started
    BY <1>5 DEF Deny, Cancel, Abort, Turned, Open
  <2> QED
    BY <2>1, TicketSteps
<1>6. ASSUME NEW t \in Ids, Approve(t) PROVE Tickets!Next
  <2>1. status[t] = "pending" /\ started[t] = 0
    BY <1>6 DEF Approve, Open, TicketsInv, Ran
  <2>2. CASE action[t] \in Unbound
    <3>1. status' = [status EXCEPT ![t] = "failed"] /\ started' = started
      BY <1>6, <2>2 DEF Approve
    <3> QED
      BY <2>1, <3>1, TicketSteps
  <2>3. CASE action[t] \notin Unbound
    <3>1. status' = [status EXCEPT ![t] = "executing"] /\ started' = [started EXCEPT ![t] = 1]
      BY <1>6, <2>1, <2>3 DEF Approve
    <3> QED
      BY <2>1, <3>1, TicketSteps
  <2> QED
    BY <2>2, <2>3
<1>7. ASSUME NEW t \in Ids, NEW ok \in BOOLEAN, Settles(t, ok) PROVE Tickets!Next
  <2>1. status[t] = "executing"
    BY <1>7 DEF Settles, TicketsInv, Ran, TicketsTypeOK
  <2>2. PICK to \in {"consumed", "failed"} : status' = [status EXCEPT ![t] = to] /\ started' = started
    BY <1>7 DEF Settles, Outcome
  <2> QED
    BY <2>1, <2>2, TicketSteps
<1>8. CASE UNCHANGED ticketVars
  BY <1>1, <1>8 DEF ticketVars
<1> QED
  BY <1>2, <1>3, <1>4, <1>5, <1>6, <1>7, <1>8 DEF TicketsNext

(* Every behaviour of the policy service is one of independent one-shot     *)
(* confirmations: asked once, decided once, executed at most once and only  *)
(* when granted.                                                            *)
THEOREM TicketsRefine == TicketsSpec => TicketsOneShot
<1>1. TicketsSpec => Tickets!Init /\ [][Tickets!Next]_(Tickets!vars)
  BY TicketsStartOneShot, TicketsStep, TicketsInvariance, PTL DEF TicketsSpec
<1> QED
  BY <1>1 DEF TicketsOneShot, Tickets!Spec

-----------------------------------------------------------------------------
(* The DSH approval bridge.  Nothing is pending once it is disposed.        *)

BrokerInv == BrokerTypeOK /\ NoOrphan /\ (disposed => \A r \in Requests : record[r] # "pending")

LEMMA BrokerInvInit == BrokerInit => BrokerInv
  BY BrokerAssumption DEF BrokerInit, BrokerInv, BrokerTypeOK, NoOrphan, Outcomes

(* Pruning drops decided records only.                                      *)
LEMMA PruneKeepsPending ==
    ASSUME NEW kept \in [Requests -> {"none", "pending", "dropped"} \cup Outcomes]
    PROVE  /\ Prune(kept) \in [Requests -> {"none", "pending", "dropped"} \cup Outcomes]
           /\ \A r \in Requests : Prune(kept)[r] = "pending" <=> kept[r] = "pending"
<1>1. \A r \in Surplus(kept) : kept[r] \in Outcomes
  BY DEF Surplus, Droppable
<1> QED
  BY <1>1 DEF Prune, Outcomes

LEMMA BrokerInvNext == BrokerInv /\ [BrokerNext]_brokerVars => BrokerInv'
<1> SUFFICES ASSUME BrokerInv, [BrokerNext]_brokerVars PROVE BrokerInv'
  OBVIOUS
<1> USE DEF BrokerInv, BrokerTypeOK, NoOrphan, Outcomes
<1>1. ASSUME NEW r \in Requests, NEW aborted \in BOOLEAN, OpenRequest(r, aborted) PROVE BrokerInv'
  <2> DEFINE asked == [record EXCEPT ![r] = "pending"]
             opened == Prune(asked)
  <2>1. /\ opened \in [Requests -> {"none", "pending", "dropped"} \cup Outcomes]
        /\ \A q \in Requests : opened[q] = "pending" <=> asked[q] = "pending"
    BY PruneKeepsPending
  <2>2. opened[r] = "pending" /\ \A q \in Requests \ {r} : opened[q] = "pending" <=> record[q] = "pending"
    BY <2>1
  <2>3. disposed = FALSE /\ disposed' = FALSE
    BY <1>1 DEF OpenRequest
  <2>4. CASE aborted
    <3>1. record' = [opened EXCEPT ![r] = "cancelled"] /\ promise' = [promise EXCEPT ![r] = "cancelled"]
      BY <1>1, <2>4 DEF OpenRequest
    <3>2. record' \in [Requests -> {"none", "pending", "dropped"} \cup Outcomes]
      BY <2>1, <3>1
    <3>3. promise' \in [Requests -> {"none", "waiting"} \cup Outcomes]
      BY <3>1
    <3>4. /\ record'[r] = "cancelled" /\ promise'[r] = "cancelled"
          /\ \A q \in Requests \ {r} : /\ promise'[q] = promise[q]
                                       /\ record'[q] = "pending" <=> record[q] = "pending"
      BY <2>1, <2>2, <3>1
    <3>5. NoOrphan'
      BY <2>3, <3>4
    <3> QED
      BY <2>3, <3>2, <3>3, <3>5
  <2>5. CASE ~aborted
    <3>1. record' = opened /\ promise' = [promise EXCEPT ![r] = "waiting"]
      BY <1>1, <2>5 DEF OpenRequest
    <3>2. record' \in [Requests -> {"none", "pending", "dropped"} \cup Outcomes]
      BY <2>1, <3>1
    <3>3. promise' \in [Requests -> {"none", "waiting"} \cup Outcomes]
      BY <3>1
    <3>4. /\ record'[r] = "pending" /\ promise'[r] = "waiting"
          /\ \A q \in Requests \ {r} : /\ promise'[q] = promise[q]
                                       /\ record'[q] = "pending" <=> record[q] = "pending"
      BY <2>1, <2>2, <3>1
    <3>5. NoOrphan'
      BY <2>3, <3>4
    <3> QED
      BY <2>3, <3>2, <3>3, <3>5
  <2> QED
    BY <2>4, <2>5
<1>2. ASSUME NEW r \in Requests, NEW outcome \in Outcomes \ {"unavailable"}, Resolve(r, outcome) PROVE BrokerInv'
  BY <1>2 DEF Resolve, Answerable
<1>3. ASSUME NEW r \in Requests, AbortRequest(r) PROVE BrokerInv'
  BY <1>3 DEF AbortRequest
<1>4. CASE Dispose
  BY <1>4 DEF Dispose
<1>5. CASE UNCHANGED brokerVars
  BY <1>5 DEF brokerVars
<1> QED
  BY <1>1, <1>2, <1>3, <1>4, <1>5 DEF BrokerNext

THEOREM BrokerInvariance == BrokerSpec => []BrokerInv
  BY BrokerInvInit, BrokerInvNext, PTL DEF BrokerSpec

(* Whatever the history limit, a waiting tool call keeps the record through *)
(* which a human can answer it, and none waits once the bridge is gone.     *)
THEOREM NoRequestOrphaned == BrokerSpec => []NoOrphan
<1>1. BrokerInv => NoOrphan
  BY DEF BrokerInv
<1> QED
  BY <1>1, BrokerInvariance, PTL

LEMMA BrokerStartOneShot == BrokerInit => Requested!Init
  BY DEF BrokerInit, Requested!Init

LEMMA BrokerStep == BrokerInv /\ [BrokerNext]_brokerVars => [Requested!Next]_(Requested!vars)
<1> DEFINE ph == [r \in Requests |-> CASE promise[r] = "none" -> "none"
                                      [] promise[r] = "waiting" -> "open"
                                      [] OTHER -> "closed"]
           ef == [r \in Requests |-> IF promise[r] = "allowed-once" THEN 1 ELSE 0]
<1> SUFFICES ASSUME BrokerInv, [BrokerNext]_brokerVars PROVE [Requested!Next]_(Requested!vars)
  OBVIOUS
<1> USE DEF BrokerInv, BrokerTypeOK, NoOrphan, Outcomes
<1>1. ASSUME NEW r \in Requests, NEW aborted \in BOOLEAN, OpenRequest(r, aborted) PROVE Requested!Next
  <2>1. PICK to \in {"waiting", "cancelled"} : promise[r] = "none" /\ promise' = [promise EXCEPT ![r] = to]
    BY <1>1 DEF OpenRequest
  <2>2. ph[r] = "none" /\ ef' = ef
    BY <2>1
  <2>3. PICK next \in {"open", "closed"} : ph' = [ph EXCEPT ![r] = next]
    BY <2>1
  <2>4. Requested!Ask(r)
    BY <2>2, <2>3 DEF Requested!Ask
  <2> QED
    BY <2>4 DEF Requested!Next
<1>2. ASSUME NEW r \in Requests, NEW outcome \in Outcomes \ {"unavailable"}, Resolve(r, outcome) PROVE Requested!Next
  <2>1. promise[r] = "waiting" /\ promise' = [promise EXCEPT ![r] = outcome]
    BY <1>2 DEF Resolve, Answerable
  <2>2. ph[r] = "open" /\ ph' = [ph EXCEPT ![r] = "closed"]
    BY <2>1
  <2>3. CASE outcome = "allowed-once"
    <3>1. ef' = [ef EXCEPT ![r] = 1]
      BY <2>1, <2>3
    <3>2. Requested!Grant(r)
      BY <2>2, <3>1 DEF Requested!Grant
    <3> QED
      BY <3>2 DEF Requested!Next
  <2>4. CASE outcome # "allowed-once"
    <3>1. ef' = ef
      BY <2>1, <2>4
    <3>2. Requested!Close(r)
      BY <2>2, <3>1 DEF Requested!Close
    <3> QED
      BY <3>2 DEF Requested!Next
  <2> QED
    BY <2>3, <2>4
<1>3. ASSUME NEW r \in Requests, AbortRequest(r) PROVE Requested!Next
  <2>1. promise[r] = "waiting" /\ promise' = [promise EXCEPT ![r] = "cancelled"]
    BY <1>3 DEF AbortRequest
  <2>2. ph[r] = "open" /\ ph' = [ph EXCEPT ![r] = "closed"] /\ ef' = ef
    BY <2>1
  <2>3. Requested!Close(r)
    BY <2>2 DEF Requested!Close
  <2> QED
    BY <2>3 DEF Requested!Next
<1>4. CASE Dispose
  <2>1. \A r \in Requests : promise'[r] = IF promise[r] = "waiting" THEN "unavailable" ELSE promise[r]
    BY <1>4 DEF Dispose
  <2>2. ph' = [r \in Requests |-> IF ph[r] = "open" THEN "closed" ELSE ph[r]]
    BY <2>1
  <2>3. ef' = ef
    BY <2>1
  <2>4. Requested!CloseAll
    BY <2>2, <2>3 DEF Requested!CloseAll
  <2> QED
    BY <2>4 DEF Requested!Next
<1>5. CASE UNCHANGED brokerVars
  BY <1>5 DEF brokerVars, Requested!vars
<1> QED
  BY <1>1, <1>2, <1>3, <1>4, <1>5 DEF BrokerNext

(* A DSH request is a one-shot confirmation too: no race of a decision, an  *)
(* abort and the disposal of the bridge answers it twice.                   *)
THEOREM BrokerRefine == BrokerSpec => BrokerOneShot
<1>1. BrokerSpec => Requested!Init /\ [][Requested!Next]_(Requested!vars)
  BY BrokerStartOneShot, BrokerStep, BrokerInvariance, PTL DEF BrokerSpec
<1> QED
  BY <1>1 DEF BrokerOneShot, Requested!Spec

-----------------------------------------------------------------------------
(* The console composes the two without shared state, so that each behaves  *)
(* in the composition as it does alone: the theorems above apply to it.     *)
THEOREM Composition == ApprovalsSpec => TicketsSpec /\ BrokerSpec
<1>1. ApprovalsInit => TicketsInit /\ BrokerInit
  BY DEF ApprovalsInit
<1>2. [ApprovalsNext]_approvalVars => [TicketsNext]_ticketVars /\ [BrokerNext]_brokerVars
  BY DEF ApprovalsNext, approvalVars
<1> QED
  BY <1>1, <1>2, PTL DEF ApprovalsSpec, TicketsSpec, BrokerSpec
-------------------------------------------------------------------------------
(***************************************************************************)
(* The candidate workbench.  The rest of the current call is either the    *)
(* three steps of a review of what the memory says now, or a sequence of   *)
(* effects each of which is legal over the records there are: it writes    *)
(* sound records, and workbenches that parse.  Only a repair can take a    *)
(* revision away again, and then no plan was handed down through it; that  *)
(* is what lets its handler take back the plan it made up.                 *)
(***************************************************************************)

(* A record of a candidate: what was validated had code that builds.       *)
SoundRecords(c) ==
    {r \in Records(c) :
        r.life = "validated" => \E t \in CandidateTrees : t.code # "broken" /\ r.digest = Digest(c, t)}

RecordMaps ==
    {f \in [RevisionIds -> (UNION {SoundRecords(c) : c \in RevisionIds}) \cup {NoRecord}] :
        \A c \in RevisionIds : f[c] \in SoundRecords(c) \cup {NoRecord}}

PlanIds == {"spec", "inherited", "import"} \X Nat

Bindings == [plan : PlanIds, parent : Nat, digest : (UNION {DigestsOf(c) : c \in RevisionIds}) \cup {NoDigest},
             spec : Nat, leftover : BOOLEAN]

(* A binding to a parent names a digest of an earlier revision.            *)
Workbenches ==
    {w \in [specs : 0 .. MaxSpecs, plans : SUBSET PlanIds, bind : [RevisionIds -> Bindings \cup {NoRecord}]] :
        /\ Parses(w)
        /\ \A c \in RevisionIds : w.bind[c] # NoRecord /\ w.bind[c].parent # 0 =>
              /\ w.bind[c].parent \in RevisionIds /\ w.bind[c].parent < c
              /\ w.bind[c].digest \in DigestsOf(w.bind[c].parent)}

Inherits(w, d) == w.bind[d] # NoRecord /\ w.bind[d].plan[1] = "inherited"

(* The revisions between the one a plan was made up for and the one that   *)
(* is bound to it are there.                                               *)
Rooted(w, r) ==
    \A d \in RevisionIds : Inherits(w, d) =>
        /\ d # Imported /\ w.bind[d].plan[2] \in 1 .. d - 1
        /\ \A j \in w.bind[d].plan[2] + 1 .. d - 1 : r[j] # NoRecord

(* No plan was handed down through revision c.                             *)
Unneeded(c, w) == \A d \in RevisionIds : Inherits(w, d) /\ d > c => w.bind[d].plan[2] >= c

Values == (UNION {SoundRecords(c) : c \in RevisionIds}) \cup CandidateTrees \cup Workbenches \cup {NoRecord}

Deeds == [do : {"rec", "tree", "wb", "index", "save", "lineage", "generation"}, at : Nat, val : Values,
          else : {"none", "rollback", "leftover", "unpublish", "discard"}]

(* The effects of a call that may take revision c away again, over the     *)
(* records r.                                                              *)
Effects(c, r) ==
    {s \in Deeds :
        /\ s.do = "rec" => /\ s.at \in RevisionIds /\ s.val \in SoundRecords(s.at) \cup {NoRecord}
                           /\ s.val = NoRecord => s.at = c
        /\ s.do = "tree" => s.at \in RevisionIds /\ s.val \in CandidateTrees \cup {NoRecord}
        /\ s.do = "wb" => s.val \in Workbenches /\ Rooted(s.val, r) /\ Unneeded(c, s.val)
        /\ s.else # "none" => s.at = c}

(* A binding is made over records that are on disk by then.                *)
Ordered(s, r) ==
    \A i \in 1 .. Len(s) : s[i].do = "wb" => Rooted(s[i].val, r) \/ \E j \in 1 .. i - 1 : s[j].do = "index"

ReportOf(c) ==
    [candidate |-> c, digest |-> PackageOf(c).digest,
     open |-> OpenFindings(PackageOf(c), reports, last[c], ParentDigest(c), Declared(c))]

ReviewSteps(c) ==
    <<Step("report", c, ReportOf(c), "none"), Step("lineage", 0, NoRecord, "none"),
      Step("generation", 0, NoRecord, "none")>>

Reviewing == \E c \in RevisionIds : rec[c] # NoRecord /\ todo = ReviewSteps(c)

Effecting ==
    \E c \in 2 .. Imported :
        /\ todo \in Seq(Effects(c, rec)) /\ Ordered(todo, disk.rec)
        /\ Unneeded(c, wb) /\ Unneeded(c, disk.wb)

AllReports == UNION {Reports(c) : c \in RevisionIds}

AuthoringFiles ==
    [rec : RecordMaps, wb : Workbenches, lineage : [present : BOOLEAN, reports : Seq(AllReports)],
     expected : BOOLEAN]

AuthoringTyped ==
    /\ rec \in RecordMaps /\ wb \in Workbenches /\ disk \in AuthoringFiles
    /\ tree \in [RevisionIds -> CandidateTrees \cup {NoRecord}]
    /\ reports \in Seq(AllReports)
    /\ last \in [RevisionIds -> AllReports \cup {NoReport}]
    /\ \A c \in RevisionIds : last[c] \in Reports(c) \cup {NoReport}
    /\ approval \in [RevisionIds -> {"none", "requested", "rejected"}]
    /\ up \in BOOLEAN /\ lost \in BOOLEAN /\ (~up => todo = <<>>)

AuthoringInv ==
    /\ AuthoringTyped
    /\ \A w \in {wb, disk.wb} : \A r \in {rec, disk.rec} : Rooted(w, r)
    /\ Reviewing \/ Effecting

-------------------------------------------------------------------------------
LEMMA RevisionNumbers ==
    /\ MaxRevision \in Nat \ {0} /\ MaxSpecs \in Nat \ {0}
    /\ RevisionIds = 1 .. MaxRevision + 1 /\ Generated = 1 .. MaxRevision /\ Imported = MaxRevision + 1
    /\ Imported \in RevisionIds /\ Imported \in 2 .. Imported /\ Generated \subseteq RevisionIds
    /\ RevisionIds \subseteq Nat /\ 1 \in Generated
  BY AuthoringAssumption DEF RevisionIds, Generated, Imported

LEMMA RecDeed ==
    ASSUME NEW c, NEW R, NEW d \in RevisionIds, NEW v, NEW else,
           v \in SoundRecords(d) \/ (v = NoRecord /\ d = c),
           else = "none" \/ (else \in {"rollback", "leftover", "unpublish", "discard"} /\ d = c)
    PROVE  SetRec(d, v, else) \in Effects(c, R)
<1>1. v \in Values /\ d \in Nat
  BY RevisionNumbers DEF Values
<1>2. SetRec(d, v, else) \in Deeds
  BY <1>1 DEF SetRec, Step, Deeds
<1>3. v = NoRecord => d = c
  BY NothingAssumption DEF SoundRecords
<1> QED
  BY <1>2, <1>3 DEF SetRec, Step, Effects

LEMMA TreeDeed ==
    ASSUME NEW c, NEW R, NEW d \in RevisionIds, NEW v \in CandidateTrees \cup {NoRecord}, NEW else,
           else = "none" \/ (else \in {"rollback", "leftover", "unpublish", "discard"} /\ d = c)
    PROVE  SetTree(d, v, else) \in Effects(c, R)
<1>1. v \in Values /\ d \in Nat
  BY RevisionNumbers DEF Values
<1>2. SetTree(d, v, else) \in Deeds
  BY <1>1 DEF SetTree, Step, Deeds
<1> QED
  BY <1>2 DEF SetTree, Step, Effects

LEMMA FileDeed ==
    ASSUME NEW c, NEW R, NEW d \in Nat, NEW else,
           else = "none" \/ (else \in {"rollback", "leftover", "unpublish", "discard"} /\ d = c)
    PROVE  WriteIndex(d, else) \in Effects(c, R) /\ Save(d, else) \in Effects(c, R)
<1>1. NoRecord \in Values
  BY DEF Values
<1>2. WriteIndex(d, else) \in Deeds /\ Save(d, else) \in Deeds
  BY <1>1 DEF WriteIndex, Save, Step, Deeds
<1> QED
  BY <1>2 DEF WriteIndex, Save, Step, Effects

LEMMA WbDeed ==
    ASSUME NEW c, NEW R, NEW w \in Workbenches, Rooted(w, R), Unneeded(c, w)
    PROVE  SetWb(w) \in Effects(c, R)
<1>1. w \in Values
  BY DEF Values
<1>2. SetWb(w) \in Deeds
  BY <1>1 DEF SetWb, Step, Deeds
<1> QED
  BY <1>2 DEF SetWb, Step, Effects

(* A revision under development is a sound record.                         *)
LEMMA DevelopingSound ==
    ASSUME NEW c, NEW r \in Records(c)
    PROVE  Developing(r) \in SoundRecords(c)
<1>1. Developing(r) \in Records(c) /\ Developing(r).life = "developing"
  BY DEF Developing, Records, Lives
<1> QED
  BY <1>1 DEF SoundRecords

LEMMA PlannedSound ==
    ASSUME NEW c, NEW m \in Models
    PROVE  Record("planned", FALSE, NoDigest, m) \in SoundRecords(c)
  BY DEF Record, Records, SoundRecords, Lives

LEMMA WriteDeeds ==
    ASSUME NEW c, NEW R, NEW d \in RevisionIds, NEW t \in CandidateTrees, NEW r \in Records(d), NEW else,
           else = "none" \/ (else \in {"rollback", "leftover", "unpublish", "discard"} /\ d = c)
    PROVE  WriteSteps(d, t, r, else) \in Seq(Effects(c, R))
<1>1. d \in Nat
  BY RevisionNumbers
<1>2. /\ SetTree(d, t, else) \in Effects(c, R) /\ SetRec(d, Developing(r), else) \in Effects(c, R)
      /\ WriteIndex(d, else) \in Effects(c, R)
  BY <1>1, RecDeed, TreeDeed, FileDeed, DevelopingSound
<1> QED
  BY <1>2 DEF WriteSteps

LEMMA CreateDeeds ==
    ASSUME NEW c, NEW R, NEW d \in RevisionIds, NEW m \in Models, NEW s
    PROVE  CreateSteps(d, m, s) \in Seq(Effects(c, R))
<1>1. d \in Nat /\ 0 \in 0 .. MaxSpecs
  BY RevisionNumbers
<1>2. CandidateTree(m, "none", 0, FALSE) \in CandidateTrees
  BY <1>1 DEF CandidateTree, CandidateTrees
<1>3. /\ SetTree(d, CandidateTree(m, "none", 0, FALSE), "none") \in Effects(c, R)
      /\ SetRec(d, Record("planned", FALSE, NoDigest, m), "none") \in Effects(c, R)
      /\ WriteIndex(d, "none") \in Effects(c, R)
  BY <1>1, <1>2, RecDeed, TreeDeed, FileDeed, PlannedSound
<1>4. \A x, y, z \in Effects(c, R) : <<x, y, z>> \in Seq(Effects(c, R))
  OBVIOUS
<1> QED
  BY ONLY <1>3, <1>4 DEF CreateSteps

LEMMA SaveDeeds ==
    ASSUME NEW c, NEW R, NEW d \in RevisionIds, NEW else,
           else = "none" \/ (else \in {"rollback", "leftover", "unpublish", "discard"} /\ d = c)
    PROVE  <<Save(d, else)>> \in Seq(Effects(c, R))
<1>1. Save(d, else) \in Effects(c, R)
  BY FileDeed, RevisionNumbers
<1> QED
  BY <1>1

(* A call whose bindings are rooted in the records on disk already.        *)
LEMMA OrderedDeeds ==
    ASSUME NEW c, NEW R, NEW s \in Seq(Effects(c, R))
    PROVE  Ordered(s, R)
<1>1. \A i \in 1 .. Len(s) : s[i] \in Effects(c, R)
  OBVIOUS
<1> QED
  BY <1>1 DEF Ordered, Effects

(* Records come and go at revision c only where nothing needs it.          *)
LEMMA RootedKept ==
    ASSUME NEW c, NEW w \in Workbenches, NEW R \in RecordMaps, Rooted(w, R), Unneeded(c, w),
           NEW d \in RevisionIds, NEW v, v = NoRecord => d = c
    PROVE  Rooted(w, [R EXCEPT ![d] = v])
<1> DEFINE Q == [R EXCEPT ![d] = v]
<1> SUFFICES ASSUME NEW e \in RevisionIds, Inherits(w, e)
             PROVE  /\ e # Imported /\ w.bind[e].plan[2] \in 1 .. e - 1
                    /\ \A j \in w.bind[e].plan[2] + 1 .. e - 1 : Q[j] # NoRecord
  BY DEF Rooted
<1>1. /\ e # Imported /\ w.bind[e].plan[2] \in 1 .. e - 1
      /\ \A j \in w.bind[e].plan[2] + 1 .. e - 1 : R[j] # NoRecord
  BY DEF Rooted
<1>2. ASSUME NEW j \in w.bind[e].plan[2] + 1 .. e - 1
      PROVE  Q[j] # NoRecord
  <2>1. j \in RevisionIds /\ j < e /\ w.bind[e].plan[2] < j
    BY <1>1, RevisionNumbers
  <2>2. R \in [RevisionIds -> (UNION {SoundRecords(x) : x \in RevisionIds}) \cup {NoRecord}]
    BY DEF RecordMaps
  <2>3. CASE j # d
    BY <2>1, <2>2, <2>3, <1>1
  <2>4. CASE j = d
    <3>1. Q[j] = v
      BY <2>4, <2>2
    <3>2. v # NoRecord
      <4> SUFFICES ASSUME v = NoRecord PROVE FALSE
        OBVIOUS
      <4>1. c = j /\ e > c
        BY <2>1, <2>4, RevisionNumbers
      <4>2. w.bind[e].plan[2] >= c
        BY <4>1 DEF Unneeded
      <4> QED
        BY <4>1, <4>2, <2>1, <1>1, RevisionNumbers
    <3> QED
      BY <3>1, <3>2
  <2> QED
    BY <2>3, <2>4
<1> QED
  BY <1>1, <1>2

LEMMA UnneededLast ==
    ASSUME NEW w
    PROVE  Unneeded(Imported, w)
  BY RevisionNumbers DEF Unneeded

LEMMA UnneededNew ==
    ASSUME NEW w \in Workbenches, NEW R, Rooted(w, R), NEW c \in RevisionIds, R[c] = NoRecord
    PROVE  Unneeded(c, w)
<1> SUFFICES ASSUME NEW e \in RevisionIds, Inherits(w, e), e > c
             PROVE  w.bind[e].plan[2] >= c
  BY DEF Unneeded
<1>1. /\ w.bind[e].plan[2] \in 1 .. e - 1
      /\ \A j \in w.bind[e].plan[2] + 1 .. e - 1 : R[j] # NoRecord
  BY DEF Rooted
<1> QED
  BY <1>1, RevisionNumbers

-------------------------------------------------------------------------------
(* The calls.  A call that takes nothing away is one about no revision at  *)
(* all, which Imported, the last, stands for.                              *)
Calm(s) == s \in Seq(Effects(Imported, rec)) /\ s \in Seq(Effects(Imported, disk.rec))

LEMMA CalmEffecting ==
    ASSUME AuthoringInv, NEW s, Calm(s), todo' = s, rec' = rec, disk'.rec = disk.rec,
           wb' = wb, disk'.wb = disk.wb
    PROVE  Effecting'
<1>1. todo' \in Seq(Effects(Imported, rec)) /\ Ordered(todo', disk.rec)
  BY OrderedDeeds DEF Calm
<1>2. Unneeded(Imported, wb') /\ Unneeded(Imported, disk'.wb)
  BY UnneededLast
<1>3. Effects(Imported, rec)' = Effects(Imported, rec) /\ Ordered(todo, disk.rec)' = Ordered(todo', disk.rec)
  BY DEF Effects, Ordered, Rooted
<1>4. Imported \in 2 .. Imported
  BY RevisionNumbers
<1> QED
  BY <1>1, <1>2, <1>3, <1>4 DEF Effecting

LEMMA CalmStep ==
    ASSUME AuthoringInv, NEW s, Calm(s), Idle, Do(s)
    PROVE  AuthoringInv'
<1>1. Effecting'
  BY CalmEffecting DEF Do
<1>2. AuthoringTyped'
  BY DEF AuthoringInv, AuthoringTyped, Do, Idle
<1>3. (\A w \in {wb, disk.wb} : \A r \in {rec, disk.rec} : Rooted(w, r))'
  BY DEF AuthoringInv, Do
<1> QED
  BY <1>1, <1>2, <1>3 DEF AuthoringInv

LEMMA CalmConcat ==
    ASSUME NEW s, NEW t, Calm(s), Calm(t)
    PROVE  Calm(s \o t)
  BY ConcatProperties DEF Calm

LEMMA CalmWb ==
    ASSUME NEW w \in Workbenches, Rooted(w, rec), Rooted(w, disk.rec), NEW d \in RevisionIds
    PROVE  Calm(<<SetWb(w), Save(d, "none")>>)
<1>1. Unneeded(Imported, w) /\ d \in Nat
  BY UnneededLast, RevisionNumbers
<1>2. \A R \in {rec, disk.rec} : SetWb(w) \in Effects(Imported, R) /\ Save(d, "none") \in Effects(Imported, R)
  BY <1>1, WbDeed, FileDeed
<1> QED
  BY <1>2 DEF Calm

LEMMA RecordIs ==
    ASSUME AuthoringInv, NEW c \in RevisionIds, rec[c] # NoRecord
    PROVE  rec[c] \in SoundRecords(c) /\ rec[c] \in Records(c)
  BY DEF AuthoringInv, AuthoringTyped, RecordMaps, SoundRecords

LEMMA TreeIs ==
    ASSUME AuthoringInv, NEW c \in RevisionIds, tree[c] # NoRecord
    PROVE  tree[c] \in CandidateTrees
  BY DEF AuthoringInv, AuthoringTyped

LEMMA SpecificationKeeps ==
    ASSUME AuthoringInv, DefineSpecification
    PROVE  AuthoringInv'
<1> DEFINE w == [wb EXCEPT !.specs = @ + 1]
<1>1. wb \in Workbenches /\ Rooted(wb, rec) /\ Rooted(wb, disk.rec)
  BY DEF AuthoringInv, AuthoringTyped
<1>2. wb.specs \in 0 .. MaxSpecs /\ wb.specs < MaxSpecs
  BY <1>1 DEF DefineSpecification, Workbenches
<1>3. w.bind = wb.bind /\ w.plans = wb.plans
  BY <1>1 DEF Workbenches
<1>4. w \in Workbenches
  BY <1>1, <1>2, <1>3, RevisionNumbers DEF Workbenches, Parses
<1>5. Rooted(w, rec) /\ Rooted(w, disk.rec)
  BY <1>1, <1>3 DEF Rooted, Inherits
<1>6. Calm(<<SetWb(w), Save(1, "none")>>)
  BY <1>4, <1>5, CalmWb, RevisionNumbers
<1> QED
  BY <1>6, CalmStep DEF DefineSpecification

LEMMA PlanKeeps ==
    ASSUME AuthoringInv, NEW s \in 1 .. MaxSpecs, MakePlan(s)
    PROVE  AuthoringInv'
<1> DEFINE w == [wb EXCEPT !.plans = @ \cup {Plan("spec", s)}]
<1>1. wb \in Workbenches /\ Rooted(wb, rec) /\ Rooted(wb, disk.rec)
  BY DEF AuthoringInv, AuthoringTyped
<1>2. Plan("spec", s) \in PlanIds
  BY RevisionNumbers DEF Plan, PlanIds
<1>3. w.bind = wb.bind /\ w.plans = wb.plans \cup {Plan("spec", s)}
  BY <1>1 DEF Workbenches
<1>4. w \in Workbenches
  BY <1>1, <1>2, <1>3, RevisionNumbers DEF Workbenches, Parses
<1>5. Rooted(w, rec) /\ Rooted(w, disk.rec)
  BY <1>1, <1>3 DEF Rooted, Inherits
<1>6. Calm(<<SetWb(w), Save(1, "none")>>)
  BY <1>4, <1>5, CalmWb, RevisionNumbers
<1> QED
  BY <1>6, CalmStep DEF MakePlan

LEMMA CalmWrite ==
    ASSUME NEW d \in RevisionIds, NEW t \in CandidateTrees, NEW r \in Records(d)
    PROVE  Calm(WriteSteps(d, t, r, "none"))
  BY WriteDeeds DEF Calm

LEMMA CalmSave ==
    ASSUME NEW d \in RevisionIds
    PROVE  Calm(<<Save(d, "none")>>)
  BY SaveDeeds DEF Calm

LEMMA CalmRec ==
    ASSUME NEW d \in RevisionIds, NEW r \in SoundRecords(d)
    PROVE  Calm(<<SetRec(d, r, "none")>>)
<1>1. \A R \in {rec, disk.rec} : SetRec(d, r, "none") \in Effects(Imported, R)
  BY RecDeed
<1> QED
  BY <1>1 DEF Calm

(* A new binding to a plan that was not handed down.                       *)
LEMMA BoundWorkbench ==
    ASSUME NEW w \in Workbenches, NEW R, Rooted(w, R), NEW d \in RevisionIds, NEW plan \in w.plans, NEW spec \in Nat,
           plan[1] # "inherited", d # Imported => spec = SpecOf(plan),
           NEW x, x = [w EXCEPT !.bind[d] = Binding(plan, 0, NoDigest, spec)]
    PROVE  x \in Workbenches /\ Rooted(x, R)
<1>1. w.plans \subseteq PlanIds /\ w.bind \in [RevisionIds -> Bindings \cup {NoRecord}]
  BY DEF Workbenches
<1>2. Binding(plan, 0, NoDigest, spec) \in Bindings
  BY <1>1 DEF Binding, Bindings
<1> DEFINE b == Binding(plan, 0, NoDigest, spec)
<1>3. b \in Bindings /\ b.plan = plan /\ b.parent = 0 /\ b.spec = spec
  BY <1>2 DEF Binding
<1> HIDE DEF b
<1>4. x = [specs |-> w.specs, plans |-> w.plans, bind |-> [w.bind EXCEPT ![d] = b]]
  BY DEF Workbenches, b
<1>5. x.bind \in [RevisionIds -> Bindings \cup {NoRecord}] /\ x.plans = w.plans /\ x.specs = w.specs
  BY <1>1, <1>3, <1>4
<1>6. \A e \in RevisionIds : x.bind[e] = IF e = d THEN b ELSE w.bind[e]
  BY <1>1, <1>4
<1>7. Parses(x)
  BY <1>3, <1>5, <1>6 DEF Parses, Workbenches
<1>8. \A e \in RevisionIds : x.bind[e] # NoRecord /\ x.bind[e].parent # 0 =>
              /\ x.bind[e].parent \in RevisionIds /\ x.bind[e].parent < e
              /\ x.bind[e].digest \in DigestsOf(x.bind[e].parent)
  BY <1>3, <1>6 DEF Workbenches
<1>9. x \in Workbenches
  BY <1>4, <1>5, <1>7, <1>8 DEF Workbenches
<1>10. Rooted(x, R)
  BY <1>3, <1>6 DEF Rooted, Inherits
<1> QED
  BY <1>9, <1>10

LEMMA CreateKeeps ==
    ASSUME AuthoringInv, NEW s \in 1 .. MaxSpecs, NEW model \in Models, Create(s, model)
    PROVE  AuthoringInv'
<1> DEFINE plan == Plan("spec", s)
           bare == Record("planned", FALSE, NoDigest, model)
           stamped == CandidateTree(model, "none", s, FALSE)
           w == [wb EXCEPT !.bind[1] = Binding(plan, 0, NoDigest, s)]
           suites == IF s \in Fixtures THEN WriteSteps(1, [stamped EXCEPT !.suite = TRUE], bare, "none") ELSE <<>>
<1>1. 1 \in RevisionIds /\ s \in Nat
  BY RevisionNumbers
<1>2. bare \in Records(1)
  BY PlannedSound DEF SoundRecords
<1>3. stamped \in CandidateTrees /\ [stamped EXCEPT !.suite = TRUE] \in CandidateTrees
  <2>1. s \in 0 .. MaxSpecs
    BY RevisionNumbers
  <2> QED
    BY <2>1 DEF CandidateTree, CandidateTrees
<1>4. Calm(CreateSteps(1, model, "none"))
  BY <1>1, CreateDeeds DEF Calm
<1>5. Calm(WriteSteps(1, stamped, bare, "none"))
  BY <1>1, <1>2, <1>3, CalmWrite
<1>6. Calm(suites)
  <2>1. Calm(<<>>)
    BY DEF Calm
  <2>2. Calm(WriteSteps(1, [stamped EXCEPT !.suite = TRUE], bare, "none"))
    BY <1>1, <1>2, <1>3, CalmWrite
  <2> QED
    BY <2>1, <2>2
<1>7. Calm(<<SetWb(w), Save(1, "none")>>)
  <2>1. wb \in Workbenches /\ Rooted(wb, rec) /\ Rooted(wb, disk.rec)
    BY DEF AuthoringInv, AuthoringTyped
  <2>2. plan[1] = "spec" /\ SpecOf(plan) = s /\ plan \in wb.plans
    BY DEF Plan, SpecOf, Create
  <2>3. w \in Workbenches /\ Rooted(w, rec) /\ Rooted(w, disk.rec)
    BY <1>1, <2>1, <2>2, BoundWorkbench
  <2> QED
    BY <1>1, <2>3, CalmWb
<1>8. Calm(CreateSteps(1, model, "none") \o WriteSteps(1, stamped, bare, "none")
           \o suites \o <<SetWb(w), Save(1, "none")>>)
  <2> HIDE DEF plan, bare, stamped, w, suites
  <2> QED
    BY <1>4, <1>5, <1>6, <1>7, CalmConcat
<1> QED
  BY <1>8, CalmStep DEF Create

LEMMA WithCodeIs ==
    ASSUME AuthoringInv, NEW c \in RevisionIds, NEW code \in {"none", "good", "broken"}
    PROVE  WithCode(c, code) \in CandidateTrees
<1>1. 0 \in 0 .. MaxSpecs
  BY RevisionNumbers
<1>2. CASE tree[c] = NoRecord
  BY <1>1, <1>2 DEF WithCode, CandidateTree, CandidateTrees
<1>3. CASE tree[c] # NoRecord
  BY <1>3, TreeIs DEF WithCode, CandidateTrees
<1> QED
  BY <1>2, <1>3

LEMMA WriteFileKeeps ==
    ASSUME AuthoringInv, NEW c \in Generated, NEW code \in {"good", "broken"}, WriteFile(c, code)
    PROVE  AuthoringInv'
<1>1. c \in RevisionIds
  BY RevisionNumbers
<1>2. rec[c] \in Records(c) /\ WithCode(c, code) \in CandidateTrees
  BY <1>1, RecordIs, WithCodeIs DEF WriteFile, Editable
<1>3. Calm(WriteSteps(c, WithCode(c, code), rec[c], "none")) /\ Calm(<<Save(c, "none")>>)
  BY <1>1, <1>2, CalmWrite, CalmSave
<1>4. Calm(WriteSteps(c, WithCode(c, code), rec[c], "none") \o <<Save(c, "none")>>)
  BY <1>3, CalmConcat
<1> QED
  BY <1>4, CalmStep DEF WriteFile

LEMMA CalmManifest ==
    ASSUME AuthoringInv, NEW c \in RevisionIds, NEW t \in CandidateTrees, NEW model \in Models, rec[c] # NoRecord
    PROVE  Calm(ManifestSteps(c, t, model))
<1> DEFINE r == [rec[c] EXCEPT !.model = model]
<1>1. rec[c] \in SoundRecords(c) /\ rec[c] \in Records(c)
  BY RecordIs
<1>2. r \in Records(c) /\ r.life = rec[c].life /\ r.digest = rec[c].digest
  BY <1>1 DEF Records
<1>3. r \in SoundRecords(c)
  BY <1>1, <1>2 DEF SoundRecords
<1>4. [t EXCEPT !.model = model] \in CandidateTrees
  BY DEF CandidateTrees
<1>5. Calm(<<SetRec(c, r, "none")>>)
  BY <1>3, CalmRec
<1>6. Calm(WriteSteps(c, [t EXCEPT !.model = model], r, "none"))
  BY <1>2, <1>4, CalmWrite
<1> QED
  BY <1>5, <1>6, CalmConcat DEF ManifestSteps

LEMMA ManifestKeeps ==
    ASSUME AuthoringInv, NEW c \in Generated, NEW model \in Models, SetManifest(c, model)
    PROVE  AuthoringInv'
<1> DEFINE t == IF tree[c] = NoRecord THEN CandidateTree(model, "none", 0, FALSE) ELSE tree[c]
<1>1. c \in RevisionIds /\ 0 \in 0 .. MaxSpecs
  BY RevisionNumbers
<1>2. CandidateTree(model, "none", 0, FALSE) \in CandidateTrees
  BY <1>1 DEF CandidateTree, CandidateTrees
<1>3. t \in CandidateTrees
  BY <1>1, <1>2, TreeIs
<1>4. Calm(ManifestSteps(c, t, model)) /\ Calm(<<Save(c, "none")>>)
  <2> HIDE DEF t
  <2> QED
    BY <1>1, <1>3, CalmManifest, CalmSave DEF SetManifest, Editable
<1>5. Calm(ManifestSteps(c, t, model) \o <<Save(c, "none")>>)
  <2> HIDE DEF t
  <2> QED
    BY <1>4, CalmConcat
<1> QED
  BY <1>5, CalmStep DEF SetManifest

LEMMA ScaffoldKeeps ==
    ASSUME AuthoringInv, NEW c \in Generated, Scaffold(c)
    PROVE  AuthoringInv'
<1>1. c \in RevisionIds
  BY RevisionNumbers
<1>2. rec[c] # NoRecord /\ rec[c] \in Records(c) /\ WithCode(c, "good") \in CandidateTrees
  BY <1>1, RecordIs, WithCodeIs DEF Scaffold, Editable
<1>3. rec[c].model \in Models
  BY <1>2 DEF Records
<1>4. /\ Calm(WriteSteps(c, WithCode(c, "good"), rec[c], "none")) /\ Calm(<<Save(c, "none")>>)
      /\ Calm(ManifestSteps(c, WithCode(c, "good"), rec[c].model))
  BY <1>1, <1>2, <1>3, CalmWrite, CalmSave, CalmManifest
<1>5. Calm(WriteSteps(c, WithCode(c, "good"), rec[c], "none") \o <<Save(c, "none")>>
           \o ManifestSteps(c, WithCode(c, "good"), rec[c].model) \o <<Save(c, "none")>>)
  BY <1>4, CalmConcat
<1> QED
  BY <1>5, CalmStep DEF Scaffold

LEMMA CalmSaved ==
    ASSUME NEW d \in RevisionIds, NEW r \in SoundRecords(d)
    PROVE  Calm(<<SetRec(d, r, "none"), WriteIndex(d, "none"), Save(d, "none")>>)
<1>1. d \in Nat
  BY RevisionNumbers
<1>2. \A R \in {rec, disk.rec} :
          /\ SetRec(d, r, "none") \in Effects(Imported, R)
          /\ WriteIndex(d, "none") \in Effects(Imported, R) /\ Save(d, "none") \in Effects(Imported, R)
  BY <1>1, RecDeed, FileDeed
<1> QED
  BY <1>2 DEF Calm

LEMMA OutcomesAre ==
    ASSUME NEW t \in CandidateTrees, NEW life \in ReviewOutcomes(t)
    PROVE  life \in Lives /\ (life = "validated" => t.code # "broken")
  BY DEF ReviewOutcomes, Lives

LEMMA ValidateKeeps ==
    ASSUME AuthoringInv, NEW c \in RevisionIds, Validate(c)
    PROVE  AuthoringInv'
<1>1. PICK life \in ReviewOutcomes(tree[c]) :
          Do(<<SetRec(c, [rec[c] EXCEPT !.life = life, !.digest = Digest(c, tree[c])], "none"),
               WriteIndex(c, "none"), Save(c, "none")>>)
  BY DEF Validate
<1> DEFINE r == [rec[c] EXCEPT !.life = life, !.digest = Digest(c, tree[c])]
<1>2. Idle /\ rec[c] \in Records(c) /\ tree[c] \in CandidateTrees
  BY RecordIs, TreeIs DEF Validate
<1>3. life \in Lives /\ (life = "validated" => tree[c].code # "broken")
  BY <1>1, <1>2, OutcomesAre
<1>4. r \in Records(c) /\ r.life = life /\ r.digest = Digest(c, tree[c])
  BY <1>2, <1>3 DEF Records, DigestsOf
<1>5. r \in SoundRecords(c)
  BY <1>2, <1>3, <1>4 DEF SoundRecords
<1> QED
  BY <1>1, <1>2, <1>5, CalmSaved, CalmStep

LEMMA SealKeeps ==
    ASSUME AuthoringInv, NEW c \in RevisionIds, Seal(c)
    PROVE  AuthoringInv'
<1> DEFINE r == [rec[c] EXCEPT !.sealed = TRUE]
<1>1. Idle /\ rec[c] \in SoundRecords(c) /\ rec[c] \in Records(c)
  BY RecordIs DEF Seal
<1>2. r \in Records(c) /\ r.life = rec[c].life /\ r.digest = rec[c].digest
  BY <1>1 DEF Records
<1>3. r \in SoundRecords(c)
  BY <1>1, <1>2 DEF SoundRecords
<1> QED
  BY <1>1, <1>3, CalmSaved, CalmStep DEF Seal

LEMMA ReviewKeeps ==
    ASSUME AuthoringInv, NEW c \in RevisionIds, ReviewCandidate(c)
    PROVE  AuthoringInv'
<1>1. AuthoringTyped'
  BY DEF AuthoringInv, AuthoringTyped, ReviewCandidate, Do, Idle
<1>2. (\A w \in {wb, disk.wb} : \A r \in {rec, disk.rec} : Rooted(w, r))'
  BY DEF AuthoringInv, ReviewCandidate, Do
<1>3. todo' = ReviewSteps(c) /\ rec[c] # NoRecord /\ UNCHANGED <<rec, reports, last, wb>>
  BY DEF ReviewCandidate, Do, ReviewSteps, ReportOf
<1>4. ReviewSteps(c)' = ReviewSteps(c)
  BY <1>3 DEF ReviewSteps, ReportOf, PackageOf, ParentDigest, Declared, Bound
<1>5. Reviewing'
  BY <1>3, <1>4 DEF Reviewing
<1> QED
  BY <1>1, <1>2, <1>5 DEF AuthoringInv

LEMMA ApprovalKeeps ==
    ASSUME AuthoringInv, NEW c \in RevisionIds, RequestApproval(c) \/ Reject(c)
    PROVE  AuthoringInv'
<1>1. /\ todo' = <<>> /\ UNCHANGED <<rec, tree, wb, reports, last, disk, up, lost>>
      /\ approval' \in [RevisionIds -> {"none", "requested", "rejected"}]
  BY DEF RequestApproval, Reject, Idle, AuthoringInv, AuthoringTyped
<1>2. Calm(<<>>)
  BY DEF Calm
<1>3. Effecting'
  BY <1>1, <1>2, CalmEffecting
<1>4. AuthoringTyped'
  BY <1>1 DEF AuthoringInv, AuthoringTyped
<1>5. (\A w \in {wb, disk.wb} : \A r \in {rec, disk.rec} : Rooted(w, r))'
  BY <1>1 DEF AuthoringInv
<1> QED
  BY <1>3, <1>4, <1>5 DEF AuthoringInv

LEMMA ImportKeeps ==
    ASSUME AuthoringInv, NEW code \in {"good", "broken"}, Import(code)
    PROVE  AuthoringInv'
<1> DEFINE t == CandidateTree("plain", code, 0, FALSE)
           r == Record("developing", FALSE, NoDigest, "plain")
           plan == Plan("import", 0)
           planned == [wb EXCEPT !.plans = @ \cup {plan}]
           bound == [planned EXCEPT !.bind[Imported] = Binding(plan, 0, NoDigest, LegacySpec)]
<1>1. Imported \in RevisionIds /\ 0 \in 0 .. MaxSpecs /\ LegacySpec \in Nat /\ Imported \in Nat
  BY RevisionNumbers DEF LegacySpec
<1>2. t \in CandidateTrees
  BY <1>1 DEF CandidateTree, CandidateTrees, Models
<1>3. r \in SoundRecords(Imported)
  BY DEF Record, Records, SoundRecords, Lives, Models
<1>4. wb \in Workbenches /\ Rooted(wb, rec) /\ Rooted(wb, disk.rec)
  BY DEF AuthoringInv, AuthoringTyped
<1>5. plan \in PlanIds /\ plan[1] = "import"
  BY DEF Plan, PlanIds
<1>6. planned.bind = wb.bind /\ planned.plans = wb.plans \cup {plan}
  BY <1>4 DEF Workbenches
<1>7. planned \in Workbenches
  BY <1>4, <1>5, <1>6 DEF Workbenches, Parses
<1>8. Rooted(planned, rec) /\ Rooted(planned, disk.rec)
  BY <1>4, <1>6 DEF Rooted, Inherits
<1>9. bound \in Workbenches /\ Rooted(bound, rec) /\ Rooted(bound, disk.rec)
  <2> HIDE DEF planned, plan
  <2> QED
    BY <1>1, <1>5, <1>6, <1>7, <1>8, BoundWorkbench
<1> HIDE DEF t, r, planned, bound, plan
<1>10. \A else \in {"none", "discard"} : Calm(AdoptSteps(else))
  <2> SUFFICES ASSUME NEW else \in {"none", "discard"} PROVE Calm(AdoptSteps(else))
    OBVIOUS
  <2>1. ASSUME NEW R \in {rec, disk.rec}
        PROVE  AdoptSteps(else) \in Seq(Effects(Imported, R))
    <3>1. Unneeded(Imported, planned) /\ Unneeded(Imported, bound)
      BY UnneededLast
    <3>2. SetWb(planned) \in Effects(Imported, R) /\ SetWb(bound) \in Effects(Imported, R)
      BY <3>1, <1>7, <1>8, <1>9, WbDeed
    <3>3. Save(Imported, else) \in Effects(Imported, R)
      BY <1>1, FileDeed
    <3>4. AdoptSteps(else) = IF Bound(Imported) THEN <<>>
             ELSE <<SetWb(planned), Save(Imported, else), SetWb(bound), Save(Imported, else)>>
      BY DEF AdoptSteps, planned, bound, plan
    <3> QED
      BY <3>2, <3>3, <3>4
  <2> QED
    BY <2>1 DEF Calm
<1>11. Calm(<<SetTree(Imported, t, "none"), SetRec(Imported, r, "none"), WriteIndex(Imported, "unpublish")>>)
  <2>1. \A R \in {rec, disk.rec} :
            /\ SetTree(Imported, t, "none") \in Effects(Imported, R)
            /\ SetRec(Imported, r, "none") \in Effects(Imported, R)
            /\ WriteIndex(Imported, "unpublish") \in Effects(Imported, R)
    BY <1>1, <1>2, <1>3, RecDeed, TreeDeed, FileDeed
  <2> QED
    BY <2>1 DEF Calm
<1>12. Calm(<<SetTree(Imported, t, "none"), SetRec(Imported, r, "none"), WriteIndex(Imported, "unpublish")>>
            \o AdoptSteps("discard"))
  BY <1>10, <1>11, CalmConcat
<1>13. Idle /\ (\/ Do(<<SetTree(Imported, t, "none"), SetRec(Imported, r, "none"), WriteIndex(Imported, "unpublish")>>
                      \o AdoptSteps("discard"))
               \/ Do(AdoptSteps("none")))
  BY DEF Import, t, r
<1> QED
  BY <1>10, <1>12, <1>13, CalmStep

-------------------------------------------------------------------------------
(* Repair: the binding to the parent is made over records on disk.         *)
LEMMA Prefix ==
    ASSUME NEW S, NEW s \in Seq(S), NEW t \in Seq(S), 3 <= Len(s)
    PROVE  3 <= Len(s \o t) /\ \A i \in 1 .. 3 : (s \o t)[i] = s[i]
<1>1. Len(s) \in Nat /\ Len(t) \in Nat
  BY LenProperties
<1>2. Len(s \o t) = Len(s) + Len(t)
  BY ConcatProperties
<1>3. \A i \in 1 .. Len(s) + Len(t) : (s \o t)[i] = IF i <= Len(s) THEN s[i] ELSE t[i - Len(s)]
  BY ConcatProperties
<1> QED
  BY <1>1, <1>2, <1>3

LEMMA BindIs ==
    ASSUME NEW S, NEW T, NEW F, NEW v \in [specs : S, plans : T, bind : F], NEW p, NEW d, NEW b,
           NEW x, x = [v EXCEPT !.plans = @ \cup {p}, !.bind[d] = b]
    PROVE  x = [specs |-> v.specs, plans |-> v.plans \cup {p}, bind |-> [v.bind EXCEPT ![d] = b]]
  OBVIOUS

LEMMA RepairKeeps ==
    ASSUME AuthoringInv, NEW c \in Generated, Repair(c)
    PROVE  AuthoringInv'
<1> DEFINE child == c + 1
           plan == IF Bound(c) THEN wb.bind[c].plan ELSE Plan("inherited", c)
           spec == IF Bound(c) THEN wb.bind[c].spec ELSE LegacySpec
           bare == Record("planned", FALSE, NoDigest, rec[c].model)
           b == Binding(plan, c, rec[c].digest, spec)
           w == [wb EXCEPT !.plans = @ \cup {plan}, !.bind[child] = b]
           create == CreateSteps(child, rec[c].model, "none")
           bind == <<SetWb(w)>>
           write == WriteSteps(child, [tree[c] EXCEPT !.model = rec[c].model], bare, "rollback")
           save == <<Save(child, "rollback")>>
<1>1. /\ c \in RevisionIds /\ child \in RevisionIds /\ child # Imported /\ c # Imported /\ child \in 2 .. Imported
      /\ c \in Nat /\ child \in Nat /\ c < child
  BY RevisionNumbers DEF Repair
<1>2. /\ Idle /\ rec[child] = NoRecord /\ rec[c] # NoRecord /\ tree[c] # NoRecord
      /\ SnapshotDigest(c, tree[c]) = rec[c].digest
      /\ Do(create \o bind \o write \o save)
  BY DEF Repair, Repairable
<1>3. rec[c] \in Records(c) /\ tree[c] \in CandidateTrees /\ rec[c].model \in Models
  BY <1>1, <1>2, RecordIs, TreeIs DEF Records
<1>4. rec[c].digest \in DigestsOf(c)
  BY <1>1, <1>2, <1>3, NothingAssumption DEF Records
<1>5. wb \in Workbenches /\ disk.wb \in Workbenches /\ Rooted(wb, rec) /\ Rooted(disk.wb, rec) /\ rec \in RecordMaps
  BY DEF AuthoringInv, AuthoringTyped, AuthoringFiles
<1>6. /\ wb.plans \subseteq PlanIds /\ wb.bind \in [RevisionIds -> Bindings \cup {NoRecord}]
      /\ wb.specs \in 0 .. MaxSpecs /\ Parses(wb)
  BY <1>5 DEF Workbenches
<1>7. plan \in PlanIds /\ spec \in Nat /\ spec = SpecOf(plan)
  <2>1. CASE Bound(c)
    <3>1. wb.bind[c] \in Bindings /\ plan = wb.bind[c].plan /\ spec = wb.bind[c].spec
      BY <1>1, <1>6, <2>1 DEF Bound
    <3> QED
      BY <3>1, <1>1, <1>6, <2>1 DEF Bindings, Parses, Bound
  <2>2. CASE ~Bound(c)
    BY <2>2, <1>1, RevisionNumbers DEF Plan, PlanIds, SpecOf, LegacySpec
  <2> QED
    BY <2>1, <2>2
<1>8. b \in Bindings /\ b.plan = plan /\ b.parent = c /\ b.digest = rec[c].digest /\ b.spec = spec
  <2> HIDE DEF plan, spec
  <2> QED
    BY <1>1, <1>4, <1>7 DEF Binding, Bindings
<1>9. plan[1] = "inherited" => /\ plan[2] \in 1 .. c
                               /\ \A j \in plan[2] + 1 .. c : rec[j] # NoRecord
  <2>1. CASE Bound(c)
    <3> SUFFICES ASSUME plan[1] = "inherited"
                 PROVE  plan[2] \in 1 .. c /\ \A j \in plan[2] + 1 .. c : rec[j] # NoRecord
      OBVIOUS
    <3>1. Inherits(wb, c) /\ plan = wb.bind[c].plan
      BY <2>1 DEF Inherits, Bound
    <3>2. plan[2] \in 1 .. c - 1 /\ \A j \in plan[2] + 1 .. c - 1 : rec[j] # NoRecord
      BY <3>1, <1>1, <1>5 DEF Rooted
    <3> HIDE DEF plan
    <3> QED
      BY <3>2, <1>1, <1>2
  <2>2. CASE ~Bound(c)
    <3>1. plan[2] = c
      BY <2>2 DEF Plan
    <3> HIDE DEF plan
    <3> QED
      BY <3>1, <1>1, RevisionNumbers
  <2> QED
    BY <2>1, <2>2
<1> HIDE DEF plan, spec, b
<1>10. w = [specs |-> wb.specs, plans |-> wb.plans \cup {plan}, bind |-> [wb.bind EXCEPT ![child] = b]]
  <2>1. wb \in [specs : 0 .. MaxSpecs, plans : SUBSET PlanIds, bind : [RevisionIds -> Bindings \cup {NoRecord}]]
    BY <1>5 DEF Workbenches
  <2>2. w = [wb EXCEPT !.plans = @ \cup {plan}, !.bind[child] = b]
    BY DEF w
  <2> HIDE DEF child, w
  <2> QED
    BY ONLY <2>1, <2>2, BindIs
<1> HIDE DEF w
<1>11. \A e \in RevisionIds : w.bind[e] = IF e = child THEN b ELSE wb.bind[e]
  BY <1>1, <1>6, <1>10
<1>12. /\ w.bind \in [RevisionIds -> Bindings \cup {NoRecord}] /\ w.plans = wb.plans \cup {plan}
       /\ w.specs = wb.specs
  BY <1>1, <1>6, <1>8, <1>10
<1>13. Parses(w)
  BY <1>6, <1>7, <1>8, <1>11, <1>12 DEF Parses
<1>14. \A e \in RevisionIds : w.bind[e] # NoRecord /\ w.bind[e].parent # 0 =>
              /\ w.bind[e].parent \in RevisionIds /\ w.bind[e].parent < e
              /\ w.bind[e].digest \in DigestsOf(w.bind[e].parent)
  BY <1>1, <1>4, <1>5, <1>8, <1>11 DEF Workbenches
<1>15. w \in Workbenches
  BY <1>6, <1>7, <1>10, <1>12, <1>13, <1>14 DEF Workbenches
<1>16. Rooted(w, rec)
  <2> SUFFICES ASSUME NEW e \in RevisionIds, Inherits(w, e)
               PROVE  /\ e # Imported /\ w.bind[e].plan[2] \in 1 .. e - 1
                      /\ \A j \in w.bind[e].plan[2] + 1 .. e - 1 : rec[j] # NoRecord
    BY DEF Rooted
  <2>1. CASE e = child
    <3>1. w.bind[e].plan = plan /\ plan[1] = "inherited" /\ e - 1 = c
      BY <2>1, <1>1, <1>8, <1>11 DEF Inherits
    <3> HIDE DEF child
    <3> QED
      BY <3>1, <2>1, <1>1, <1>9
  <2>2. CASE e # child
    BY <2>2, <1>5, <1>11 DEF Rooted, Inherits
  <2> QED
    BY <2>1, <2>2
<1>17. Unneeded(child, w) /\ Unneeded(child, wb) /\ Unneeded(child, disk.wb)
  BY <1>1, <1>2, <1>5, <1>15, <1>16, UnneededNew
<1>18. bare \in Records(child) /\ [tree[c] EXCEPT !.model = rec[c].model] \in CandidateTrees
  BY <1>3, PlannedSound DEF SoundRecords, CandidateTrees
<1> HIDE DEF bare
<1>19. /\ create \in Seq(Effects(child, rec)) /\ write \in Seq(Effects(child, rec))
       /\ save \in Seq(Effects(child, rec)) /\ bind \in Seq(Effects(child, rec))
  <2>1. create \in Seq(Effects(child, rec))
    BY <1>1, <1>3, CreateDeeds
  <2>2. write \in Seq(Effects(child, rec))
    BY <1>1, <1>18, WriteDeeds
  <2>3. save \in Seq(Effects(child, rec))
    BY <1>1, SaveDeeds
  <2>4. SetWb(w) \in Effects(child, rec)
    BY <1>15, <1>16, <1>17, WbDeed
  <2> QED
    BY <2>1, <2>2, <2>3, <2>4
<1>20. create[3].do = "index" /\ Len(create) = 3 /\ 3 <= Len(create) /\ \A i \in 1 .. 3 : create[i].do # "wb"
  BY DEF CreateSteps, SetTree, SetRec, WriteIndex, Step
<1> DEFINE s == create \o bind \o write \o save
<1> HIDE DEF create, bind, write, save
<1>21. s \in Seq(Effects(child, rec))
  BY <1>19, ConcatProperties
<1>22. \A i \in 1 .. 3 : s[i] = create[i]
  <2>1. create \o bind \in Seq(Effects(child, rec)) /\ create \o bind \o write \in Seq(Effects(child, rec))
    BY <1>19, ConcatProperties
  <2>2. 3 <= Len(create \o bind) /\ \A i \in 1 .. 3 : (create \o bind)[i] = create[i]
    BY <1>19, <1>20, Prefix
  <2>3. 3 <= Len(create \o bind \o write) /\ \A i \in 1 .. 3 : (create \o bind \o write)[i] = (create \o bind)[i]
    BY <1>19, <2>1, <2>2, Prefix
  <2>4. \A i \in 1 .. 3 : s[i] = (create \o bind \o write)[i]
    BY <1>19, <2>1, <2>3, Prefix DEF s
  <2> QED
    BY <2>2, <2>3, <2>4
<1>23. Ordered(s, disk.rec)
  <2> SUFFICES ASSUME NEW i \in 1 .. Len(s), s[i].do = "wb"
               PROVE  \E j \in 1 .. i - 1 : s[j].do = "index"
    BY DEF Ordered
  <2>1. i \notin 1 .. 3 /\ Len(s) \in Nat
    <3>1. Len(s) \in Nat
      BY <1>21, LenProperties
    <3>2. i \notin 1 .. 3
      BY <1>20, <1>22
    <3> QED
      BY <3>1, <3>2
  <2>2. 3 \in 1 .. i - 1 /\ s[3].do = "index"
    BY <2>1, <1>20, <1>22
  <2> QED
    BY <2>2
<1>24. todo' = s /\ UNCHANGED <<rec, tree, wb, reports, last, approval, disk, up, lost>> /\ up
  BY <1>2 DEF Do, Idle
<1> HIDE DEF s
<1>25. Effecting'
  <2>1. (todo \in Seq(Effects(child, rec)))' /\ Ordered(todo, disk.rec)'
    BY <1>21, <1>23, <1>24 DEF Effects, Ordered, Rooted
  <2>2. Unneeded(child, wb)' /\ Unneeded(child, disk.wb)'
    BY <1>17, <1>24 DEF Unneeded, Inherits
  <2> HIDE DEF child
  <2> QED
    BY <2>1, <2>2, <1>1 DEF Effecting
<1>26. AuthoringTyped'
  BY <1>24 DEF AuthoringInv, AuthoringTyped
<1>27. (\A x \in {wb, disk.wb} : \A r \in {rec, disk.rec} : Rooted(x, r))'
  BY <1>24 DEF AuthoringInv
<1> QED
  BY <1>25, <1>26, <1>27 DEF AuthoringInv

-------------------------------------------------------------------------------
(* The effects.                                                            *)
LEMMA UnbindIs ==
    ASSUME NEW S, NEW T, NEW F, NEW v \in [specs : S, plans : T, bind : F], NEW P, NEW d, NEW b,
           NEW x, x = [v EXCEPT !.plans = P, !.bind[d] = b]
    PROVE  x = [specs |-> v.specs, plans |-> P, bind |-> [v.bind EXCEPT ![d] = b]]
  OBVIOUS

LEMMA LeftIs ==
    ASSUME NEW S, NEW T, NEW D, NEW F, NEW v \in [specs : S, plans : T, bind : [D -> F]], NEW d \in D,
           NEW x, x = [v EXCEPT !.bind[d].leftover = TRUE]
    PROVE  x = [specs |-> v.specs, plans |-> v.plans,
                bind |-> [v.bind EXCEPT ![d] = [v.bind[d] EXCEPT !.leftover = TRUE]]]
  OBVIOUS

LEMMA HandlerDeeds ==
    ASSUME AuthoringInv, NEW c \in 2 .. Imported, Unneeded(c, wb), NEW R \in {rec, disk.rec},
           NEW name \in {"none", "rollback", "leftover", "unpublish", "discard"}, NEW d \in Nat,
           name # "none" => d = c
    PROVE  Handler(name, d) \in Seq(Effects(c, R))
<1>1. c \in RevisionIds /\ c \in Nat
  BY RevisionNumbers DEF RevisionIds, Imported
<1>2. wb \in Workbenches /\ Rooted(wb, R) /\ wb.bind \in [RevisionIds -> Bindings \cup {NoRecord}]
  BY DEF AuthoringInv, AuthoringTyped, Workbenches
<1>3. \A e \in {"none", "leftover"} :
          /\ SetTree(c, NoRecord, e) \in Effects(c, R) /\ SetRec(c, NoRecord, e) \in Effects(c, R)
          /\ WriteIndex(c, e) \in Effects(c, R) /\ Save(c, e) \in Effects(c, R)
  BY <1>1, TreeDeed, RecDeed, FileDeed
<1>4. SetWb(Unlinked(c)) \in Effects(c, R)
  <2> DEFINE x == Unlinked(c)
             dropped(p) == p[1] = "inherited" /\ p[2] + 1 = c
  <2>1. x = [specs |-> wb.specs, plans |-> {p \in wb.plans : ~dropped(p)}, bind |-> [wb.bind EXCEPT ![c] = NoRecord]]
    <3>1. wb \in [specs : 0 .. MaxSpecs, plans : SUBSET PlanIds, bind : [RevisionIds -> Bindings \cup {NoRecord}]]
      BY <1>2 DEF Workbenches
    <3>2. x = [wb EXCEPT !.plans = {p \in wb.plans : ~(p[1] = "inherited" /\ p[2] + 1 = c)}, !.bind[c] = NoRecord]
      BY DEF Unlinked
    <3> HIDE DEF x
    <3>3. PICK P : P = {p \in wb.plans : ~(p[1] = "inherited" /\ p[2] + 1 = c)}
      OBVIOUS
    <3>4. x = [specs |-> wb.specs, plans |-> P, bind |-> [wb.bind EXCEPT ![c] = NoRecord]]
      BY ONLY <3>1, <3>2, <3>3, UnbindIs
    <3> QED
      BY <3>3, <3>4
  <2> HIDE DEF x
  <2>2. \A e \in RevisionIds : x.bind[e] = IF e = c THEN NoRecord ELSE wb.bind[e]
    BY <1>1, <1>2, <2>1
  <2>3. x.bind \in [RevisionIds -> Bindings \cup {NoRecord}] /\ x.plans \subseteq wb.plans
    BY <1>1, <1>2, <2>1
  <2>4. ASSUME NEW e \in RevisionIds, x.bind[e] # NoRecord
        PROVE  ~dropped(wb.bind[e].plan)
    <3> SUFFICES ASSUME dropped(wb.bind[e].plan) PROVE FALSE
      OBVIOUS
    <3>1. e # c /\ Inherits(wb, e)
      BY <2>2, <2>4 DEF Inherits
    <3>2. wb.bind[e].plan[2] \in 1 .. e - 1
      BY <1>2, <3>1 DEF Rooted
    <3>3. e > c
      BY <1>1, <3>1, <3>2, RevisionNumbers
    <3>4. wb.bind[e].plan[2] >= c
      BY <3>1, <3>3 DEF Unneeded
    <3> QED
      BY <1>1, <3>2, <3>4, RevisionNumbers
  <2>5. Parses(x)
    <3> HIDE DEF dropped
    <3> QED
      BY <1>2, <2>1, <2>2, <2>4 DEF Parses, Workbenches
  <2>6. \A e \in RevisionIds : x.bind[e] # NoRecord /\ x.bind[e].parent # 0 =>
              /\ x.bind[e].parent \in RevisionIds /\ x.bind[e].parent < e
              /\ x.bind[e].digest \in DigestsOf(x.bind[e].parent)
    BY <1>2, <2>2 DEF Workbenches
  <2>7. x \in Workbenches
    BY <1>2, <2>1, <2>3, <2>5, <2>6 DEF Workbenches
  <2>8. Rooted(x, R) /\ Unneeded(c, x)
    BY <1>2, <2>2 DEF Rooted, Unneeded, Inherits
  <2> QED
    BY <2>7, <2>8, WbDeed DEF x
<1>5. SetWb(Leftover(c)) \in Effects(c, R)
  <2>1. CASE ~Bound(c)
    BY <1>2, <2>1, WbDeed DEF Leftover
  <2>2. CASE Bound(c)
    <3> DEFINE x == [wb EXCEPT !.bind[c].leftover = TRUE]
               b == [wb.bind[c] EXCEPT !.leftover = TRUE]
    <3>1. wb.bind[c] \in Bindings
      BY <1>1, <1>2, <2>2 DEF Bound
    <3>2. /\ b \in Bindings /\ b.plan = wb.bind[c].plan /\ b.parent = wb.bind[c].parent
          /\ b.digest = wb.bind[c].digest /\ b.spec = wb.bind[c].spec
      BY <3>1 DEF Bindings
    <3>3. x = [specs |-> wb.specs, plans |-> wb.plans, bind |-> [wb.bind EXCEPT ![c] = b]]
      <4>1. wb \in [specs : 0 .. MaxSpecs, plans : SUBSET PlanIds, bind : [RevisionIds -> Bindings \cup {NoRecord}]]
        BY <1>2 DEF Workbenches
      <4>2. x = [wb EXCEPT !.bind[c].leftover = TRUE]
        OBVIOUS
      <4> HIDE DEF x
      <4> QED
        BY <4>1, <4>2, <1>1, LeftIs
    <3> HIDE DEF x, b
    <3>4. /\ x.bind \in [RevisionIds -> Bindings \cup {NoRecord}] /\ x.plans = wb.plans /\ x.specs = wb.specs
          /\ \A e \in RevisionIds : x.bind[e] = IF e = c THEN b ELSE wb.bind[e]
      BY <1>1, <1>2, <3>2, <3>3
    <3>5. x \in Workbenches
      BY <1>2, <2>2, <3>2, <3>3, <3>4 DEF Workbenches, Parses, Bound
    <3>6. \A e \in RevisionIds : /\ Inherits(x, e) => Inherits(wb, e)
                                 /\ Inherits(wb, e) => x.bind[e].plan = wb.bind[e].plan
      BY <2>2, <3>2, <3>4 DEF Inherits, Bound
    <3>7. Rooted(x, R) /\ Unneeded(c, x)
      BY <1>2, <3>6 DEF Rooted, Unneeded
    <3>8. SetWb(x) \in Effects(c, R)
      BY <3>5, <3>7, WbDeed
    <3> QED
      BY <2>2, <3>8 DEF Leftover, x
  <2> QED
    BY <2>1, <2>2
<1>6. CASE name = "none"
  BY <1>6 DEF Handler
<1>7. CASE name # "none"
  <2>1. d = c
    BY <1>7
  <2>2. CASE name = "rollback"
    BY <2>1, <2>2, <1>3, <1>4 DEF Handler
  <2>3. CASE name = "leftover"
    BY <2>1, <2>3, <1>3, <1>5 DEF Handler
  <2>4. CASE name = "unpublish"
    BY <2>1, <2>4, <1>3 DEF Handler
  <2>5. CASE name = "discard"
    BY <2>1, <2>5, <1>3 DEF Handler
  <2> QED
    BY <1>7, <2>2, <2>3, <2>4, <2>5
<1> QED
  BY <1>6, <1>7

(* What is left of a call after one effect of it.                          *)
LEMMA TailDeeds ==
    ASSUME NEW S, NEW s \in Seq(S), s # <<>>
    PROVE  /\ Head(s) \in S /\ Head(s) = s[1] /\ Tail(s) \in Seq(S) /\ 1 \in 1 .. Len(s) /\ Len(s) \in Nat
           /\ Len(Tail(s)) = Len(s) - 1 /\ \A i \in 1 .. Len(Tail(s)) : Tail(s)[i] = s[i + 1]
  OBVIOUS

LEMMA OrderedTail ==
    ASSUME NEW c, NEW R, NEW s \in Seq(Effects(c, R)), s # <<>>, NEW Q, Ordered(s, Q), Head(s).do # "index"
    PROVE  Ordered(Tail(s), Q)
<1>1. /\ Head(s) = s[1] /\ Len(s) \in Nat /\ Len(Tail(s)) = Len(s) - 1
      /\ \A i \in 1 .. Len(Tail(s)) : Tail(s)[i] = s[i + 1]
  BY TailDeeds
<1> SUFFICES ASSUME NEW i \in 1 .. Len(Tail(s)), Tail(s)[i].do = "wb", ~Rooted(Tail(s)[i].val, Q)
             PROVE  \E j \in 1 .. i - 1 : Tail(s)[j].do = "index"
  BY DEF Ordered
<1>2. i + 1 \in 1 .. Len(s) /\ s[i + 1].do = "wb" /\ ~Rooted(s[i + 1].val, Q)
  BY <1>1
<1>3. PICK j \in 1 .. i + 1 - 1 : s[j].do = "index"
  BY <1>2 DEF Ordered
<1>4. j # 1
  BY <1>1, <1>3
<1>5. j - 1 \in 1 .. i - 1 /\ j - 1 \in 1 .. Len(Tail(s)) /\ j - 1 + 1 = j
  BY <1>1, <1>4
<1>6. Tail(s)[j - 1] = s[j]
  BY <1>1, <1>5
<1> QED
  BY <1>3, <1>5, <1>6

(* A step of a call in Effecting, with the rest of the call unchanged.     *)
LEMMA ReportTail ==
    ASSUME NEW c, todo = ReviewSteps(c), todo # <<>>
    PROVE  Head(todo).do = "report" /\ Head(todo).at = c /\ Head(todo).val = ReportOf(c)
           /\ Tail(todo) = <<Step("lineage", 0, NoRecord, "none"), Step("generation", 0, NoRecord, "none")>>
  BY DEF ReviewSteps, Step

LEMMA ChangeRecordKeeps ==
    ASSUME AuthoringInv, ChangeRecord
    PROVE  AuthoringInv'
<1>1. todo # <<>> /\ Head(todo).do = "rec" /\ todo' = Tail(todo) /\ up
      /\ rec' = [rec EXCEPT ![Head(todo).at] = Head(todo).val]
      /\ UNCHANGED <<tree, wb, reports, last, approval, disk, up, lost, left>>
  BY DEF ChangeRecord, Next_
<1>2. PICK c \in 2 .. Imported : /\ todo \in Seq(Effects(c, rec)) /\ Ordered(todo, disk.rec)
                                 /\ Unneeded(c, wb) /\ Unneeded(c, disk.wb)
  BY <1>1, ReportTail DEF AuthoringInv, Reviewing, Effecting
<1>3. PICK d, v : d = Head(todo).at /\ v = Head(todo).val
  OBVIOUS
<1>4. Head(todo) \in Effects(c, rec) /\ Tail(todo) \in Seq(Effects(c, rec))
  BY <1>1, <1>2, TailDeeds
<1>5. d \in RevisionIds /\ v \in SoundRecords(d) \cup {NoRecord} /\ (v = NoRecord => d = c)
  BY <1>1, <1>3, <1>4 DEF Effects
<1>6. rec' = [rec EXCEPT ![d] = v] /\ rec \in RecordMaps /\ wb \in Workbenches /\ disk.wb \in Workbenches
  BY <1>1, <1>3 DEF AuthoringInv, AuthoringTyped, AuthoringFiles
<1>7. rec' \in RecordMaps
  BY <1>5, <1>6 DEF RecordMaps
<1>8. \A w \in Workbenches : Rooted(w, rec) /\ Unneeded(c, w) => Rooted(w, rec')
  BY <1>5, <1>6, RootedKept
<1>9. Effects(c, rec) \subseteq Effects(c, rec')
  BY <1>8 DEF Effects
<1>10. Tail(todo) \in Seq(Effects(c, rec'))
  BY <1>4, <1>9
<1>11. Ordered(Tail(todo), disk.rec)
  BY <1>1, <1>2, OrderedTail
<1>12. Effecting'
  <2>1. Effects(c, rec)' = Effects(c, rec')
    BY DEF Effects, Rooted, Unneeded, Inherits
  <2>2. Ordered(todo, disk.rec)' = Ordered(todo', disk.rec)
    BY <1>1 DEF Ordered, Rooted
  <2>3. Unneeded(c, wb)' /\ Unneeded(c, disk.wb)'
    BY <1>1, <1>2 DEF Unneeded
  <2> QED
    BY <1>1, <1>10, <1>11, <2>1, <2>2, <2>3 DEF Effecting
<1>13. AuthoringTyped'
  BY <1>1, <1>7 DEF AuthoringInv, AuthoringTyped
<1>14. (\A x \in {wb, disk.wb} : \A r \in {rec, disk.rec} : Rooted(x, r))'
  BY <1>1, <1>2, <1>6, <1>8 DEF AuthoringInv
<1> QED
  BY <1>12, <1>13, <1>14 DEF AuthoringInv

LEMMA HeadDeed ==
    ASSUME AuthoringInv, todo # <<>>, Head(todo).do # "report"
    PROVE  \E c \in 2 .. Imported :
              /\ Head(todo) \in Effects(c, rec) /\ Tail(todo) \in Seq(Effects(c, rec))
              /\ todo \in Seq(Effects(c, rec)) /\ Ordered(todo, disk.rec)
              /\ Unneeded(c, wb) /\ Unneeded(c, disk.wb)
<1>1. PICK c \in 2 .. Imported : /\ todo \in Seq(Effects(c, rec)) /\ Ordered(todo, disk.rec)
                                 /\ Unneeded(c, wb) /\ Unneeded(c, disk.wb)
  BY ReportTail DEF AuthoringInv, Reviewing, Effecting
<1>2. Head(todo) \in Effects(c, rec) /\ Tail(todo) \in Seq(Effects(c, rec))
  BY <1>1, TailDeeds
<1> QED
  BY <1>1, <1>2

(* An effect that touches neither the records nor the index.               *)
LEMMA QuietStep ==
    ASSUME AuthoringInv, NEW c \in 2 .. Imported, Tail(todo) \in Seq(Effects(c, rec)),
           todo \in Seq(Effects(c, rec)), Ordered(todo, disk.rec), todo # <<>>, Head(todo).do # "index",
           todo' = Tail(todo), rec' = rec, disk'.rec = disk.rec,
           Unneeded(c, wb'), Unneeded(c, disk'.wb)
    PROVE  Effecting'
<1>1. Ordered(Tail(todo), disk.rec)
  BY OrderedTail
<1>2. Effects(c, rec)' = Effects(c, rec)
  BY DEF Effects, Rooted
<1>3. Ordered(todo, disk.rec)' = Ordered(todo', disk.rec)
  BY DEF Ordered, Rooted
<1>4. Unneeded(c, wb)' /\ Unneeded(c, disk.wb)'
  BY DEF Unneeded, Inherits
<1> QED
  BY <1>1, <1>2, <1>3, <1>4 DEF Effecting

LEMMA ChangeTreeKeeps ==
    ASSUME AuthoringInv, ChangeTree
    PROVE  AuthoringInv'
<1>1. todo # <<>> /\ Head(todo).do = "tree" /\ todo' = Tail(todo) /\ up
      /\ tree' = [tree EXCEPT ![Head(todo).at] = Head(todo).val]
      /\ UNCHANGED <<rec, wb, reports, last, approval, disk, up, lost, left>>
  BY DEF ChangeTree, Next_
<1>2. PICK c \in 2 .. Imported :
              /\ Head(todo) \in Effects(c, rec) /\ Tail(todo) \in Seq(Effects(c, rec))
              /\ todo \in Seq(Effects(c, rec)) /\ Ordered(todo, disk.rec)
              /\ Unneeded(c, wb) /\ Unneeded(c, disk.wb)
  BY <1>1, HeadDeed
<1>3. Head(todo).at \in RevisionIds /\ Head(todo).val \in CandidateTrees \cup {NoRecord}
  BY <1>1, <1>2 DEF Effects
<1>4. Effecting'
  BY <1>1, <1>2, QuietStep
<1>5. AuthoringTyped'
  BY <1>1, <1>3 DEF AuthoringInv, AuthoringTyped
<1>6. (\A x \in {wb, disk.wb} : \A r \in {rec, disk.rec} : Rooted(x, r))'
  BY <1>1 DEF AuthoringInv
<1> QED
  BY <1>4, <1>5, <1>6 DEF AuthoringInv

LEMMA ChangeWorkbenchKeeps ==
    ASSUME AuthoringInv, ChangeWorkbench
    PROVE  AuthoringInv'
<1>1. todo # <<>> /\ Head(todo).do = "wb" /\ todo' = Tail(todo) /\ up
      /\ wb' = Head(todo).val
      /\ UNCHANGED <<rec, tree, reports, last, approval, disk, up, lost, left>>
  BY DEF ChangeWorkbench, Next_
<1>2. PICK c \in 2 .. Imported :
              /\ Head(todo) \in Effects(c, rec) /\ Tail(todo) \in Seq(Effects(c, rec))
              /\ todo \in Seq(Effects(c, rec)) /\ Ordered(todo, disk.rec)
              /\ Unneeded(c, wb) /\ Unneeded(c, disk.wb)
  BY <1>1, HeadDeed
<1>3. wb' \in Workbenches /\ Rooted(wb', rec) /\ Unneeded(c, wb')
  BY <1>1, <1>2 DEF Effects
<1>4. Rooted(wb', disk.rec)
  <2>1. 1 \in 1 .. Len(todo) /\ todo[1] = Head(todo)
    BY <1>1, <1>2, TailDeeds
  <2> QED
    BY <1>1, <1>2, <2>1 DEF Ordered
<1>5. Effecting'
  BY <1>1, <1>2, <1>3, QuietStep
<1>6. AuthoringTyped'
  BY <1>1, <1>3 DEF AuthoringInv, AuthoringTyped
<1>7. (\A x \in {wb, disk.wb} : \A r \in {rec, disk.rec} : Rooted(x, r))'
  <2>1. \A x \in {wb', disk.wb} : \A r \in {rec, disk.rec} : Rooted(x, r)
    BY <1>3, <1>4 DEF AuthoringInv
  <2> QED
    BY <1>1, <2>1 DEF Rooted, Inherits
<1> QED
  BY <1>5, <1>6, <1>7 DEF AuthoringInv

LEMMA PersistIndexKeeps ==
    ASSUME AuthoringInv, PersistIndex
    PROVE  AuthoringInv'
<1>1. todo # <<>> /\ Head(todo).do = "index" /\ todo' = Tail(todo) /\ up
      /\ disk' = [disk EXCEPT !.rec = rec]
      /\ UNCHANGED <<rec, tree, wb, reports, last, approval, up, lost, left>>
  BY DEF PersistIndex, Next_
<1>2. PICK c \in 2 .. Imported :
              /\ Head(todo) \in Effects(c, rec) /\ Tail(todo) \in Seq(Effects(c, rec))
              /\ todo \in Seq(Effects(c, rec)) /\ Ordered(todo, disk.rec)
              /\ Unneeded(c, wb) /\ Unneeded(c, disk.wb)
  BY <1>1, HeadDeed
<1>3. disk'.wb = disk.wb /\ disk'.lineage = disk.lineage /\ (disk'.rec = rec \/ disk'.rec = disk.rec)
  BY <1>1
<1>4. disk'.rec = rec /\ disk' \in AuthoringFiles
  BY <1>1 DEF AuthoringInv, AuthoringTyped, AuthoringFiles
<1>5. Effecting'
  <2>1. Tail(todo) \in Seq(Effects(c, rec)) /\ Ordered(Tail(todo), rec)
    BY <1>2, OrderedDeeds
  <2>2. Effects(c, rec)' = Effects(c, rec) /\ Ordered(todo, disk.rec)' = Ordered(todo', disk'.rec)
    BY <1>1 DEF Effects, Ordered, Rooted
  <2>3. Unneeded(c, wb)' /\ Unneeded(c, disk.wb)'
    BY <1>1, <1>2, <1>3 DEF Unneeded, Inherits
  <2> QED
    BY <1>1, <1>4, <2>1, <2>2, <2>3 DEF Effecting
<1>6. AuthoringTyped'
  BY <1>1, <1>4 DEF AuthoringInv, AuthoringTyped
<1>7. (\A x \in {wb, disk.wb} : \A r \in {rec, disk.rec} : Rooted(x, r))'
  BY <1>1, <1>3, <1>4 DEF AuthoringInv
<1> QED
  BY <1>5, <1>6, <1>7 DEF AuthoringInv

LEMMA PersistKeeps ==
    ASSUME AuthoringInv, PersistWorkbench \/ PersistLineage \/ PersistGeneration
    PROVE  AuthoringInv'
<1>1. /\ todo # <<>> /\ Head(todo).do \in {"save", "lineage", "generation"} /\ todo' = Tail(todo) /\ up
      /\ UNCHANGED <<rec, tree, wb, reports, last, approval, up, lost, left>>
  BY DEF PersistWorkbench, PersistLineage, PersistGeneration, Next_
<1>2. PICK c \in 2 .. Imported :
              /\ Head(todo) \in Effects(c, rec) /\ Tail(todo) \in Seq(Effects(c, rec))
              /\ todo \in Seq(Effects(c, rec)) /\ Ordered(todo, disk.rec)
              /\ Unneeded(c, wb) /\ Unneeded(c, disk.wb)
  BY <1>1, HeadDeed
<1>3. disk' \in AuthoringFiles /\ disk'.rec = disk.rec /\ disk'.wb \in {wb, disk.wb}
  <2>1. disk \in AuthoringFiles /\ wb \in Workbenches /\ reports \in Seq(AllReports)
    BY DEF AuthoringInv, AuthoringTyped
  <2>2. CASE PersistWorkbench
    BY <2>1, <2>2 DEF AuthoringFiles, PersistWorkbench
  <2>3. CASE PersistLineage
    BY <2>1, <2>3 DEF AuthoringFiles, PersistLineage
  <2>4. CASE PersistGeneration
    BY <2>1, <2>4 DEF AuthoringFiles, PersistGeneration
  <2> QED
    BY <2>2, <2>3, <2>4
<1>4. Effecting'
  BY <1>1, <1>2, <1>3, QuietStep
<1>5. AuthoringTyped'
  BY <1>1, <1>3 DEF AuthoringInv, AuthoringTyped
<1>6. (\A x \in {wb, disk.wb} : \A r \in {rec, disk.rec} : Rooted(x, r))'
  BY <1>1, <1>3 DEF AuthoringInv
<1> QED
  BY <1>4, <1>5, <1>6 DEF AuthoringInv

LEMMA ThrowKeeps ==
    ASSUME AuthoringInv, Throw
    PROVE  AuthoringInv'
<1>1. /\ todo # <<>> /\ Head(todo).do \in {"tree", "index", "save", "lineage", "generation"} /\ up
      /\ todo' = Handler(Head(todo).else, Head(todo).at)
      /\ UNCHANGED <<rec, tree, wb, reports, last, approval, disk, up, lost>>
  BY DEF Throw
<1>2. PICK c \in 2 .. Imported :
              /\ Head(todo) \in Effects(c, rec) /\ Tail(todo) \in Seq(Effects(c, rec))
              /\ todo \in Seq(Effects(c, rec)) /\ Ordered(todo, disk.rec)
              /\ Unneeded(c, wb) /\ Unneeded(c, disk.wb)
  BY <1>1, HeadDeed
<1>3. /\ Head(todo).else \in {"none", "rollback", "leftover", "unpublish", "discard"} /\ Head(todo).at \in Nat
      /\ Head(todo).else # "none" => Head(todo).at = c
  BY <1>2 DEF Effects, Deeds
<1>4. \A R \in {rec, disk.rec} : todo' \in Seq(Effects(c, R))
  BY <1>1, <1>2, <1>3, HandlerDeeds
<1>5. Ordered(todo', disk.rec)
  BY <1>4, OrderedDeeds
<1>6. Effecting'
  <2>1. Effects(c, rec)' = Effects(c, rec) /\ Ordered(todo, disk.rec)' = Ordered(todo', disk.rec)
    BY <1>1 DEF Effects, Ordered, Rooted
  <2>2. Unneeded(c, wb)' /\ Unneeded(c, disk.wb)'
    BY <1>1, <1>2 DEF Unneeded, Inherits
  <2> QED
    BY <1>4, <1>5, <2>1, <2>2 DEF Effecting
<1>7. AuthoringTyped'
  BY <1>1 DEF AuthoringInv, AuthoringTyped
<1>8. (\A x \in {wb, disk.wb} : \A r \in {rec, disk.rec} : Rooted(x, r))'
  BY <1>1 DEF AuthoringInv
<1> QED
  BY <1>6, <1>7, <1>8 DEF AuthoringInv

LEMMA NothingLeft ==
    ASSUME todo' = <<>>
    PROVE  Effecting'
<1>1. Unneeded(Imported, wb') /\ Unneeded(Imported, disk'.wb)
  BY UnneededLast
<1>2. Unneeded(Imported, wb)' /\ Unneeded(Imported, disk.wb)'
  BY <1>1 DEF Unneeded, Inherits
<1>3. (todo \in Seq(Effects(Imported, rec)))' /\ Ordered(todo, disk.rec)'
  BY DEF Ordered
<1>4. Imported \in 2 .. Imported
  BY RevisionNumbers
<1> QED
  BY <1>2, <1>3, <1>4 DEF Effecting

LEMMA DownKeeps ==
    ASSUME AuthoringInv, AuthoringCrash \/ LoseLineage
    PROVE  AuthoringInv'
<1>1. /\ todo' = <<>> /\ UNCHANGED <<rec, tree, wb, reports, last, approval, lost>>
      /\ up' = FALSE
  BY DEF AuthoringInv, AuthoringTyped, AuthoringCrash, LoseLineage
<1>2. disk' \in AuthoringFiles /\ disk'.rec = disk.rec /\ disk'.wb = disk.wb
  <2>1. disk \in AuthoringFiles /\ <<>> \in Seq(AllReports)
    BY DEF AuthoringInv, AuthoringTyped
  <2>2. CASE AuthoringCrash
    BY <2>1, <2>2 DEF AuthoringCrash
  <2>3. CASE LoseLineage
    BY <2>1, <2>3 DEF AuthoringFiles, LoseLineage
  <2> QED
    BY <2>2, <2>3
<1>3. Effecting'
  BY <1>1, NothingLeft
<1>4. AuthoringTyped'
  BY <1>1, <1>2 DEF AuthoringInv, AuthoringTyped
<1>5. (\A x \in {wb, disk.wb} : \A r \in {rec, disk.rec} : Rooted(x, r))'
  BY <1>1, <1>2 DEF AuthoringInv
<1> QED
  BY <1>3, <1>4, <1>5 DEF AuthoringInv

LEMMA BootKeeps ==
    ASSUME AuthoringInv, AuthoringBoot
    PROVE  AuthoringInv'
<1>1. /\ todo' = <<>> /\ rec' = disk.rec /\ wb' = disk.wb /\ up' = TRUE
      /\ reports' = disk.lineage.reports /\ UNCHANGED <<tree, approval>>
      /\ lost' \in BOOLEAN
  BY DEF AuthoringInv, AuthoringTyped, AuthoringBoot, AuthoringFiles
<1>2. /\ last' \in [RevisionIds -> {reports'[i] : i \in DOMAIN reports'} \cup {NoReport}]
      /\ \A c \in RevisionIds : IsLast(reports', c, last'[c])
  BY <1>1 DEF AuthoringBoot
<1>3. reports' \in Seq(AllReports) /\ disk \in AuthoringFiles
  BY <1>1 DEF AuthoringInv, AuthoringTyped, AuthoringFiles
<1>4. last' \in [RevisionIds -> AllReports \cup {NoReport}]
  BY <1>2, <1>3
<1>5. \A c \in RevisionIds : last'[c] \in Reports(c) \cup {NoReport}
  <2> SUFFICES ASSUME NEW c \in RevisionIds, last'[c] # NoReport
               PROVE  last'[c] \in Reports(c)
    OBVIOUS
  <2>1. last'[c].candidate = c /\ last'[c] \in AllReports
    BY <1>2, <1>4 DEF IsLast
  <2> QED
    BY <2>1 DEF AllReports, Reports
<1>6. disk' \in AuthoringFiles /\ disk'.rec = disk.rec /\ disk'.wb = disk.wb
  BY <1>3 DEF AuthoringBoot, AuthoringFiles
<1>7. Effecting'
  BY <1>1, NothingLeft
<1>8. AuthoringTyped'
  BY <1>1, <1>3, <1>4, <1>5, <1>6 DEF AuthoringInv, AuthoringTyped, AuthoringFiles
<1>9. (\A x \in {wb, disk.wb} : \A r \in {rec, disk.rec} : Rooted(x, r))'
  BY <1>1, <1>6 DEF AuthoringInv
<1> QED
  BY <1>7, <1>8, <1>9 DEF AuthoringInv

(* A report on a candidate: about it, at its digest, with blockers only.   *)
LEMMA ReportIs ==
    ASSUME AuthoringInv, NEW c \in RevisionIds, rec[c] # NoRecord
    PROVE  ReportOf(c) \in Reports(c)
<1>1. rec[c] \in Records(c)
  BY RecordIs
<1> DEFINE pkg == PackageOf(c)
           parent == HostParent(pkg, reports, last[c], ParentDigest(c))
<1>2. pkg.digest \in DigestsOf(c) \cup {NoDigest}
  BY <1>1 DEF PackageOf, Package, Records
<1>3. reports \in Seq(AllReports) /\ last[c] \in Reports(c) \cup {NoReport}
  BY DEF AuthoringInv, AuthoringTyped
<1>4. parent \in AllReports \cup {NoReport}
  <2>1. last[c] \in AllReports \cup {NoReport}
    BY <1>3 DEF AllReports
  <2>2. \A d : ReportFor(reports, d) \in AllReports \cup {NoReport}
    BY <1>3 DEF ReportFor
  <2> QED
    BY <2>1, <2>2 DEF HostParent
<1>5. Inherited(parent) \subseteq Claims
  BY <1>4 DEF Inherited, AllReports, Reports
<1>6. Carried(Inherited(parent), pkg) \subseteq Claims
  BY <1>5 DEF Carried
<1>7. Gates(pkg) \subseteq Claims /\ SemanticReview(pkg) \subseteq Claims
  BY DEF Gates, SemanticReview, Claims
<1>8. \A declared : Omissions(Inherited(parent), declared) \subseteq Claims
  BY DEF Omissions, Claims
<1>9. "invalid-parent-revision" \in Claims
  BY DEF Claims
<1>10. OpenFindings(pkg, reports, last[c], ParentDigest(c), Declared(c)) \subseteq Claims
  BY <1>6, <1>7, <1>8, <1>9 DEF OpenFindings
<1> QED
  BY <1>2, <1>10 DEF ReportOf, Reports

LEMMA RememberIs ==
    ASSUME NEW S, NEW s \in Seq(S), NEW report \in S
    PROVE  RememberReport(s, report) \in Seq(S)
<1>1. CASE report.digest = NoDigest
  BY <1>1 DEF RememberReport
<1>2. CASE report.digest # NoDigest /\ \E i \in DOMAIN s : s[i].digest = report.digest
  <2>1. RememberReport(s, report) = [i \in DOMAIN s |-> IF s[i].digest = report.digest THEN report ELSE s[i]]
    BY <1>2 DEF RememberReport
  <2>2. DOMAIN s = 1 .. Len(s) /\ Len(s) \in Nat
    BY LenProperties
  <2>3. RememberReport(s, report) \in [1 .. Len(s) -> S]
    BY <2>1, <2>2
  <2> QED
    BY <2>2, <2>3
<1>3. CASE report.digest # NoDigest /\ ~\E i \in DOMAIN s : s[i].digest = report.digest
  BY <1>3 DEF RememberReport
<1> QED
  BY <1>1, <1>2, <1>3

LEMMA ReviewingHead ==
    ASSUME AuthoringInv, todo # <<>>, Head(todo).do = "report"
    PROVE  Reviewing
<1> SUFFICES ASSUME Effecting PROVE FALSE
  BY DEF AuthoringInv
<1>1. PICK c \in 2 .. Imported : todo \in Seq(Effects(c, rec))
  BY DEF Effecting
<1>2. Head(todo) \in Effects(c, rec)
  BY <1>1, TailDeeds
<1> QED
  BY <1>2 DEF Effects, Deeds

LEMMA ChangeReportsKeeps ==
    ASSUME AuthoringInv, ChangeReports
    PROVE  AuthoringInv'
<1>1. /\ todo # <<>> /\ Head(todo).do = "report" /\ todo' = Tail(todo) /\ up
      /\ reports' = RememberReport(reports, Head(todo).val)
      /\ last' = [last EXCEPT ![Head(todo).at] = Head(todo).val]
      /\ UNCHANGED <<rec, tree, wb, approval, disk, up, lost, left>>
  BY DEF ChangeReports, Next_
<1>2. PICK c \in RevisionIds : rec[c] # NoRecord /\ todo = ReviewSteps(c)
  BY <1>1, ReviewingHead DEF Reviewing
<1>3. /\ Head(todo).at = c /\ Head(todo).val = ReportOf(c)
      /\ Tail(todo) = <<Step("lineage", 0, NoRecord, "none"), Step("generation", 0, NoRecord, "none")>>
  BY <1>1, <1>2, ReportTail
<1>4. ReportOf(c) \in Reports(c) /\ ReportOf(c) \in AllReports
  BY <1>2, ReportIs DEF AllReports
<1>5. reports' \in Seq(AllReports)
  BY <1>1, <1>3, <1>4, RememberIs DEF AuthoringInv, AuthoringTyped
<1>6. /\ last' \in [RevisionIds -> AllReports \cup {NoReport}]
      /\ \A d \in RevisionIds : last'[d] \in Reports(d) \cup {NoReport}
  BY <1>1, <1>3, <1>4 DEF AuthoringInv, AuthoringTyped
<1>7. Calm(Tail(todo))
  <2>1. NoRecord \in Values
    BY DEF Values
  <2>2. \A do \in {"lineage", "generation"} : Step(do, 0, NoRecord, "none") \in Deeds
    BY <2>1 DEF Step, Deeds
  <2>3. \A do \in {"lineage", "generation"} : \A R : Step(do, 0, NoRecord, "none") \in Effects(Imported, R)
    BY <2>2 DEF Step, Effects
  <2>4. \A R : <<Step("lineage", 0, NoRecord, "none"), Step("generation", 0, NoRecord, "none")>>
                  \in Seq(Effects(Imported, R))
    BY <2>3
  <2> QED
    BY <1>3, <2>4 DEF Calm
<1>8. Effecting'
  BY <1>1, <1>7, CalmEffecting
<1>9. AuthoringTyped'
  BY <1>1, <1>5, <1>6 DEF AuthoringInv, AuthoringTyped
<1>10. (\A x \in {wb, disk.wb} : \A r \in {rec, disk.rec} : Rooted(x, r))'
  BY <1>1 DEF AuthoringInv
<1> QED
  BY <1>8, <1>9, <1>10 DEF AuthoringInv

LEMMA InitInv ==
    ASSUME AuthoringInit
    PROVE  AuthoringInv
<1>1. /\ rec = [c \in RevisionIds |-> NoRecord] /\ tree = rec /\ wb = Empty /\ reports = <<>> /\ todo = <<>>
      /\ last = [c \in RevisionIds |-> NoReport] /\ approval = [c \in RevisionIds |-> "none"]
      /\ up = TRUE /\ lost = FALSE
      /\ disk = [rec |-> rec, wb |-> Empty, lineage |-> [present |-> FALSE, reports |-> <<>>], expected |-> FALSE]
  BY DEF AuthoringInit
<1>2. rec \in RecordMaps
  BY <1>1 DEF RecordMaps
<1>3. Empty \in Workbenches /\ \A r : Rooted(Empty, r)
  BY RevisionNumbers DEF Empty, Workbenches, Parses, Rooted, Inherits
<1>4. disk \in AuthoringFiles /\ disk.rec = rec /\ disk.wb = Empty
  BY <1>1, <1>2, <1>3 DEF AuthoringFiles
<1>5. AuthoringTyped
  <2>1. tree \in [RevisionIds -> CandidateTrees \cup {NoRecord}]
    BY <1>1
  <2>2. /\ last \in [RevisionIds -> AllReports \cup {NoReport}]
        /\ \A c \in RevisionIds : last[c] \in Reports(c) \cup {NoReport}
    BY <1>1
  <2>3. approval \in [RevisionIds -> {"none", "requested", "rejected"}]
    BY <1>1
  <2>4. reports \in Seq(AllReports)
    BY <1>1
  <2> QED
    BY <1>1, <1>2, <1>3, <1>4, <2>1, <2>2, <2>3, <2>4 DEF AuthoringTyped
<1>6. Effecting
  <2>1. todo \in Seq(Effects(Imported, rec)) /\ Ordered(todo, disk.rec)
    BY <1>1 DEF Ordered
  <2>2. Unneeded(Imported, wb) /\ Unneeded(Imported, disk.wb)
    BY UnneededLast
  <2> QED
    BY <2>1, <2>2, RevisionNumbers DEF Effecting
<1> QED
  BY <1>1, <1>3, <1>4, <1>5, <1>6 DEF AuthoringInv

LEMMA NextKeeps ==
    ASSUME AuthoringInv, [AuthoringNext]_authoringVars
    PROVE  AuthoringInv'
<1>1. CASE UNCHANGED authoringVars
  <2>1. UNCHANGED <<rec, tree, wb, reports, last, approval, disk, todo, up, lost>>
    BY <1>1 DEF authoringVars
  <2>2. AuthoringTyped'
    BY <2>1 DEF AuthoringInv, AuthoringTyped
  <2>3. (\A x \in {wb, disk.wb} : \A r \in {rec, disk.rec} : Rooted(x, r))'
    BY <2>1 DEF AuthoringInv
  <2>4. CASE Reviewing
    <3>1. PICK c \in RevisionIds : rec[c] # NoRecord /\ todo = ReviewSteps(c)
      BY <2>4 DEF Reviewing
    <3>2. ReviewSteps(c)' = ReviewSteps(c)
      BY <2>1 DEF ReviewSteps, ReportOf, PackageOf, ParentDigest, Declared, Bound
    <3>3. Reviewing'
      BY <2>1, <3>1, <3>2 DEF Reviewing
    <3> QED
      BY <2>2, <2>3, <3>3 DEF AuthoringInv
  <2>5. CASE Effecting
    <3>1. PICK c \in 2 .. Imported :
              /\ todo \in Seq(Effects(c, rec)) /\ Ordered(todo, disk.rec)
              /\ Unneeded(c, wb) /\ Unneeded(c, disk.wb)
      BY <2>5 DEF Effecting
    <3>2. Effects(c, rec)' = Effects(c, rec) /\ Ordered(todo, disk.rec)' = Ordered(todo, disk.rec)
      BY <2>1 DEF Effects, Ordered, Rooted
    <3>3. Unneeded(c, wb)' /\ Unneeded(c, disk.wb)'
      BY <2>1, <3>1 DEF Unneeded, Inherits
    <3>4. Effecting'
      BY <2>1, <3>1, <3>2, <3>3 DEF Effecting
    <3> QED
      BY <2>2, <2>3, <3>4 DEF AuthoringInv
  <2> QED
    BY <2>4, <2>5 DEF AuthoringInv
<1>2. CASE DefineSpecification
  BY <1>2, SpecificationKeeps
<1>3. CASE \E s \in 1 .. MaxSpecs : MakePlan(s) \/ \E m \in Models : Create(s, m)
  BY <1>3, PlanKeeps, CreateKeeps
<1>4. CASE \E c \in Generated :
              \/ \E code \in {"good", "broken"} : WriteFile(c, code)
              \/ \E m \in Models : SetManifest(c, m)
              \/ Scaffold(c) \/ Repair(c)
  BY <1>4, WriteFileKeeps, ManifestKeeps, ScaffoldKeeps, RepairKeeps
<1>5. CASE \E c \in RevisionIds : Validate(c) \/ Seal(c) \/ ReviewCandidate(c) \/ RequestApproval(c) \/ Reject(c)
  BY <1>5, ValidateKeeps, SealKeeps, ReviewKeeps, ApprovalKeeps
<1>6. CASE \E code \in {"good", "broken"} : Import(code)
  BY <1>6, ImportKeeps
<1>7. CASE ChangeRecord \/ ChangeTree \/ ChangeWorkbench \/ ChangeReports
  BY <1>7, ChangeRecordKeeps, ChangeTreeKeeps, ChangeWorkbenchKeeps, ChangeReportsKeeps
<1>8. CASE PersistIndex \/ PersistWorkbench \/ PersistLineage \/ PersistGeneration
  BY <1>8, PersistIndexKeeps, PersistKeeps
<1>9. CASE Throw \/ AuthoringCrash \/ LoseLineage \/ AuthoringBoot
  BY <1>9, ThrowKeeps, DownKeeps, BootKeeps
<1> QED
  BY <1>1, <1>2, <1>3, <1>4, <1>5, <1>6, <1>7, <1>8, <1>9 DEF AuthoringNext

(* Memory and disk agree with each other as the workbench needs it, at     *)
(* every step of every call, failed write, death and start.                *)
THEOREM AuthoringConsistent == AuthoringSpec => []AuthoringInv
<1>1. AuthoringInit => AuthoringInv
  BY InitInv
<1>2. AuthoringInv /\ [AuthoringNext]_authoringVars => AuthoringInv'
  BY NextKeeps
<1> QED
  BY <1>1, <1>2, PTL DEF AuthoringSpec

(* The workbench file is never one the next start refuses, and memory is   *)
(* never one that cannot be saved (DurableWorkbenchStore.save).            *)
THEOREM FilesResolve == AuthoringSpec => []BindingsResolve
<1>1. AuthoringInv => BindingsResolve
  BY DEF AuthoringInv, AuthoringTyped, AuthoringFiles, Workbenches, BindingsResolve
<1> QED
  BY <1>1, AuthoringConsistent, PTL

(* Approval is asked only for files that were validated as they are, the   *)
(* crashes and failed writes between a file and the index included         *)
(* (GovernanceService.approvalRequestDenials).                             *)
THEOREM RequestsSound == AuthoringSpec => RequestedSound
<1> DEFINE Asked(c) == approval[c] # "requested" /\ approval'[c] = "requested" /\ tree[c] # NoRecord
<1>1. ASSUME AuthoringInv, [AuthoringNext]_authoringVars, NEW c \in RevisionIds, Asked(c)
      PROVE  tree[c].code # "broken"
  <2>1. RequestApproval(c)
    <3>1. approval' # approval
      BY <1>1
    <3>2. ASSUME NEW d \in RevisionIds, RequestApproval(d)
          PROVE  RequestApproval(c)
      BY <1>1, <3>2 DEF RequestApproval, AuthoringInv, AuthoringTyped
    <3>3. ASSUME NEW d \in RevisionIds, Reject(d)
          PROVE  RequestApproval(c)
      BY <1>1, <3>3 DEF Reject, AuthoringInv, AuthoringTyped
    <3>4. \E d \in RevisionIds : RequestApproval(d) \/ Reject(d)
      <4> HIDE DEF Asked
      <4> QED
        BY <1>1, <3>1, ZenonT(60)
           DEF AuthoringNext, authoringVars, DefineSpecification, MakePlan, Create, WriteFile, SetManifest,
               Scaffold, Repair, Validate, Seal, ReviewCandidate, Import, Do, ChangeRecord, ChangeTree,
               ChangeWorkbench, ChangeReports, PersistIndex, PersistWorkbench, PersistLineage,
               PersistGeneration, Throw, AuthoringCrash, LoseLineage, AuthoringBoot
    <3> QED
      BY <3>2, <3>3, <3>4
  <2>2. /\ rec[c] # NoRecord /\ rec[c].life = "validated" /\ Digest(c, tree[c]) = rec[c].digest
    BY <1>1, <2>1 DEF RequestApproval, Eligible, LiveDigest
  <2>3. PICK t \in CandidateTrees : t.code # "broken" /\ rec[c].digest = Digest(c, t)
    BY <1>1, <2>2, RecordIs DEF SoundRecords
  <2> QED
    BY <2>2, <2>3 DEF Digest
<1>2. AuthoringInv /\ [AuthoringNext]_authoringVars =>
          [\A c \in RevisionIds : Asked(c) => tree[c].code # "broken"]_authoringVars
  BY <1>1
<1> QED
  BY <1>2, AuthoringConsistent, PTL DEF AuthoringSpec, RequestedSound

(* No review of a child completes over an open blocker of the last report  *)
(* on the digest its binding names (ReviewService.review,                  *)
(* resolveHostParent): that digest is one of an earlier revision, so the   *)
(* child's own last report can never stand in for it.                      *)
THEOREM BlockersStay == AuthoringSpec => BlockersCarried
<1> DEFINE Completes(c) ==
              /\ up /\ last'[c] # last[c] /\ Bound(c) /\ wb.bind[c].parent # 0
              /\ rec[c] # NoRecord /\ ReviewState(last'[c], rec[c].digest) = "review-complete"
           Answered(c) ==
              /\ rec[c].sealed
              /\ ReportFor(reports, wb.bind[c].digest) # NoReport
              /\ \A claim \in ReportFor(reports, wb.bind[c].digest).open :
                    \/ claim \in {"candidate-not-sealed", "missing-digest", "validation-not-passed"}
                    \/ claim = "retry" /\ rec[c].model = "sound"
<1>1. ASSUME AuthoringInv, [AuthoringNext]_authoringVars, NEW c \in Generated, Completes(c)
      PROVE  Answered(c)
  <2>1. c \in RevisionIds /\ last' # last /\ up
    BY <1>1, RevisionNumbers
  <2>2. ChangeReports
    <3> HIDE DEF Completes, Answered
    <3> QED
      BY <1>1, <2>1, ZenonT(60)
         DEF AuthoringNext, authoringVars, DefineSpecification, MakePlan, Create, WriteFile, SetManifest,
             Scaffold, Repair, Validate, Seal, ReviewCandidate, Import, Do, ChangeRecord, ChangeTree,
             ChangeWorkbench, RequestApproval, Reject, PersistIndex, PersistWorkbench, PersistLineage,
             PersistGeneration, Throw, AuthoringCrash, LoseLineage, AuthoringBoot
  <2>3. /\ todo # <<>> /\ Head(todo).do = "report"
        /\ last' = [last EXCEPT ![Head(todo).at] = Head(todo).val]
    BY <2>2 DEF ChangeReports, Next_
  <2>4. PICK d \in RevisionIds : rec[d] # NoRecord /\ todo = ReviewSteps(d)
    BY <1>1, <2>3, ReviewingHead DEF Reviewing
  <2>5. last' = [last EXCEPT ![d] = ReportOf(d)] /\ DOMAIN last = RevisionIds
    BY <1>1, <2>3, <2>4, ReportTail DEF AuthoringInv, AuthoringTyped
  <2>6. d = c /\ last'[c] = ReportOf(c) /\ rec[c] # NoRecord
    BY <1>1, <2>1, <2>5
  <2>7. ReportOf(c) \in Reports(c) /\ ReportOf(c) # NoReport
    BY <1>1, <2>1, <2>6, ReportIs, NothingAssumption
  <2> DEFINE pkg == PackageOf(c)
             claimed == wb.bind[c].digest
  <2>8. ReportOf(c).open = {}
    BY <1>1, <2>6, <2>7 DEF ReviewState
  <2>9. ParentDigest(c) = claimed /\ OpenFindings(pkg, reports, last[c], claimed, Declared(c)) = {}
    BY <1>1, <2>8 DEF ReportOf, ParentDigest
  <2>10. /\ Gates(pkg) = {} /\ ~InvalidParent(pkg, reports, last[c], claimed)
         /\ Carried(Inherited(HostParent(pkg, reports, last[c], claimed)), pkg) = {}
    BY <2>9 DEF OpenFindings
  <2>11. pkg.sealed = rec[c].sealed /\ pkg.model = rec[c].model
    BY DEF PackageOf, Package
  <2>12. rec[c].sealed
    BY <2>10, <2>11 DEF Gates
  <2>13. wb.bind[c].parent \in RevisionIds /\ wb.bind[c].parent < c /\ claimed \in DigestsOf(wb.bind[c].parent)
    BY <1>1, <2>1 DEF AuthoringInv, AuthoringTyped, Workbenches, Bound
  <2>14. claimed # NoDigest /\ claimed \notin DigestsOf(c)
    BY <2>1, <2>13, NothingAssumption, RevisionNumbers DEF DigestsOf, Digest
  <2>15. ~SameLineage(pkg, last[c])
    <3>1. last[c] \in Reports(c) \cup {NoReport}
      BY <1>1, <2>1 DEF AuthoringInv, AuthoringTyped
    <3> QED
      BY <2>10, <2>14, <3>1 DEF InvalidParent, SameLineage, Reports
  <2>16. ReportFor(reports, claimed) # NoReport
    BY <2>10, <2>14 DEF InvalidParent
  <2>17. HostParent(pkg, reports, last[c], claimed) = ReportFor(reports, claimed)
    BY <2>14, <2>15 DEF HostParent
  <2>18. \A claim \in ReportFor(reports, claimed).open : Evidence(claim, pkg)
    BY <2>10, <2>16, <2>17 DEF Carried, Inherited
  <2> QED
    BY <2>11, <2>12, <2>16, <2>18 DEF Evidence
<1>2. AuthoringInv /\ [AuthoringNext]_authoringVars =>
          [\A c \in Generated : Completes(c) => Answered(c)]_authoringVars
  BY <1>1
<1> QED
  BY <1>2, AuthoringConsistent, PTL DEF AuthoringSpec, BlockersCarried
===============================================================================
