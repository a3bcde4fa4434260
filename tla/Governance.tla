------------------------------- MODULE Governance -------------------------------
(***************************************************************************)
(* GovernanceService: trusted approval, activation, rollback, Safe Mode,   *)
(* disable and uninstall of isolated extensions, with the authority file   *)
(* they are persisted in, process crashes, the boot-time reconstruction    *)
(* and the runtime's failure callback.                                     *)
(*                                                                         *)
(* JavaScript runs one segment at a time, so an action is a whole segment  *)
(* from one wait on a child process to the next.  Thread "op" is the one   *)
(* lifecycle mutation (or the boot) in flight; thread c is the callback    *)
(* the runtime runs when the child of candidate c dies.                    *)
(***************************************************************************)
EXTENDS ActivationRuntime, Naturals

CONSTANTS
    None,         \* no candidate
    NoSnapshot,   \* an undefined snapshot
    Base,         \* [Candidates -> Rows \cup {None}], the assumed base version
    Legacy,       \* candidates sealed before the host authoring contract
    Dependents,   \* [Candidates -> SUBSET Rows], rows with a hard dependency on it
    MaxApprovals, MaxCrashes, MaxFatals, MaxDiskFaults, MaxTampers,  \* bounds
    MaxMishaps    \* and one on crashes, fatal exits and disk faults together

ASSUME GovernanceAssumption ==
    /\ {MaxApprovals, MaxCrashes, MaxFatals, MaxDiskFaults, MaxTampers, MaxMishaps} \subseteq Nat
    /\ None \notin Rows /\ "op" \notin Candidates
    /\ Base \in [Candidates -> Rows \cup {None}]
    /\ Legacy \subseteq Candidates
    /\ Dependents \in [Candidates -> SUBSET Rows]

(* The rows of a home that exists before this process: the registry's       *)
(* constructor refuses a record set in which two active rows clash.         *)
ASSUME HomeAssumption == ConflictFree((Rows \ Candidates) \cup Legacy)

VARIABLES
    registry,     \* the in-memory registry
    approvals,    \* the latest approval record of each candidate
    gov,          \* the governance fields that are persisted
    mutation,     \* the lifecycle mutation in flight, in memory only
    rt,           \* the runtime state
    deferred,     \* the authority store holds registry writes back
    disk,         \* authority.json, and what the store last meant to write
    up,           \* "down", "booting" or "up"
    th,           \* what each thread is waiting for
    intact,       \* candidates whose artifact still has its sealed digest
    blessed,      \* history: candidates a trusted authority ever approved
    spent         \* approvals, crashes, fatal exits, disk faults and tampers so far,
                  \* and those faults of this process that no handler answered

vars == <<registry, approvals, gov, mutation, rt, deferred, disk, up, th, intact, blessed, spent>>

Threads == {"op"} \cup Candidates

Snapshots == [owners : SUBSET Rows, mounted : SUBSET Candidates]

(* A rollback target that is undefined is no snapshot. *)
ASSUME SnapshotAssumption == NoSnapshot \notin Snapshots

NoFailure == [cand |-> None, rolledBack |-> FALSE, safeRequired |-> FALSE]

Failure(c, rolledBack, safeRequired) ==
    [cand |-> c, rolledBack |-> rolledBack, safeRequired |-> safeRequired]

(* Who a boot or recovery failure is recorded against. *)
Blamed(g) == IF g.pending = None THEN "restart" ELSE g.pending

ActivationStates == {"idle", "activation-pending", "activating", "active", "activation-failed",
                     "rollback-pending", "rolled-back", "safe-mode"}

Decisions == {"none", "approval-requested", "approved-for-exact-diff", "rejected", "superseded"}

(* snapshot of CordisActivationRuntime, over the active rows. *)
Capture(reg, r) == [owners |-> Active(reg), mounted |-> r.mounted]

HomeSnapshot == [owners |-> Rows \ Candidates, mounted |-> {}]

(* A home where `kept` was activated before this process. *)
HomeState(kept) ==
    LET snap == [owners |-> (Rows \ Candidates) \cup kept, mounted |-> kept]
    IN  [state |-> IF kept = {} THEN "idle" ELSE "active", pending |-> None, current |-> snap,
         lkg |-> snap, target |-> IF kept = {} THEN NoSnapshot ELSE HomeSnapshot,
         failure |-> NoFailure, safeMode |-> FALSE, integrity |-> kept # {}]

HomeRegistry(kept) ==
    [x \in Rows |-> IF x \in kept \/ x \notin Candidates THEN "active" ELSE "absent"]

(* The authority file.  The store keeps the governance sections of the last *)
(* flush, and writes them with its next change, even if that flush failed. *)
Sections(a, g) == [approvals |-> a, gov |-> g]

FileOf(reg, a, g) == [registry |-> reg, approvals |-> a, gov |-> g, store |-> Sections(a, g)]

HomeApprovals(kept) ==
    [c \in Candidates |-> IF c \in kept THEN [decision |-> "approved-for-exact-diff", fp |-> "whole"]
                                        ELSE [decision |-> "none", fp |-> "whole"]]

Resting == [pc |-> "idle", wait |-> FALSE, ok |-> TRUE, cand |-> None, snap |-> HomeSnapshot,
            owners |-> {}, prior |-> HomeState({}), todo |-> {}, drop |-> {}, start |-> None,
            held |-> {}, ret |-> "none", then |-> "none"]

(***************************************************************************)
(* Homes: a fresh one, or one upgraded with pre-contract extensions.       *)
(***************************************************************************)
Init ==
    \E kept \in {{}, Legacy} :
        /\ registry = HomeRegistry(kept)
        /\ approvals = HomeApprovals(kept)
        /\ gov = HomeState(kept)
        /\ disk = FileOf(HomeRegistry(kept), HomeApprovals(kept), HomeState(kept))
        /\ blessed = kept
        /\ mutation = "idle" /\ deferred = FALSE /\ up = "down"
        /\ rt = FreshRuntime
        /\ th = [t \in Threads |-> Resting]
        /\ intact = Candidates
        /\ spent = [approvals |-> 0, crashes |-> 0, fatals |-> 0, faults |-> 0, tampers |-> 0,
                     lost |-> 0]

-----------------------------------------------------------------------------
(* Waiting threads.                                                        *)

Goto(t, rec) == th' = [th EXCEPT ![t] = rec]

Rest(t) == Goto(t, Resting)

-----------------------------------------------------------------------------
(* Writes of the authority file: flush replaces every section in one       *)
(* atomic write; a registry change alone is written unless writes are      *)
(* deferred.                                                               *)

Flush == disk' = FileOf(registry', approvals', gov')

Saved(d) ==
    IF deferred' \/ registry' = registry THEN d
    ELSE [d EXCEPT !.registry = registry', !.approvals = d.store.approvals, !.gov = d.store.gov]

SaveRegistry(d) == disk' = Saved(d)

Bearable == spent.crashes + spent.fatals + spent.faults < MaxMishaps

WriteFails == Bearable /\ spent.faults < MaxDiskFaults

(* The flush throws and the operation goes on to answer that: the file is  *)
(* as it was, but the store has taken the new sections over.               *)
FlushAnswered(g) ==
    /\ WriteFails
    /\ spent' = [spent EXCEPT !.faults = @ + 1]
    /\ disk' = [disk EXCEPT !.store = Sections(approvals, g)]

(* The flush throws and the call ends with that error, wherever it stands. *)
FlushLost ==
    /\ WriteFails
    /\ spent' = [spent EXCEPT !.faults = @ + 1, !.lost = @ + 1]
    /\ disk' = [Saved(disk) EXCEPT !.store = Sections(approvals', gov')]
    /\ Rest("op")

-----------------------------------------------------------------------------
(* Predicates of the service.                                              *)

Fallback(g) == IF g.target # NoSnapshot THEN g.target ELSE g.lkg

RecoveryRequired(g) ==
    \/ g.state = "rollback-pending"
    \/ g.safeMode /\ g.failure.safeRequired /\ ~g.integrity
    \/ g.state = "activation-failed" /\ ~g.failure.rolledBack /\ ~g.integrity

(* assertMutationIdle *)
LifecycleIdle ==
    /\ up = "up" /\ mutation = "idle"
    /\ gov.state \notin {"activation-pending", "activating", "rollback-pending"}

(* The fingerprint covers the diff against the base row, when one is known. *)
Fingerprint(c) ==
    IF Base[c] = None THEN "whole" ELSE IF registry[Base[c]] = "absent" THEN "whole" ELSE "delta"

BaseHolds(c) ==
    LET active == {x \in Active(registry) : SameOwner(x, c)}
    IN  Base[c] # None =>
            \/ Base[c] \in active
            \/ active = {} /\ gov.safeMode /\ Base[c] \in Candidates /\ registry[Base[c]] = "disabled"

(* approvalRequestDenials is empty, for a sealed, validated and reviewed candidate. *)
MayRequest(c) == c \in intact /\ BaseHolds(c)

(* Fault: a pending request counts as an approval. *)
ApprovedOnRequest(c) ==
    approvals[c].decision \in {"approval-requested", "approved-for-exact-diff"} /\ approvals[c].fp = Fingerprint(c)

Approved(c) == approvals[c].decision = "approved-for-exact-diff" /\ approvals[c].fp = Fingerprint(c)

(* Fault: the base version is not checked again. *)
EligibleWithoutBase(c) == c \in intact /\ Approved(c) /\ ~RecoveryRequired(gov) /\ ~gov.safeMode

(* denials is empty *)
Eligible(c) ==
    /\ MayRequest(c)
    /\ Approved(c)
    /\ ConflictFree(Active(registry))
    /\ ~RecoveryRequired(gov)
    /\ ~gov.safeMode

(* verifyRestoredIntegrity *)
Restored(reg, target) ==
    /\ Active(reg) = target.owners
    /\ target.owners \cap Candidates \subseteq intact

(* Whether the child of c can be started and its tools registered. *)
Startable(c) == c \in intact \ Legacy

Evolves(c) == Base[c] # None

-----------------------------------------------------------------------------
(* How calls and the process end.                                          *)

(* Fault: the lock is not given back. *)
ReleaseLocked == mutation' = mutation /\ deferred' = FALSE /\ Rest("op")

(* finishAuthorityCommit and the `finally` that every mutation ends with.   *)
Release == mutation' = "idle" /\ deferred' = FALSE /\ Rest("op")

(* The process ends: its runners and pending calls are gone. *)
Halt == up' = "down" /\ rt' = FreshRuntime /\ th' = [t \in Threads |-> Resting]

(* Its memory is lost too: the next boot hydrates what the file holds.     *)
Die ==
    /\ Halt
    /\ registry' = disk.registry /\ approvals' = disk.approvals /\ gov' = disk.gov
    /\ mutation' = "idle" /\ deferred' = FALSE
    /\ disk' = [disk EXCEPT !.store = Sections(disk.approvals, disk.gov)]

(* Some thread only waits for a settled promise: nothing else runs first.  *)
Settled == \A t \in Threads : th[t].pc = "idle" \/ th[t].wait

(***************************************************************************)
(* runtime.restore(snap), taken by thread t with the fields `here`; when   *)
(* it ends the thread goes on at `ret`, with `ok` telling how it ended.    *)
(* restoreSnapshot also notes the owners the registry had before the call. *)
(***************************************************************************)
Restoring(t, here, ret, snap, reg, r) ==
    /\ rt' = BeginRestore(r, snap)
    /\ Goto(t, [here EXCEPT !.pc = "restore", !.wait = RestoreWaits(r, snap), !.ret = ret,
                            !.snap = snap, !.owners = Active(reg), !.todo = snap.mounted,
                            !.drop = Unwanted(r, snap)])

RestoreEnded(here, ok) ==
    [here EXCEPT !.pc = here.ret, !.wait = FALSE, !.ok = ok, !.todo = {}, !.drop = {},
                 !.start = None, !.ret = "none"]

(* The loop over the snapshot's candidates, up to its next wait. *)
RestoreLoop(t, r) ==
    LET missing == Restartable(r, th[t].todo) IN
    \/ /\ missing = {}
       /\ rt' = EndRestore(r, th[t].snap)
       /\ Goto(t, RestoreEnded(th[t], TRUE))
    \/ \E c \in missing :
          /\ rt' = Park(r, c, Evolves(c))
          /\ Goto(t, [th[t] EXCEPT !.pc = "restart", !.wait = TRUE, !.drop = {}, !.start = c,
                                   !.todo = @ \ {c}])

(* prepareGenerated failed: the child, or a tool that is still registered. *)
Clashes(c) == {clash \in BOOLEAN : clash => Startable(c) /\ ~ToolsFree(rt, c)}

(* What restoreSnapshot leaves in the registry. *)
RestoredRegistry(t) == ApplyOwners(registry, IF th[t].ok THEN th[t].snap.owners ELSE th[t].owners)

(* failClosedSafeMode up to its wait: no generated row stays active.        *)
FailingClosed(t, here, pc, reg, g, r) ==
    /\ registry' = DisableGenerated(reg)
    /\ gov' = [g EXCEPT !.safeMode = TRUE, !.state = "safe-mode", !.integrity = FALSE,
                        !.current = Capture(DisableGenerated(reg), r)]
    /\ rt' = Unloading(r, Candidates)
    /\ Goto(t, [here EXCEPT !.pc = pc, !.wait = UnloadWaits(r, Candidates), !.drop = r.generated])

(* committedActivationSnapshot *)
Committed(g) == IF g.state \in {"active", "rolled-back"} THEN g.current ELSE g.lkg

(* Fault: only candidates whose row is active are mounted. *)
RemountableActive(g) == (Committed(g).owners \cap ActiveGenerated(registry)) \ Legacy

(* The committed candidates that are mounted, once found intact.            *)
Remountable(g) == (Committed(g).owners \cap Candidates) \ Legacy

(***************************************************************************)
(* remountCommittedGenerated up to its first wait, from registry reg,      *)
(* fields g, runtime r and authority file d: skipped in Safe Mode, fails   *)
(* closed on a missing artifact or an active row outside the committed     *)
(* snapshot, and otherwise mounts every committed candidate but the        *)
(* pre-contract ones, which it disables.                                   *)
(***************************************************************************)
Remounting(t, here, then, reg, g, r, d) ==
    LET targets  == Committed(g).owners \cap Candidates
        held     == targets \cap Legacy \cap intact
        sound    == targets \subseteq intact /\ ActiveGenerated(reg) \subseteq targets
        withheld == SetStatus(reg, held, "disabled")
        go       == [here EXCEPT !.then = then, !.todo = {}, !.held = {}]
    IN  /\ \/ /\ g.safeMode
              /\ registry' = reg /\ gov' = g /\ rt' = r
              /\ Goto(t, [go EXCEPT !.pc = "mounted", !.wait = FALSE])
           \/ ~g.safeMode /\ ~sound /\ FailingClosed(t, go, "close", withheld, g, r)
           \/ /\ ~g.safeMode /\ sound
              /\ registry' = withheld /\ rt' = r
              /\ gov' = IF held = {} THEN g ELSE [g EXCEPT !.failure = Failure(Blamed(g), FALSE, FALSE)]
              /\ Goto(t, [go EXCEPT !.pc = "mount", !.wait = FALSE, !.todo = Remountable(g), !.held = held])
        /\ SaveRegistry(d)

-----------------------------------------------------------------------------
(* Approvals: synchronous, and not held off by a mutation in flight.       *)

SpendApproval ==
    /\ spent.approvals < MaxApprovals
    /\ spent' = [spent EXCEPT !.approvals = @ + 1]

RequestApproval(c) ==
    /\ up = "up" /\ MayRequest(c) /\ ~Approved(c)
    /\ SpendApproval
    /\ approvals' = [approvals EXCEPT ![c] = [decision |-> "approval-requested", fp |-> Fingerprint(c)]]
    /\ UNCHANGED <<registry, gov, mutation, rt, deferred, up, th, intact, blessed>>
    /\ Flush

RecordApproval(c, decision) ==
    /\ up = "up"
    /\ SpendApproval
    /\ approvals' = [approvals EXCEPT ![c] = [decision |-> decision, fp |-> Fingerprint(c)]]
    /\ blessed' = IF decision = "rejected" THEN blessed ELSE blessed \cup {c}
    /\ UNCHANGED <<registry, gov, mutation, rt, deferred, up, th, intact>>
    /\ Flush

AbandonFailedActivation(c) ==
    /\ LifecycleIdle
    /\ gov.state = "activation-failed" /\ gov.pending = c /\ gov.failure.cand = c
    /\ ~gov.safeMode /\ ~RecoveryRequired(gov)
    /\ approvals[c].decision = "approved-for-exact-diff"
    /\ approvals' = [approvals EXCEPT ![c].decision = "superseded"]
    /\ gov' = [gov EXCEPT !.state = "rolled-back", !.pending = None]
    /\ UNCHANGED <<registry, mutation, rt, deferred, up, th, intact, blessed, spent>>
    /\ Flush

-----------------------------------------------------------------------------
(* activate                                                                *)

(* The first flush is not inside the try: if it throws, the call is over,  *)
(* but the mutation and the pending state stay.                            *)
ActivateStart(c) ==
    LET pending == [gov EXCEPT !.state = "activation-pending", !.pending = c, !.target = gov.lkg] IN
    /\ LifecycleIdle /\ Eligible(c)
    /\ mutation' = "activation"
    /\ UNCHANGED <<registry, approvals, deferred, up, intact, blessed>>
    /\ \/ /\ disk' = FileOf(registry, approvals, pending)
          /\ gov' = [pending EXCEPT !.state = "activating"]
          /\ rt' = Park(rt, c, Evolves(c))
          /\ Goto("op", [Resting EXCEPT !.pc = "prepare", !.cand = c, !.snap = gov.lkg, !.prior = gov,
                                        !.wait = c \notin rt.generated,
                                        !.start = IF c \in rt.generated THEN None ELSE c])
          /\ UNCHANGED spent
       \/ gov' = pending /\ UNCHANGED rt /\ FlushLost

(* The runtime once prepare has answered ok. *)
Prepared(c) ==
    {r \in {rt, Started(rt, c)} :
        \/ th["op"].start = None /\ r = rt
        \/ th["op"].start = c /\ Startable(c) /\ ToolsFree(rt, c) /\ r = Started(rt, c)}

ActivatePrepared ==
    LET c == th["op"].cand IN
    /\ th["op"].pc = "prepare"
    /\ UNCHANGED <<registry, approvals, gov, mutation, deferred, up, intact, blessed>>
    /\ \/ \E r \in Prepared(c) :
             \/ /\ rt' = r
                /\ Goto("op", [th["op"] EXCEPT !.pc = "health", !.wait = TRUE, !.start = None])
                /\ Flush /\ UNCHANGED spent
             \/ FlushAnswered(gov) /\ Restoring("op", th["op"], "undo", th["op"].snap, registry, r)
       \/ /\ th["op"].start = c
          /\ \E clash \in Clashes(c) :
                Restoring("op", th["op"], "undo", th["op"].snap, registry, StartFailed(rt, c, clash))
          /\ UNCHANGED <<disk, spent>>

(* verifyHealth answered; the registry commit follows in the same segment. *)
ActivateHealthy ==
    LET c == th["op"].cand IN
    /\ th["op"].pc = "health" /\ c \in rt.live \cap rt.generated
    /\ deferred' = TRUE
    /\ UNCHANGED <<approvals, gov, mutation, up, disk, intact, blessed, spent>>
    /\ \/ /\ MayCommit(registry, c)
          /\ registry' = CommitRow(registry, c)
          /\ rt' = DiscardParked(rt, {c})
          /\ Goto("op", [th["op"] EXCEPT !.pc = "commit", !.wait = rt.parked[c] # {}])
       \/ /\ ~MayCommit(registry, c)
          /\ registry' = SetStatus(registry, Outgoing(registry, c), "disabled")
          /\ Restoring("op", th["op"], "undo", th["op"].snap, registry', rt)

(* verifyHealth: what was mounted is not what the manifest declares. *)
ActivateUnhealthy ==
    /\ th["op"].pc = "health"
    /\ Restoring("op", th["op"], "undo", th["op"].snap, registry, rt)
    /\ UNCHANGED <<registry, approvals, gov, mutation, deferred, disk, up, intact, blessed, spent>>

(* Registry, runtime and LKG are committed by one write; if the write       *)
(* throws, the previous good snapshot is restored.                          *)
ActivateCommitted ==
    LET c    == th["op"].cand
        done == Capture(registry, Mounted(rt, c))
    IN
    /\ th["op"].pc = "commit"
    /\ gov' = [gov EXCEPT !.current = done, !.lkg = done, !.state = "active", !.pending = None,
                          !.failure = NoFailure, !.integrity = TRUE]
    /\ UNCHANGED <<registry, approvals, up, intact, blessed>>
    /\ \/ /\ rt' = Mounted(rt, c)
          /\ Release /\ Flush /\ UNCHANGED spent
       \/ /\ FlushAnswered(gov')
          /\ Restoring("op", th["op"], "undo", th["op"].snap, registry, Mounted(rt, c))
          /\ UNCHANGED <<mutation, deferred>>

(* The flush of the catch branch: if it throws, the deferral is not ended. *)
ActivateUndone ==
    LET ok == th["op"].ok IN
    /\ th["op"].pc = "undo"
    /\ registry' = RestoredRegistry("op")
    /\ gov' = [gov EXCEPT !.current = Capture(registry', rt), !.lkg = th["op"].snap,
                          !.state = "activation-failed",
                          !.failure = Failure(th["op"].cand, ok, ~ok), !.safeMode = @ \/ ~ok]
    /\ UNCHANGED <<approvals, rt, up, intact, blessed>>
    /\ \/ Release /\ Flush /\ UNCHANGED spent
       \/ mutation' = "idle" /\ UNCHANGED deferred /\ FlushLost

-----------------------------------------------------------------------------
(* rollback and finishRollback                                             *)

(* Fault: recovering puts the interrupted state back. *)
StartRollbackAgain(g, prior, r) ==
    /\ deferred' = TRUE
    /\ Restoring("op", [Resting EXCEPT !.prior = g, !.cand = None], "rollback", Fallback(g), registry, r)

(* finishRollback up to its wait; prior is what a failure puts back. *)
StartRollback(g, prior, r) ==
    /\ deferred' = TRUE
    /\ Restoring("op", [Resting EXCEPT !.prior = prior, !.cand = None], "rollback", Fallback(g), registry, r)

(* If the first flush throws, the finally gives the lock back, the state   *)
(* stays pending.                                                          *)
Rollback ==
    LET target  == Fallback(gov)
        pending == [gov EXCEPT !.state = "rollback-pending"]
    IN
    /\ LifecycleIdle
    /\ gov.current.owners # target.owners \/ RecoveryRequired(gov)
    /\ \A x \in target.owners : registry[x] # "absent"
    /\ target.owners \cap Candidates \subseteq intact
    /\ gov' = pending
    /\ UNCHANGED <<registry, approvals, up, intact, blessed>>
    /\ \/ /\ mutation' = "recovery" /\ StartRollback(pending, gov, rt)
          /\ Flush /\ UNCHANGED spent
       \/ mutation' = "idle" /\ UNCHANGED <<rt, deferred>> /\ FlushLost

(* A failed rollback first tries to put the prior snapshot back. *)
Recovering(here, g, reg, r) ==
    /\ gov' = g /\ registry' = reg
    /\ Restoring("op", here, "recover", here.prior.current, reg, r)

RollbackRestored ==
    LET target == th["op"].snap
        back   == [gov EXCEPT !.lkg = target, !.current = target, !.state = "rolled-back",
                              !.pending = None]
    IN
    /\ th["op"].pc = "rollback"
    /\ UNCHANGED <<approvals, mutation, deferred, up, intact, blessed, spent>>
    /\ \/ /\ th["op"].ok
          /\ Remounting("op", th["op"], "rollback", RestoredRegistry("op"), back, rt, disk)
       \/ /\ ~th["op"].ok
          /\ Recovering(th["op"], gov, RestoredRegistry("op"), rt) /\ SaveRegistry(disk)

(* The tail of finishRollback, once the committed candidates are mounted;  *)
(* at boot the reconstruction then goes on to its own remount.             *)
RollbackMounted ==
    LET ok   == Restored(registry, th["op"].snap)
        done == [gov EXCEPT !.current = Capture(registry, rt), !.integrity = ok]
    IN
    /\ th["op"].pc = "mounted" /\ th["op"].then = "rollback"
    /\ UNCHANGED <<approvals, up, intact, blessed>>
    /\ \/ /\ ok /\ up = "booting"
          /\ deferred' = FALSE /\ UNCHANGED <<mutation, spent>>
          /\ Remounting("op", Resting, "boot", registry, done, rt, FileOf(registry, approvals, done))
       \/ /\ ok /\ up = "up"
          /\ gov' = done /\ UNCHANGED <<registry, rt, spent>>
          /\ Release /\ Flush
       \/ /\ UNCHANGED <<mutation, deferred>>
          /\ Recovering(th["op"], done, registry, rt)
          /\ \/ ~ok /\ SaveRegistry(disk) /\ UNCHANGED spent
             \/ ok /\ FlushAnswered(done)

(* recoverPriorSnapshot: success rethrows, so a boot that was completing   *)
(* the rollback ends there; failure fails closed.  If the flush after it   *)
(* throws, both end there, and the deferral is not ended.                  *)
RollbackRecovered ==
    LET recovered == IF th["op"].ok THEN [th["op"].prior EXCEPT !.pending = gov.pending] ELSE gov IN
    /\ th["op"].pc = "recover"
    /\ UNCHANGED <<intact, blessed>>
    /\ \/ /\ th["op"].ok
          /\ registry' = RestoredRegistry("op") /\ gov' = recovered
          /\ mutation' = "idle" /\ deferred' = FALSE
          /\ UNCHANGED <<approvals, spent>> /\ Flush
          /\ \/ up = "booting" /\ Halt
             \/ up = "up" /\ Rest("op") /\ UNCHANGED <<up, rt>>
       \/ /\ ~th["op"].ok
          /\ deferred' = FALSE /\ UNCHANGED <<approvals, mutation, up, spent>>
          /\ FailingClosed("op", th["op"], "shut", RestoredRegistry("op"), recovered, rt)
          /\ disk' = FileOf(registry', approvals, recovered)
       \/ /\ up = "up"
          /\ registry' = RestoredRegistry("op") /\ gov' = recovered
          /\ mutation' = "idle"
          /\ UNCHANGED <<approvals, deferred, up, rt>> /\ FlushLost
       \/ /\ up = "booting" /\ WriteFails
          /\ spent' = [spent EXCEPT !.faults = @ + 1]
          /\ Die

RollbackClosed ==
    /\ th["op"].pc = "shut"
    /\ UNCHANGED <<approvals, deferred, up, intact, blessed, spent>>
    /\ LET closed == [gov EXCEPT !.failure = Failure(Blamed(gov), FALSE, TRUE)]
           r      == Dropped(rt, th["op"].drop)
       IN
       \/ /\ up = "booting"
          /\ Remounting("op", Resting, "boot", registry, closed, r,
                        FileOf(registry, approvals, closed))
          /\ UNCHANGED mutation
       \/ /\ up = "up"
          /\ gov' = closed /\ mutation' = "idle" /\ rt' = r /\ Rest("op")
          /\ UNCHANGED registry
          /\ disk' = FileOf(registry, approvals, closed)

-----------------------------------------------------------------------------
(* The waits inside runtime.restore.                                       *)

RestoreDropped(t) ==
    /\ th[t].pc = "restore"
    /\ RestoreLoop(t, Dropped(rt, th[t].drop))
    /\ UNCHANGED <<registry, approvals, gov, mutation, deferred, disk, up, intact, blessed, spent>>

RestoreStarted(t) ==
    LET c == th[t].start IN
    /\ th[t].pc = "restart"
    /\ UNCHANGED <<registry, approvals, gov, mutation, deferred, disk, up, intact, blessed, spent>>
    /\ \/ /\ Startable(c) /\ ToolsFree(rt, c)
          /\ RestoreLoop(t, Mounted(DiscardParked(Started(rt, c), {c}), c))
       \/ /\ rt' = StartFailed(rt, c, FALSE)
          /\ Goto(t, RestoreEnded(th[t], FALSE))

-----------------------------------------------------------------------------
(* The waits inside remountCommittedGenerated.                             *)

MountNext(t) ==
    \E c \in th[t].todo :
        /\ th[t].pc = "mount"
        /\ UNCHANGED <<registry, approvals, gov, mutation, deferred, disk, up, intact, blessed, spent>>
        /\ \/ /\ c \in rt.generated
              /\ rt' = Mounted(DiscardParked(rt, {c}), c)
              /\ Goto(t, [th[t] EXCEPT !.todo = @ \ {c}])
           \/ /\ c \notin rt.generated
              /\ rt' = Park(rt, c, Evolves(c))
              /\ Goto(t, [th[t] EXCEPT !.pc = "mounting", !.wait = TRUE, !.todo = @ \ {c}, !.start = c])

MountStarted(t) ==
    LET c == th[t].start IN
    /\ th[t].pc = "mounting"
    /\ UNCHANGED <<registry, approvals, gov, mutation, deferred, disk, up, intact, blessed, spent>>
    /\ \/ /\ Startable(c) /\ ToolsFree(rt, c)
          /\ rt' = Mounted(DiscardParked(Started(rt, c), {c}), c)
          /\ Goto(t, [th[t] EXCEPT !.pc = "mount", !.wait = FALSE, !.start = None])
       \/ \E clash \in Clashes(c) :
             Restoring(t, th[t], "clear", [owners |-> th[t].snap.owners, mounted |-> {}], registry,
                       StartFailed(rt, c, clash))

(* Fault: LKG keeps the withheld owner. *)
AdoptedCurrentOnly(g, now) == [g EXCEPT !.current = now, !.target = now, !.integrity = TRUE]

Adopted(g, now) == [g EXCEPT !.current = now, !.lkg = now, !.target = now, !.integrity = TRUE]

(* adoptVerifiedOperationalSnapshot, when a pre-contract owner was held back. *)
MountsDone(t) ==
    /\ th[t].pc = "mount" /\ th[t].todo = {}
    /\ Goto(t, [th[t] EXCEPT !.pc = "mounted", !.wait = FALSE])
    /\ UNCHANGED <<registry, approvals, mutation, rt, deferred, up, intact, blessed, spent>>
    /\ IF th[t].held = {} THEN UNCHANGED <<gov, disk>>
       ELSE LET now == Capture(registry, rt) IN
            /\ gov' = Adopted(gov, now)
            /\ Flush

MountsCleared(t) ==
    /\ th[t].pc = "clear"
    /\ FailingClosed(t, th[t], "close", registry, gov, rt)
    /\ UNCHANGED <<approvals, mutation, deferred, up, intact, blessed, spent>>
    /\ SaveRegistry(disk)

Closed(t) ==
    /\ th[t].pc = "close"
    /\ gov' = [gov EXCEPT !.failure = Failure(Blamed(gov), FALSE, TRUE)]
    /\ rt' = Dropped(rt, th[t].drop)
    /\ Goto(t, [th[t] EXCEPT !.pc = "mounted", !.wait = FALSE, !.drop = {}])
    /\ UNCHANGED <<registry, approvals, mutation, deferred, up, intact, blessed, spent>>
    /\ Flush

-----------------------------------------------------------------------------
(* Safe Mode, disable, uninstall                                           *)

EnterSafeMode ==
    /\ LifecycleIdle
    /\ registry' = DisableGenerated(registry)
    /\ gov' = [gov EXCEPT !.safeMode = TRUE, !.state = "safe-mode", !.current = Capture(registry', rt)]
    /\ mutation' = "recovery"
    /\ rt' = Unloading(rt, Candidates)
    /\ Goto("op", [Resting EXCEPT !.pc = "safe", !.wait = UnloadWaits(rt, Candidates),
                                  !.drop = rt.generated])
    /\ UNCHANGED <<approvals, deferred, up, intact, blessed, spent>>
    /\ SaveRegistry(disk)

SafeModeEntered ==
    /\ th["op"].pc = "safe"
    /\ mutation' = "idle" /\ rt' = Dropped(rt, th["op"].drop) /\ Rest("op")
    /\ UNCHANGED <<registry, approvals, gov, deferred, up, intact, blessed, spent>>
    /\ Flush

ExitSafeMode ==
    /\ LifecycleIdle /\ ~RecoveryRequired(gov)
    /\ gov' = [gov EXCEPT !.safeMode = FALSE, !.state = "active", !.current = Capture(registry, rt)]
    /\ UNCHANGED <<registry, approvals, mutation, rt, deferred, up, th, intact, blessed, spent>>
    /\ Flush

(* disable, and uninstall of a candidate without active hard dependents,   *)
(* up to the unload; a row without a candidate has nothing to unload.      *)
RemoveStart(x, kind) ==
    /\ LifecycleIdle
    /\ IF kind = "disable" THEN registry[x] # "absent"
       ELSE x \in Candidates /\ registry[x] = "active" /\ Dependents[x] \cap Active(registry) = {}
    /\ mutation' = kind
    /\ LET unload == {x} \cap Candidates IN
       /\ rt' = Unloading(rt, unload)
       /\ Goto("op", [Resting EXCEPT !.pc = kind, !.wait = UnloadWaits(rt, unload), !.todo = {x},
                                     !.drop = unload \cap rt.generated, !.prior = gov])
    /\ UNCHANGED <<registry, approvals, gov, deferred, disk, up, intact, blessed, spent>>

(* Uninstall moves LKG with current, disable leaves it.  If the write       *)
(* throws, the row is active again and the prior snapshot is restored.      *)
Removed ==
    LET row  == th["op"].todo
        reg  == SetStatus(registry, row, "disabled")
        r    == Dropped(rt, th["op"].drop)
        snap == Capture(reg, r)
        g    == [gov EXCEPT !.current = snap, !.lkg = IF th["op"].pc = "uninstall" THEN snap ELSE @]
    IN
    /\ th["op"].pc \in {"disable", "uninstall"}
    /\ UNCHANGED <<approvals, up, intact, blessed>>
    /\ \/ /\ registry' = reg /\ gov' = g /\ rt' = r
          /\ Release /\ Flush /\ UNCHANGED spent
       \/ /\ FlushAnswered(g)
          /\ deferred' = TRUE
          /\ LET free == \A x \in row : MayActivate(reg, x) IN
             /\ registry' = IF free THEN SetStatus(reg, row, "active") ELSE reg
             /\ gov' = IF free THEN g ELSE [g EXCEPT !.safeMode = TRUE, !.state = "safe-mode"]
          /\ Restoring("op", th["op"], "revert", th["op"].prior.current, registry', r)
          /\ UNCHANGED mutation

(* Only the runtime is restored here; the registry row is already back.    *)
(* If this flush throws too, the deferral is not ended.                    *)
RemoveReverted ==
    LET ok == th["op"].ok IN
    /\ th["op"].pc = "revert"
    /\ gov' = [gov EXCEPT !.current = th["op"].prior.current, !.lkg = th["op"].prior.lkg,
                          !.safeMode = @ \/ ~ok, !.state = IF ok THEN @ ELSE "safe-mode"]
    /\ UNCHANGED <<registry, approvals, rt, up, intact, blessed>>
    /\ \/ Release /\ Flush /\ UNCHANGED spent
       \/ mutation' = "idle" /\ UNCHANGED deferred /\ FlushLost

-----------------------------------------------------------------------------
(* The child of c exits: dropGenerated and noteIsolatedRuntimeFailure,      *)
(* whatever mutation is in flight.                                          *)

RunnerDies(c) ==
    LET target == Fallback(gov)
        reg    == IF registry[c] = "active" THEN SetStatus(registry, {c}, "disabled") ELSE registry
    IN
    /\ up # "down" /\ c \in rt.live \cap rt.generated /\ th[c].pc = "idle"
    /\ Bearable /\ spent.fatals < MaxFatals
    /\ spent' = [spent EXCEPT !.fatals = @ + 1]
    /\ registry' = reg
    /\ gov' = [gov EXCEPT !.state = "activation-failed", !.failure = Failure(c, FALSE, FALSE), !.lkg = target]
    /\ UNCHANGED <<approvals, mutation, deferred, up, intact, blessed>>
    /\ SaveRegistry(disk)
    /\ Restoring(c, [Resting EXCEPT !.cand = c], "failed", target, reg,
                 Dropped(Dropping(rt, {c}), {c}))

FailureRecorded(c, g, ok, target, reg) ==
    [g EXCEPT !.failure = Failure(IF @ = NoFailure THEN c ELSE @.cand, ok, ~ok),
              !.state = IF ok THEN "rolled-back" ELSE "activation-failed",
              !.integrity = ok /\ Restored(reg, target),
              !.safeMode = @ \/ ~ok]

FailureRestored(c) ==
    LET reg == RestoredRegistry(c)
        now == [gov EXCEPT !.current = Capture(reg, rt)]
    IN
    /\ th[c].pc = "failed"
    /\ UNCHANGED <<approvals, mutation, deferred, up, intact, blessed, spent>>
    /\ \/ th[c].ok /\ Remounting(c, th[c], "failure", reg, now, rt, disk)
       \/ /\ ~th[c].ok
          /\ registry' = reg /\ rt' = rt /\ Rest(c)
          /\ gov' = FailureRecorded(c, now, FALSE, th[c].snap, reg)
          /\ Flush

FailureHandled(c) ==
    /\ th[c].pc = "mounted" /\ th[c].then = "failure"
    /\ gov' = FailureRecorded(c, gov, ~gov.safeMode, th[c].snap, registry)
    /\ Rest(c)
    /\ UNCHANGED <<registry, approvals, mutation, rt, deferred, up, intact, blessed, spent>>
    /\ Flush

-----------------------------------------------------------------------------
(* The process and its disk.                                               *)

(* What no handler answered in this process is nothing to the next one.    *)
Crash ==
    /\ up # "down" /\ Bearable /\ spent.crashes < MaxCrashes
    /\ spent' = [spent EXCEPT !.crashes = @ + 1, !.lost = 0]
    /\ Die
    /\ UNCHANGED <<intact, blessed>>

(* reconstructCommittedExtensions up to its first wait: an interrupted     *)
(* activation is abandoned, an interrupted rollback is taken up again.     *)
Boot ==
    LET broken == gov.state \in {"activation-pending", "activating"}
        g == IF broken THEN [gov EXCEPT !.state = "activation-failed", !.pending = None,
                                       !.failure = Failure(gov.pending, TRUE, FALSE)]
                       ELSE gov
        d == [disk EXCEPT !.gov = g, !.store.gov = g]
    IN
    /\ up = "down" /\ up' = "booting"
    /\ UNCHANGED <<approvals, mutation, intact, blessed, spent>>
    /\ \/ /\ g.state = "rollback-pending"
          /\ UNCHANGED <<registry, gov, disk>>
          /\ StartRollback(g, [g EXCEPT !.state = "active"], rt)
       \/ /\ g.state # "rollback-pending"
          /\ UNCHANGED deferred
          /\ Remounting("op", Resting, "boot", registry, g, rt, d)

Booted ==
    /\ th["op"].pc = "mounted" /\ th["op"].then = "boot"
    /\ up' = "up" /\ Rest("op")
    /\ UNCHANGED <<registry, approvals, gov, mutation, rt, deferred, disk, intact, blessed, spent>>

(* Something else changes a sealed artifact on disk. *)
Tamper(c) ==
    /\ c \in intact /\ spent.tampers < MaxTampers
    /\ intact' = intact \ {c}
    /\ spent' = [spent EXCEPT !.tampers = @ + 1]
    /\ UNCHANGED <<registry, approvals, gov, mutation, rt, deferred, disk, up, th, blessed>>

-----------------------------------------------------------------------------

OpStep ==
    \/ ActivatePrepared \/ ActivateHealthy \/ ActivateUnhealthy \/ ActivateCommitted \/ ActivateUndone
    \/ RollbackRestored \/ RollbackMounted \/ RollbackRecovered \/ RollbackClosed
    \/ SafeModeEntered \/ Removed \/ RemoveReverted \/ Booted

MountStep(t) == \/ RestoreDropped(t) \/ RestoreStarted(t)
                \/ MountNext(t) \/ MountStarted(t) \/ MountsDone(t) \/ MountsCleared(t) \/ Closed(t)

FailureStep(c) == FailureRestored(c) \/ FailureHandled(c)

(* A thread whose promise is already settled runs before anything new. *)
Turn(t) == Settled \/ ~th[t].wait

Advance(t) ==
    /\ Turn(t)
    /\ \/ t = "op" /\ OpStep
       \/ t \in Candidates /\ FailureStep(t)
       \/ MountStep(t)

Request ==
    /\ Settled
    /\ \/ \E c \in Candidates : \/ RequestApproval(c)
                                \/ RecordApproval(c, "approved-for-exact-diff")
                                \/ RecordApproval(c, "rejected")
                                \/ AbandonFailedActivation(c)
                                \/ ActivateStart(c)
       \/ Rollback \/ EnterSafeMode \/ ExitSafeMode
       \/ \E x \in Rows : RemoveStart(x, "disable") \/ RemoveStart(x, "uninstall")

Environment ==
    \/ Crash
    \/ Settled /\ \E c \in Candidates : RunnerDies(c) \/ Tamper(c)

Next ==
    \/ \E t \in Threads : Advance(t)
    \/ Request
    \/ Environment
    \/ Boot

Spec == Init /\ [][Next]_vars

(* Every request to a child has a timeout and every kill is followed by an *)
(* exit, so each wait is answered; the event loop serves answers in turn,  *)
(* so an answer is not overtaken for ever by other threads.                *)
Fairness == WF_vars(Boot) /\ \A t \in Threads : SF_vars(Advance(t))

FairSpec == Spec /\ Fairness

-----------------------------------------------------------------------------
Failures == [cand : Candidates \cup {None, "restart"}, rolledBack : BOOLEAN, safeRequired : BOOLEAN]

Govs == [state : ActivationStates, pending : Candidates \cup {None}, current : Snapshots,
         lkg : Snapshots, target : Snapshots \cup {NoSnapshot}, failure : Failures,
         safeMode : BOOLEAN, integrity : BOOLEAN]

Returns == {"undo", "rollback", "recover", "revert", "failed", "clear"}

Points == {"idle", "prepare", "health", "commit", "shut", "safe", "disable", "uninstall",
           "restore", "restart", "mount", "mounting", "close", "mounted"} \cup Returns

ThreadStates ==
    [pc : Points, wait : BOOLEAN, ok : BOOLEAN, cand : Candidates \cup {None}, snap : Snapshots,
     owners : SUBSET Rows, prior : Govs, todo : SUBSET Rows, drop : SUBSET Candidates,
     start : Candidates \cup {None}, held : SUBSET Candidates, ret : Returns \cup {"none"},
     then : {"none", "boot", "rollback", "failure"}]

Approvals == [Candidates -> [decision : Decisions, fp : {"whole", "delta"}]]

Mutations == {"idle", "activation", "recovery", "disable", "uninstall"}

Spendings == [approvals : Nat, crashes : Nat, fatals : Nat, faults : Nat, tampers : Nat,
              lost : Nat]

TypeOK ==
    /\ registry \in Registries /\ approvals \in Approvals /\ gov \in Govs
    /\ mutation \in Mutations /\ rt \in Runtimes /\ deferred \in BOOLEAN
    /\ disk \in [registry : Registries, approvals : Approvals, gov : Govs,
                 store : [approvals : Approvals, gov : Govs]]
    /\ up \in {"down", "booting", "up"} /\ th \in [Threads -> ThreadStates]
    /\ intact \subseteq Candidates /\ blessed \subseteq Candidates
    /\ spent \in Spendings
=============================================================================
