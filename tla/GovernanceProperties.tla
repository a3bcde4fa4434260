------------------------- MODULE GovernanceProperties -------------------------
(***************************************************************************)
(* What the governance of extensions must never do, and what it must       *)
(* eventually do.  A state is quiet when the process is up and no mutation *)
(* and no failure callback is in flight: what an operator observes.        *)
(***************************************************************************)
EXTENDS Governance

Quiet == up = "up" /\ \A t \in Threads : th[t].pc = "idle"

Stay == up = "up" /\ up' = "up"

(* Thread op goes from the wait at `from` to the end of its call. *)
Ends(from) == Stay /\ th["op"].pc = from /\ th'["op"].pc = "idle"

SnapshotsOf(g) == {g.current, g.lkg} \cup ({g.target} \ {NoSnapshot})

-----------------------------------------------------------------------------
(* The registry.                                                           *)

(* No capability is claimed by two active rows, in memory or in the        *)
(* authority file, whatever is interrupted: assertNoActiveConflict guards  *)
(* registrations, but commitRegistry, applyRegistryOwners and the disable  *)
(* of failClosedSafeMode compose several transitions.                      *)
NoConflict == ConflictFree(Active(registry)) /\ ConflictFree(Active(disk.registry))

(* An extension row is only ever active, in memory or on disk, if a        *)
(* trusted authority approved that candidate at some time: restoring a     *)
(* snapshot, recovering and booting never activate anything else.          *)
ActiveWasApproved == ActiveGenerated(registry) \cup ActiveGenerated(disk.registry) \subseteq blessed

(* A snapshot that a rollback or a recovery may restore names only rows    *)
(* the registry holds, in memory and after a crash: applyRegistryOwners    *)
(* skips the others, and the restored home would lack them.                *)
SnapshotsRegistered ==
    /\ \A s \in SnapshotsOf(gov) : s.owners \subseteq Known(registry)
    /\ \A s \in SnapshotsOf(disk.gov) : s.owners \subseteq Known(disk.registry)

(* The activation switches the registry onto the version the change was    *)
(* made from: the base checked when it started, two waits ago.             *)
SwitchedOnBase == Stay /\ th["op"].pc = "health" /\ th'["op"].pc = "commit" => BaseHolds(th["op"].cand)

(* A change of an extension is committed onto the version it was made      *)
(* from (docs/extension-governance.md:57).  As long as no child dies: the  *)
(* callback of a dead child takes no lock, and may restore a snapshot      *)
(* without that version in between.                                        *)
CommitsOnBase == [][spent.fatals = 0 => SwitchedOnBase]_vars

-----------------------------------------------------------------------------
(* The authority file and the lifecycle lock.                              *)

(* Between calls nothing is held back from authority.json and no operation *)
(* is locked out: whatever failed, a write that a handler answers          *)
(* included, each call has ended the deferral it started, flushed what it  *)
(* changed, and left neither the mutation lock nor a state                 *)
(* assertMutationIdle refuses.  It holds as long as no call of this        *)
(* process ended by a write that no handler answers: those at              *)
(* service.ts:286, :393, :341, :479, :542 and :912 leave the lock, the     *)
(* pending state or the deferral behind until the process restarts.        *)
MutationReleased ==
    Quiet /\ spent.lost = 0 =>
        /\ ~deferred /\ disk = FileOf(registry, approvals, gov)
        /\ mutation = "idle"
        /\ gov.state \notin {"activation-pending", "activating", "rollback-pending"}

-----------------------------------------------------------------------------
(* The runners.                                                            *)

(* As long as no child dies: between calls every runner answers for its    *)
(* tools, what a snapshot would record as mounted runs, and no prior       *)
(* runner is left parked behind a candidate that was committed or given    *)
(* up; and at no time do two versions of one owner answer for the same     *)
(* tools.                                                                  *)
RuntimeSettled ==
    spent.fatals = 0 =>
        /\ Quiet => rt.generated = rt.live /\ rt.mounted \subseteq rt.live /\ rt.parked = NobodyParked
        /\ \A x, y \in rt.live : SameOwner(x, y) => x = y

(* The last known good snapshot mounts every extension it calls active,    *)
(* so that restoring it never leaves an active row without a runner; it    *)
(* may mount one whose row is off, which a rollback that failed in Safe    *)
(* Mode started again.  It holds until a child dies, the process restarts  *)
(* or a write fails: a restore skips what has no recipe, and a failed      *)
(* disable turns a row active.                                             *)
LkgMounted ==
    Quiet /\ spent.fatals + spent.crashes + spent.faults = 0 =>
        gov.lkg.owners \cap Candidates \subseteq gov.lkg.mounted

(* A boot runs what was committed and nothing else: the extensions of the  *)
(* committed snapshot that meet the authoring contract, and none at all in *)
(* Safe Mode, wherever the previous process died; but for a boot that has  *)
(* to withhold again a row which a failed disable had turned active: it    *)
(* also starts extensions an interrupted Safe Mode had switched off.  As   *)
(* long as no child dies while the others are mounted.                     *)
BootFaithful ==
    [][/\ up = "booting" /\ up' = "up"
       /\ spent.fatals = 0 /\ (th["op"].held = {} \/ spent.faults = 0)
       => rt'.live = IF gov'.safeMode THEN {} ELSE (Committed(gov').owners \cap Candidates) \ Legacy]_vars

(* A rollback that reports success has made its target the active rows,    *)
(* and every active extension runs; what else runs, the target mounts.     *)
(* The runners match as long as no child dies; and except in Safe Mode,    *)
(* where committed extensions are not mounted, after a restart (no recipe  *)
(* is known for the rows it turns active) or a failed write (a failed      *)
(* disable turned a row active which the target does not mount).           *)
RollbackExact ==
    [][Ends("mounted") /\ th["op"].then = "rollback" =>
         /\ Active(registry') = th["op"].snap.owners
         /\ \/ spent.fatals > 0
            \/ gov'.safeMode /\ spent.crashes + spent.faults > 0
            \/ /\ ActiveGenerated(registry') \subseteq rt'.live
               /\ rt'.live \subseteq ActiveGenerated(registry') \cup th["op"].snap.mounted]_vars

(* A failed activation that reports a successful restore has stopped the   *)
(* candidate, unless the last known good snapshot mounts it, and brought   *)
(* back the prior owner the swap parked: exactly what that snapshot mounts *)
(* is recorded as mounted and runs, and no active extension is without a   *)
(* runner.  What else runs was left by an earlier restore that stopped     *)
(* half way, and no row of it is active.  It holds until a child dies, the *)
(* process restarts (it cannot start again what another process started)   *)
(* or a write fails.                                                       *)
UndoLive ==
    [][/\ Ends("undo") /\ gov'.failure.rolledBack
       /\ spent.fatals + spent.crashes + spent.faults = 0
       => /\ rt'.mounted = gov'.lkg.mounted /\ rt'.mounted \subseteq rt'.live
          /\ ActiveGenerated(registry') \subseteq rt'.mounted
          /\ th["op"].cand \in rt'.live => th["op"].cand \in rt'.mounted]_vars

(* An uninstall whose write fails takes nothing away: the extensions       *)
(* recorded as mounted, unloaded in between or not, run again, but for     *)
(* those only an earlier process had started; and the rows that were       *)
(* active are.  As long as no child dies during it; for the rows, if the   *)
(* process did not restart and no other write failed: the record may name  *)
(* other rows after an approval that saved a registry half switched, and   *)
(* after a failed disable.                                                 *)
UninstallUndone ==
    [][Ends("revert") /\ mutation = "uninstall" /\ ~gov'.safeMode /\ spent.fatals = 0 =>
         /\ rt'.live = th["op"].prior.current.mounted \cap rt.recipes
         /\ spent.crashes = 0 /\ spent.faults = 1 =>
                Active(registry') = th["op"].prior.current.owners]_vars

(* An extension sealed before the authoring contract is withheld for good: *)
(* no rollback, undo or recovery brings its row back.  Neither the active  *)
(* rows nor a snapshot that could be restored name it (one that names a    *)
(* changed artifact cannot be), as long as no write failed (a failed       *)
(* disable of the withheld row turns it active).                           *)
LegacyWithheld ==
    Quiet /\ spent.faults = 0 =>
        \A s \in SnapshotsOf(gov) \cup {Capture(registry, rt)} :
            s.owners \cap Candidates \subseteq intact => s.owners \cap Legacy = {}

-----------------------------------------------------------------------------
(* What must happen.                                                       *)

(* The process always comes up again: no interrupted operation leaves a    *)
(* home that boots, fails and boots for ever.                              *)
BootCompletes == []<>(up = "up")

(* The callback of a dead child ends, even when mutations run meanwhile;   *)
(* and a lifecycle call that started gives its lock back, by success,      *)
(* failure or crash, but for the activation whose first write failed       *)
(* (service.ts:286): that call is over and its lock stays.                 *)
CallsEnd ==
    /\ \A c \in Candidates : (th[c].pc # "idle") ~> (th[c].pc = "idle")
    /\ (mutation # "idle") ~>
           \/ mutation = "idle"
           \/ mutation = "activation" /\ th["op"].pc = "idle" /\ spent.lost > 0
=============================================================================
