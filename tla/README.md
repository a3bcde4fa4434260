# TARS-NG verification

TLA+ specifications of TARS-NG (`src/`), a governed personal assistant built on
the DSH agent runtime, with TLC configurations that check them on small
instances and TLAPS proofs that hold for every instance. Line numbers refer to
the sources as they are in `src/`; paths without a prefix are below `src/src/`,
`docs/` and `test/` are those of the repository.

1. [The system](#1-the-system)
2. [What is modelled where](#2-what-is-modelled-where)
3. [What each run checks](#3-what-each-run-checks)
4. [What is proved](#4-what-is-proved)
5. [Where documents and code disagree](#5-where-documents-and-code-disagree)
6. [What the models leave out](#6-what-the-models-leave-out)
7. [What is left](#7-what-is-left)
8. [Running the checks](#8-running-the-checks)

## 1. The system

One Node process (the host) owns a *home*, a directory tree with the durable
state. JavaScript runs one segment at a time: what happens between two awaits
is atomic inside the process, and everything else interleaves: HTTP requests of
the console, tool calls of the model, callbacks of child processes, the end of
the process, other hosts that start on the same home, other programs that write
the same files, and servers that answer late.

| Component | State | Operations | Hard behaviour |
| --- | --- | --- | --- |
| Capability registry (`domain/registry`) | rows `owner@version` with a status | register, transition, snapshot | several transitions make one switch; two active rows may not claim one capability |
| Activation runtime (`adapters/activation/cordis-runtime.ts`) | runners, proxies, parked prior owners, recipes, `currentMounted` | prepare, health, commit, restore, unload | child processes start, hang and die between the steps |
| Generated trust broker and runner (`adapters/activation/generated-runner.ts`) | the child, its pending calls and the authority lent to each | start, call, abort, time out, kill | lines of the child that are read late, an exit that is seen before the last line |
| Extension governance (`domain/governance`) | approvals, snapshots `current` / `lastKnownGood` / rollback target, failure, Safe Mode | request, record, abandon, activate, rollback, Safe Mode, disable, uninstall, boot | failure at every step, callbacks of dead children, crash, retry at boot |
| Authority store (`domain/self-extension`) | `authority.json`, one atomic file of three sections | flush, deferred registry writes, hydrate | which write makes what durable |
| Candidates, review, workbench (`domain/candidate`, `review`, `workbench`) | drafts and sealed artifacts, reports and lineage, plans and bindings | create, edit, validate, seal, review, repair, dismiss, import | one operation writes several files; artifacts change on disk; reports that no longer fit |
| Resolution (`domain/resolution`) | none; it reads registry and catalogue | review of a gap, plan | three sets of rules decide what may be made and activated |
| Skill store and service (`domain/skill`) | index, directories `active` / `history` / `staging` | import, seal, approve, activate, disable, recover | crash between the renames |
| Policy service (`domain/policy`) | confirmation tickets, audit | decide, apply, resolve | every call decided twice, approvals race, executors are awaited |
| DSH approval bridge (`domain/approval`) | pending requests with promises, bounded history | open, resolve, abort, prune, dispose | decision against abort against disposal |
| Web console (`product/web-ui-*.ts`, `projections`) | none of its own; the browser holds a view | show cards, post decisions | a decision about what was shown, read after it changed |
| Runtime lease (`product/runtime-lease.ts`) | lock directory with an identity file | acquire, take over, refresh, publish, release | several runs, each file system call interleaves |
| Home and Profile (`product/runtime-context.ts`) | binding, session root stamp, partitions, migration journal | start, migrate, authorize, recover | an upgrade changes the identity a home is bound to; deaths in the move |
| Sessions (`product/session-lifecycle.ts`, `session-catalog.ts`) | catalogue, journal, current session | create, switch, archive, delete, restore, recover | crash between journal, catalogue and disposal |
| Jobs (`domain/jobs`, `adapters/jobs`) | runs with a bound per owner; the interval scheduler | start, cancel, tick | outcome before the record; a clock that jumps |
| Task control (`product/agent-task-control.ts`, `governed-subagent-provider.ts`) | goals, Plan Mode, one pending question per agent, places of children | ask, answer, abort, delegate, dispose | races of the four; overlapping clean-ups |
| Memory (`domain/memory`) | records in `memory.json` | write, replace, delete, query | any order with old ids, a write that fails |
| Knowledge vault (`adapters/knowledge`) | notes that Obsidian edits too | propose, approve, create, append | the note changes between proposal and write |
| Calendar (`adapters/integrations`) | events on a server | create with a key | request or answer lost or late, retries |
| Backup (`domain/self-extension/backup.ts`) | a second tree | back up, restore | damage, failure and crash between the steps |
| Settings, personality, doctor, reliability, evaluation, CLI | records or none | read and write | mostly sequential data and text |

How they interact. The model calls a tool; the pre-execute hook and then the
tool ask the **policy service**; a card for the pending ticket appears in the
console; `resolveApproval` (`ui/controller.ts`) routes the human's decision to
the policy service or to the **approval bridge**. A capability that is missing is
looked up by the **resolver**, whose advice becomes a plan in the workbench; the
extension is built there, sealed as a **candidate**, reviewed, and approved by a
trusted authority through a card of the **console**; **governance** then asks the
**runtime** to prepare it, switches the **registry**, lets the runtime commit,
and flushes the **authority store**. A tool of the extension runs in a child
behind the **runner**, which lends it authority only while its call waits. If a
child dies the runtime calls back into governance, which restores the last
known good snapshot, whatever else is in flight. At boot governance
reconstructs what was committed. The **lease** keeps other hosts away, the
**binding** decides whose sessions the home holds, and the **session** route
which conversation the host serves.

What makes each component correct:

- registry: no capability is claimed by two active rows;
- governance: only approved extensions ever become active; a change is
  committed onto the version it was made from; a failure gives back the lock,
  the deferral and the runners the call parked; whatever is interrupted,
  the home boots and runs exactly what was committed, or nothing in Safe Mode;
- runtime: its three views of what runs agree between calls; the runner: an
  operation of the host begins only for a call that still waits;
- authoring: a blocker of a review is never lost on the way through repairs,
  what is bound can be resolved, what is requested was reviewed as it is;
- resolution: what the resolver advises can be built and activated;
- console: a decision is about what the human was shown, however late it is read;
- policy: a confirmation is executed at most once and only if approved;
- bridge: nobody waits for a request that no human can see;
- lease: at most one host writes a home; binding: a conversation stays with the
  home through upgrades and moves; sessions: one committed catalogue after any
  crash; skills: active directories and index agree after any crash;
- children, questions, briefs, memory, notes, events: none is lost and none
  happens twice.

## 2. What is modelled where

| Module | Models | Extends |
| --- | --- | --- |
| `Registry` | rows, statuses, conflicts, the composed switches `commitRegistry` and `applyRegistryOwners` | |
| `ActivationRuntime` | `CordisActivationRuntime` for isolated candidates, as operators on a runtime record | `Registry` |
| `Governance` | `GovernanceService`, its authority file, the process and its boot | `ActivationRuntime` |
| `GovernanceProperties` | what governance must never and must eventually do | `Governance` |
| `GovernanceInvariant` | the inductive invariant of the proofs | `GovernanceProperties` |
| `Console` | the cards of governance in the browser, their posts and the handlers' checks | `Governance` |
| `MCGovernance` | small homes for TLC, driven directly or by the console | `GovernanceInvariant`, `Console` |
| `GovernanceProofs`, `RunnerProofs`, `RestoreProofs` | lemmas on the operators, the invariants of what is durable and approved, of what stays withheld, of what runs, of what an undo, a boot, a rollback and a failed removal bring back, and of what a click of the console started; the theorems | `GovernanceInvariant`, `Console` |
| `OneShot` | abstract: a confirmation is asked once, decided once, takes effect at most once | |
| `PolicyTickets` | `PolicyService` with the pre-execute hook; refines `OneShot` | |
| `ApprovalBroker` | `DshApprovalBroker`; refines `OneShot` | |
| `Approvals`, `ApprovalProofs` | the two side by side, as the console routes to them; the theorems, those of authoring too | both, `Authoring` |
| `Topics` | abstract: the list of conversations changes whole or not at all | |
| `SessionCatalog` | the catalogue and its journal as values: what each operation makes of them, which entries are legal, what a start recovers | |
| `SessionRoute` | `LiveSessionHost.commitRoute`, its catch branch, and the start of the product | `SessionCatalog` |
| `SessionProperties`, `MCSessions`, `SessionProofs` | what the files must keep, the refinement of `Topics`, the inductive invariant; the instance; the theorem | `SessionRoute` |
| `RuntimeLease` | the lease of a home, one action per file system call | |
| `HomeStart` | what a run does with it: stamp, session partition, boot, endpoint, stop | `RuntimeLease` |
| `StartProperties`, `LeaseProofs` | what the home owes its runs, the inductive invariant of a clean home; the theorems | `HomeStart` |
| `ProfileHome` | what a home is bound to, and the move of its sessions to another Profile identity | |
| `SkillIndex` | `index.json` as a value: what each operation makes of a record and of the catalogue | |
| `SkillStore` | `SkillService` over its directories, one action per call on the disk; the end of a process and the constructor of the next | `SkillIndex` |
| `SkillDesk` | the Skills Center of the console: imports, revisions, late posts, hard dependencies | instance of `SkillIndex` |
| `SkillProperties`, `MCSkills`, `SkillProofs` | what the store owes to its skills; the instances; the theorems | `SkillStore`, `SkillDesk` |
| `GeneratedRunner` | `IsolatedGeneratedRunner`, the host's side of one child | |
| `Review` | the review of a candidate as a function: gates, carried findings, blockers | |
| `Authoring` | candidates, workbench and review over their files | `Review` |
| `Resolution` | the ladder of a capability review and what follows an advice | |
| `HomeBackup` | backup and restore of the self-extension home | |
| `Delegations`, `TaskControl` | children; goals, Plan Mode and questions | |
| `Memory`, `Jobs`, `Calendar`, `Vault` | the services of these names | |
| `MCHost` | all services of the host that share no state, one of them per behaviour | |
| `HostProofs` | theorems about the small services, the binding of a home and the ladder of advice | |

### Governance

State. `registry` is the in-memory registry, a function from rows to a status;
`gov` is the record of the persisted fields of the service (`state`, `pending`,
`current`, `lkg` for `lastKnownGood`, `target` for the rollback target,
`failure`, `safeMode`, `integrity`); `approvals` the latest decision per
candidate with the fingerprint it binds; `mutation` the in-memory lifecycle lock;
`rt` the runtime record; `disk` the authority file and `deferred` whether
registry writes are held back (`beginAuthorityCommit`); `disk.store` is what the
store in memory holds of the last flush, which it writes with its next change even
if that flush failed; `up` whether the process
is down, booting or up; `th` what each thread waits for; `intact` the candidates
whose artifact still has its digest. `blessed` and `spent` are history and
bounds; `spent.lost` counts the writes of this process that failed and that no
handler answered. When the process is down the memory variables hold what the next boot
hydrates.

Threads. `"op"` is the one lifecycle mutation or the boot in flight, a
candidate names the callback its dying child runs. A thread's `pc` names the
wait it is at and `wait` whether a child is awaited or the promise is already
settled; `Settled` and `Turn` express that a settled promise runs before any new
request.

| Code (`domain/governance/service.ts`) | Actions |
| --- | --- |
| `requestApproval`, `recordApproval`, `abandonFailedActivation` | `RequestApproval`, `RecordApproval`, `AbandonFailedActivation` |
| `activate` and `failActivation` | `ActivateStart`, `ActivatePrepared`, `ActivateHealthy`, `ActivateUnhealthy`, `ActivateCommitted`, `ActivateUndone` |
| `rollback`, `finishRollback` | `Rollback`, `RollbackRestored`, `RollbackMounted`, `RollbackRecovered`, `RollbackClosed` |
| `enterSafeMode`, `exitSafeMode` | `EnterSafeMode`, `SafeModeEntered`, `ExitSafeMode` |
| `disable`, `uninstall` | `RemoveStart`, `Removed`, `RemoveReverted` |
| `noteIsolatedRuntimeFailure` | `RunnerDies`, `FailureRestored`, `FailureHandled` |
| `reconstructCommittedExtensions` | `Boot`, `Booted`, and `MountNext` ... `Closed` for `remountCommittedGenerated` |
| `runtime.restore` | `RestoreDropped`, `RestoreStarted` |
| the process | `Crash`, `Tamper` |

A wait on a child has every outcome the code can see: it answers, or it fails
(it did not start, its digest differs, its health was wrong, it timed out).

Failing writes. `flush` throws where the file cannot be replaced. Where a `catch`
answers that, the operation goes on (`FlushAnswered`): the flush after prepare
(`:296`) and the one of the commit (`:319`) lead to the undo of the activation,
those of disable and uninstall (`:456`, `:517`) to the way back, the one of a
rollback (`:899`) to the recovery of the snapshot before it. Where none does, the
call ends with the error (`FlushLost`) and leaves what it held: the first flush of
an activation (`:286`), outside the `try`, the lock and `activation-pending`; the
first of a rollback (`:393`) `rollback-pending`; those of the catch branches
(`:341`, `:479`, `:542`, `:912`) the deferral. At a boot the last of these ends the
process.

The console. A card is a projection of the service's state with what its button
binds (candidate, digest, fingerprint, approval, snapshot); `Click` puts a post
under way, `Serve` is the handler with its checks (`Bound...`) and the mutation
it starts, `Refuse` a request that is lost or turned down. That a tab shows an old
view and that a request travels are the same thing here: a post is made early and
served late, after anything the agent (`Elsewhere`) or another surface did.

### Approvals

`PolicyTickets` has one action per entry: `PreExecute` is the hook's `decide`,
`Apply` the tool's second `decide` and what follows it, `Deny`, `Cancel`, `Abort`
and `Approve` the branches of `resolve`, `Settles` the executor's promise. A
call that was hooked may find anything when it is applied. The status is claimed
in the segment that calls the executor, as in `tryClaim`. `ApprovalBroker` has
`OpenRequest` (with the pruning of the history before an aborted request is
settled), `Resolve`, `AbortRequest` and `Dispose`. Both refine `OneShot`, a
confirmation that is open, granted or closed: the tickets with `Phase` of the
status and the number of executor calls, the requests with the promise the
handler was given.

### Sessions

State. On disk `catalog`, `journal`, `product` (`runtime.sessionId` of
`product.json`) and `discarded`, the sessions whose transcript was unlinked; in
memory `surface` (the session the console and the host serve), `agents` (those
not disposed of), `safeMode` and `route`, the locals of `commitRoute`
(`written` is "`applied` is set"). A catalogue is the current session, the
revision, the lifecycle of every id and the origins; ids are random in the code
and numbered here. `pc` is where the start or the route is; one action stands for
one write or one wait:

| Code | Actions |
| --- | --- |
| `resolveStartSession`, `ensureMigrated`, `resolveBootSession` | `RollBack`, `ClearPrepared`, `RollForward`, `Migrate`, `Resolve` |
| `cli.ts` 711-749, `finishCommittedJournal` | `StartAgent`, `RecoverProduct`, `RecoverUnlink`, `RecoverClear` |
| `create`, `switchTo`, `archive`, `delete` up to `commitRoute` | `Create`, `Switch`, `Retire` |
| `commitRoute` in the order of its lines | `Open`, `OpenFails`, `Journal`, `Apply`, `ApplyRefused`, `Commit`, `Persist`, `Adopt`, `Dispose`, `Unlink`, `Clear` |
| its catch branch | `Undo`, `UndoProduct`, `UndoClear`; `WriteFails` leads there, `UndoFails` is a write of it that throws |
| `restore`; `touch`, `rename`, `syncTitle`, `reconcileTitle`; `noteApprovalOrigin` | `Restore`, `Annotate`, `NoteOrigin` |
| the process | `Crash` |

Routes are serialised, so there is one at a time; origins are written outside
the queue (`session-lifecycle.ts:237`), and `NoteOrigin` may run in every wait
(`Waiting`). `writeJsonAtomic` either replaces the file or leaves it.

`Topics` is what a user relies on: the list and the current session change only
when asked, in one step, by one session; a failure takes a change back exactly;
the end of the process changes nothing. `AllOrNothing` maps to it: what counts
as the list is the catalogue until a route has made its entry, and from then on
what the next start would recover. The committed journal is thus the commit
point. One exception had to be admitted (`Forget`): a session that was restored
from the archive after a late failure goes back into it at the next start.

### Runs that share a home

State. `lock` is `state/runtime.lock` and `tombs[id]` the directory
`runtime.lock.<id>.retired` to which the lease of `id` is renamed before it is
removed; a directory is whether it is there, the run its `identity.json` names
and the temporary files in it. `partition` is the run `.writer.lock` names. Each
run has a `pc`, the next call it makes, `seen` (the run whose lease it means to
remove, itself when it leaves), `writing` (what it writes its identity for) and
its `attempts`; `dead` are the runs without a process.

| Code | Actions |
| --- | --- |
| `acquireRuntimeLease`, `classifyOwner` | `MakeLock`, `ReadOwner`, `Classify` |
| `removeLeaseIfRunId` | `Verify`, `Bury`, `Check`, `PutBack` |
| `writeIdentity`, `writeNewRuntimeIdentity` | `WriteTemp`, `Rename`, `Wipe` |
| `publishControlEndpoint`, `refreshContextStamp`, `release` | `Announce`, `Stamp`, `Release` |
| `claimSessionPartition`, `publishPartitionLock` | `Inspect`, `Evict`, `Evicting`, `Publish` |
| `cli.ts` 577-849; `skill-cli-import.ts`, `self-extension-cli.ts` | `ClaimHome`, `Command`, `Boot`, `Stop`, `Leave`, `Unclaim` |
| the process | `Exit`, `Crash` |

What happens between two calls on the file system is local to the run and is
part of the action of the call before it. A rename of a directory succeeds onto
a free path or an empty directory, and takes whatever is at the path.

### The binding of a home

`ProfileHome` is the other half of a start: which Profile identity the home is
bound to. On disk `binding` (`runtime-context.json`), `owner` (the stamp of the
session root), `partitions` (the transcripts under each identity), `spare` (those
of ephemeral recoveries) and `move`, the journal of a migration with its phase; a
`launch` has the step it is at, the context it resolved and the move it works
on. `InspectHome` ... `AfterMove` follow `inspectHome` and the lease,
`Begin`, `Copy`, `NoteCopied`, `Restamp`, `NoteOwner`, `Rebind`, `NoteBinding`,
`DropOld` and `EndMove` the writes of `migrateProfileIdentity` in their order,
`Complete` takes up a journal that was found, `Claim` and `CommitHome` claim the
partition and bind a fresh home, `Ship` is an upgrade that changes what the
Profile resolves to, `Authorize` is `migrate-profile`, `KillRun` ends a process
anywhere. `kept` and `aside` are history: what was said in normal runs and in
Safe Mode.

### Skills

State. `index` is `index.json`: of each revision its place in the life cycle,
`sealed`, the digest, the decision and the fingerprint it is bound to; the active
revision of each skill, the last one that was, the reviews and approvals, and
whether the catalogue is marked as degraded. `candidates`, `incoming`, `active`
and `outgoing` are the directories, each with the content it holds or `Torn`.
Contents are abstract, and the digest of a content is the content. `pc` and `op`
are the next call and the locals of the operation under way, `loading` what a
`validate` has read while it waits for the parser. The operations are
synchronous but for that wait, so that one is under way at a time; they are
split because a call may fail and the process may be killed at each.

| Code (`domain/skill`) | Actions |
| --- | --- |
| `create`, the forks of `writeFile` and `declareDependencies` (`publishCandidate`) | `Publish`, `RecordCandidate` |
| `writeFile` in place | `WriteFile`, `RecordDigest` |
| `validate`, `seal`, `requestReview` | `Load`, `Validate`; `Seal`; `Review`, `RecordReview` |
| `requestApproval`, `approve`, `reject` | `RequestApproval`, `Approve`, `Reject` |
| `activate`, `reactivate`, `rollback` | `Activate`, `PublishIncoming`, then as the next two |
| `disable`, `uninstall` | `Retire`, `Uninstall` |
| `replaceActiveDirectory`, `retireActiveDirectory` | `DiscardOutgoing`, `Park`, `Place` |
| `finishCatalogCommit` | `Commit`, `SyncCatalog`, `Cleanup` |
| `rollbackActiveDirectory`, `rollbackCatalogMutation`, `markCatalogDegraded` | `Undo`, `Restore`, `Revert`, `Resync`, `MarkDegraded` |
| the constructor: `recoverInterrupted`, `preflightActiveCatalog`; `attachInvalidation` | `Recover`, `Unreadable`, `Preflight`, `Attach` |
| the process | `Kill` |

`SkillDesk` takes the same index, through the operators of `SkillIndex`, as one
store that is written whole, and puts around it what `SkillStore` leaves out:
bundles with their hard dependencies (`ImportLocal`, `CreateSkill`, `Fork`), the
tools of the assistant (`ValidateSkill`, `Submit`), and the page. A tab has the
view it last received and what it was told of dependents; `Click` posts a
decision with the generation and the dependents the tab knows, `Serve` is
`handleSkillPost` with its refusals (`web-ui-skills.ts`), `Receive` the reply,
`AskAnew` and `Refresh` the tab's own requests.

### Authoring

An operation of the workbench is one call without an await, but it changes
memory and writes up to six files. `Authoring` decides at the call and leaves in
`todo` the effects in the order of the code; each is then one step
(`ChangeRecord`, `ChangeTree`, `ChangeWorkbench`, `ChangeReports`,
`PersistIndex`, `PersistWorkbench`, `PersistLineage`, `PersistGeneration`) that
can be the last before the process dies, and each write can fail, with the
handler that then runs (`Handler`: the undo of a repair, of a create, of an
import). `tree` is a candidate's directory, `rec` the record of the index, `wb`
specifications, plans and bindings, `reports` and `last` the two maps of the
review, `disk` the files. The operations are `DefineSpecification`, `MakePlan`,
`Create`, `WriteFile`, `SetManifest`, `Scaffold`, `Validate`, `Seal`,
`ReviewCandidate`, `Repair`, `Import`, `RequestApproval`, `Reject`; `AuthoringBoot`
is a start with its adoption of records the workbench does not know. `Review` is
the review itself, a function of the package, the stored reports and the claims
the candidate makes: precheck, findings carried over from the parent, omitted
and dropped ones, the recommendation.

`Resolution` has no state but the registry's rows, the candidates made so far
and what discovery returns. `Ladder` is the ordered algorithm of a review (reuse,
adopt a registered one, evolve the owner, an offer of the catalogue, a new
plugin), `Reviews` what the workbench and the model's tool make of it;
`CreateCandidate`, `ImportBundle`, `ActivateDraft` and `DisableRow` follow it or
not, under the rules of compatibility, registration and conflicts.

### The smaller services

- `GeneratedRunner`: `CallTool`, `CallTimeout`, `AbortCall`, `EndCall`, the lines
  a child writes (`WriteLine`, any line at any time) and the host reads later
  (`NextLine`), `KillChild`, `ChildExit`; `bound` are the calls operations may
  run for.
- `HomeBackup`: backup and restore copy part by part (`CopyRow`, `StageRow`, ...),
  each may stop after any part by an error or with the process, and a disk may
  damage a part; the home goes on between them.
- `Delegations`: `StartChild`, `ChildStarted`, `ChildSettles`, `DisposeChild`,
  `ChildDisposed`, the last two for the tool, the engine and the fiber that ends.
- `TaskControl`: goals with their revisions, Plan Mode with what is pending, and
  questions with answer, abort and disposal.
- `Memory`: write, replace, delete, the flush that may fail, the parser that a
  start applies.
- `Jobs`: start with the limit of an owner, cancel, the brief's sources, and
  `Tick` on a clock that `SetClock` may move anywhere.
- `Calendar`: `createEvent` against a server that gets, refuses, loses or answers
  inserts in any order; look, post, check and recheck are its requests.
- `Vault`: proposals and their approved writes against `EditNote`, another
  program.

## 3. What each run checks

Names are those of `PROJECT.json`; sizes are distinct states.

| Run | Instance and bounds | Shows |
| --- | --- | --- |
| `governance_restart` | versions v1, v2 of one owner, v2 proposed as a change of v1, and w of another owner, driven directly or by two posts of the console; 2 approvals, 1 crash; 762,000 (1 min) | only approved rows are active; the runtime settles; last known good mounts its extensions; commits land on their base; what a successful undo and a successful rollback leave running; a late click decides what its card said |
| `governance_deaths` | one extension; 1 approval, 2 failing writes, 1 crash and 1 death of the child, two of these together at most (`MaxMishaps`); fair; 154,000 (2 min) | while writes fail at every flush of a mutation and the failure callback runs in the middle of each, an ended call has given back lock and deferral and left nothing unsaved, unless a write failed that no handler answers; the process always comes up, callbacks end, and so does every lock but that of an activation whose first write failed |
| `governance_faults` | w, sealed before the authoring contract, v1 with the same claim, and a managed row that depends on v1; 1 approval, crash, failing write and changed artifact, of crash and write both; 1,980,000 (2 min) | no two claimants are active in memory or on disk; w stays withheld; a failed uninstall takes nothing away; a boot runs exactly the committed extensions, or none |
| `sessions` | a home of two conversations, or one bound before it had a catalogue; a third conversation may be made; one origin, revisions up to 5, 1 failing write, 2 crashes; 1,860,000 | files that a start can read, host and files in agreement, transcripts kept, refinement of `Topics` |
| `sessions_doc_deleted` | the same, without failing writes; a start may name a session | section 5 |
| `skills` | one skill, two revisions, two contents, two failing calls of any kind, the process killed twice, in the recovery of a start too, one call that leads a revision back, three of these five at most (`MaxTrouble`); or the console over two skills of which one requires the other, in three rooms that trade writes for late letters; 2,460,000 (2 min) | what is served is what the index says, or it is marked; it was approved and reviewed as it is; the next start opens the catalogue, or finds the committed revision beside a directory half removed; a decision of the page is carried out on what it showed |
| `skills_doc_request`, `skills_doc_dependents` | one skill and one restart; the console over two skills | section 5 |
| `host` | one of fourteen services per behaviour, each on the instance of `Host.cfg`; 933,000 | see below |
| `home_start_doc_writer`, `profile_doc_resume`, `authoring_doc_repair` | the same module with one service each; three runs and no crash for the first | section 5 |

The run `host` composes what does not interact: a behaviour is one of one
service, chosen by the initial state, and the invariants of the others hold of
their initial values. It is one run because its parts ask one question, whether
each service keeps its promise; the parts are:

| Part | Instance | Property |
| --- | --- | --- |
| tickets, broker | three actions (one that runs by itself, one without an executor), two overlapping calls, two tickets; two requests, history of one | `TicketsOneShot`, `BrokerOneShot`, `NoOrphan` |
| start | two runs on a clean home or over a dead lease, with or without a dead partition lock; three attempts, one kill | `SingleWriter`, `OwnerKept` |
| profile | two launches, two identities and an older one, an upgrade at any time; a transcript | `HistoryFollows`: the partition the home is bound to holds every transcript a normal run has written, whatever moves were interrupted |
| runner | two calls, three lines of the child | `OperationsWanted` |
| authoring | two revisions and an imported bundle; five stories (a death in a chain of repairs, two failed writes, one with an edit, executable acceptance examples, an import) | `BlockersCarried`, `BindingsResolve`, `RequestedSound` |
| resolution | four capabilities in three domains, three catalogues, three candidates | `AdviceFollowed` |
| backup | three generations of the authority, two damages | `RestoreWhole` |
| delegations, tasks | three delegations on two places, two disposals each; one agent with three questions | `PlacesCounted`, `QuestionsHeard` |
| memory, jobs, calendar, vault | three records of two statements; two runs and a clock to 3 with an interval of 2; three creates, two with one key, one of Feishu; two notes, two proposals, three edits | `ForgottenStays`, `BriefsPaced`, `OneEvent`, `AppendsToSeen` |

Why the bounds are enough for what they are used for. Two versions of one owner
are the least that exercise the swap, parking and undo, and a row of another
owner the least with something that keeps running through them. One managed row with a dependency and one legacy row are the
two other kinds of row the code distinguishes. For the lock one extension is enough:
who holds it does not depend on the candidate; two mishaps are a write that fails
and the write of the catch branch that answers it, or a write and the death or
crash that falls in the way back. One crash suffices for
single-fault recovery, at any of the waits, followed by any further operation;
the boot after it can be interrupted by nothing else but a failing child, which
is not bounded. The bound of one death lets the callback meet each wait of each
mutation. Two posts of the console let a late one meet another, and the agent's
request for approval makes either stale. Beyond these bounds the safety
invariants that are proved (section 4) hold anyway.

For sessions, one that stays, one that goes and one that is new are the three a
route distinguishes; two crashes let a recovery be interrupted, and four
revisions beyond the first let two routes follow each other with a restore or a
title between them. For the lease, two runs and the run that died before them
are the least with a contested takeover; three attempts let a run lose one,
remove a lease and take it. What two runs keep, three do not (section 5); what
any number of runs keeps on a clean home is proved. A migration is between two
identities, of which the old one may be a Profile name; kills and upgrades are
not bounded.

For skills, two revisions are the least with a replacement and a rollback, and
two contents the least that tells an approval of one from the other. A failing
provider and a failing way back are two faults, with which the catalogue is
marked as degraded; a third, in that mark itself, would leave it unmarked, so
that `ServedIsCommitted` and `StartsAgain` are stated of two. Two kills are a process
that dies in a call and the next one that dies in the recovery. For the page, two
skills are the least with a dependency, two letters the least of which one
overtakes the state the other was written for.

For authoring, a parent and its repair are the least with a carried blocker; the
budgets of a story bound specifications, edits, reviews, imports, deaths and
failures, so that one kind of accident is met at every step of a chain rather
than every mixture of all. For the calendar, two calls with one key and one with
none; for the runner, three lines are a request, an answer and one that comes
after it.

Deadlock is checked in `governance_restart`. It is not elsewhere: an activation
whose first write failed leaves the lifecycle locked and the crash that would free
it may be spent, a process that is idle with its bounds spent may rest, so may a
bridge that was disposed of, runs end, tabs are closed, and a start that refuses
the skill catalogue is the last.

Fairness. `Boot` is weakly fair: a supervisor starts the process again. Every
thread is strongly fair in `Advance`: each request to a child has a timeout and
each kill is followed by an exit (`generated-runner.ts` 345-385, 217-224), so a
wait is always answered, and the event loop serves answers in order, so that no
answer is overtaken for ever, although other threads may disable it for a while
(`Turn`). Requests, crashes and deaths are not fair. The other services promise
nothing that time must bring.

Every property has a fault: an operator such as `MayCommitUnchecked` that stands
beside the definition it would replace, commented `Fault:`, with which TLC finds
the property violated. They are listed under `mutants` in `PROJECT.json`.

## 4. What is proved

| Theorem | States | For every |
| --- | --- | --- |
| `GovernanceProofs!TypeCorrect`, `Invariance` | the types; the inductive invariant | set of rows, candidates, claims, bases, dependents, bounds |
| `GovernanceProofs!ConflictFreedom` | `NoConflict` | the same |
| `GovernanceProofs!OnlyApproved` | `ActiveWasApproved` | the same |
| `GovernanceProofs!RestorableSnapshots` | snapshots name registered rows | the same |
| `GovernanceProofs!LifecycleReleased` | `MutationReleased` (until a write fails that no handler answers) | the same, any number of deaths, crashes and answered failures included |
| `GovernanceProofs!LegacyStaysOut` | `LegacyWithheld` (until a write fails) | the same, deaths, restarts and changed artifacts included |
| `RunnerProofs!RunnersSettle` | `RuntimeSettled` (until a child dies) | the same |
| `RunnerProofs!CommittedOnBase` | `CommitsOnBase` (until a child dies) | the same |
| `RestoreProofs!LkgIsMounted` | `LkgMounted` (until a death, a restart or a failed write) | the same |
| `RestoreProofs!UndoServes` | `UndoLive` (as long) | the same |
| `RestoreProofs!BootsFaithful` | `BootFaithful` (until a child dies); the versions of an owner clash | the same, crashes at any wait and every failed write included |
| `RestoreProofs!RollbackReachesTarget` | `RollbackExact`; the versions of an owner clash | the same |
| `RestoreProofs!UninstallsAreUndone` | `UninstallUndone` (until a child dies); the versions of an owner clash | the same |
| `RestoreProofs!ConsoleDecides` | `DecidedAsShown` | the same, and every number of posts |
| `ApprovalProofs!TicketsTyped`, `OnlyOnce`, `OneWaits`, `AuditTruth` | the invariants of the policy service | number of actions, calls, tickets |
| `ApprovalProofs!TicketsRefine`, `NoRequestOrphaned`, `BrokerRefine`, `Composition` | the refinements of `OneShot`, alone and composed | number of requests, history limit |
| `SessionProofs!SessionsStartReadable` | `StartReadable` | number of sessions, revisions, faults, crashes |
| `SessionProofs!RoutesAgree`, `TranscriptsStay` | `RouteAgrees` until a second write fails, and `TranscriptKept`; no flag names a session | number of sessions, revisions, faults, crashes |
| `SessionProofs!AllOrNothingHolds` | `AllOrNothing`: the refinement of `Topics`; no flag, one failing write | number of sessions, revisions, crashes |
| `LeaseProofs!CleanHome`, `CleanHomeOneWriter` | `SingleWriter` on a clean home | number of runs, attempts |
| `LeaseProofs!TwoRunsOneWriter` | `SingleWriter` and `OwnerKept` of two runs on any home | number of attempts, every point of death |
| `SkillProofs!SkillsTyped`, `SealedStays`, `OnlyApprovedServed` | types, `SealedKept`, `ServedWasApproved` | number of skills, revisions, contents, faults, kills |
| `SkillProofs!CommittedIsServed` | `ServedIsCommitted` until a third call fails | the same, kills in a recovery included |
| `SkillProofs!StoreOpens` | `StartsAgain`: the five causes for which a start is refused, until a third call fails | the same |
| `SkillProofs!DecisionsActAsShown` | `ActsAsShown` | number of skills, tabs, letters |
| `ApprovalProofs!AuthoringConsistent` | the inductive invariant of authoring | number of revisions, specifications, budgets, fixtures |
| `ApprovalProofs!FilesResolve` | `BindingsResolve` | the same |
| `ApprovalProofs!RequestsSound` | `RequestedSound` | the same |
| `ApprovalProofs!BlockersStay` | `BlockersCarried` | the same |
| `HostProofs!AdviceAlwaysWorks` | `AdviceFollowed` | catalogue, set of capabilities, wishes, drafts |
| `HostProofs!ChildrenCounted` | `PlacesCounted` | number of delegations, limit, disposals |
| `HostProofs!NoAgentUnheard` | `QuestionsHeard` | number of agents, questions |
| `HostProofs!OnlyWantedOperations` | `OperationsWanted` | number of calls and lines |
| `HostProofs!AppendsOnlyToSeen` | `AppendsToSeen` | number of notes, proposals, edits |
| `HostProofs!DeletedForGood` | `ForgottenStays` | number of records, failing writes |
| `HostProofs!EventsOnce` | `OneEvent` | number of calls and keys |
| `HostProofs!OneBriefEach` | `BriefsPaced` | interval, course of the clock |
| `HostProofs!RestoresAreWhole` | `RestoreWhole` | number of generations, damages |
| `HostProofs!HistoryFollowsTheHome` | `HistoryFollows` | number of launches, identities, upgrades, deaths |

Assumptions. Each module names its own: `RowsAssumption` (candidates are rows),
`GovernanceAssumption` (the types of the constants), `SnapshotAssumption` (a
rollback target that is undefined is no snapshot) and `HomeAssumption`: the home
that exists before the first boot is free of conflicts, which the registry's
constructor enforces; `CatalogAssumption` and `RouteAssumption`,
`LeaseAssumption`, `IndexAssumption` and `StoreAssumption` (the contents, the
absent and the torn directory differ), `DelegationAssumption`, `TaskAssumption`,
`RunnerAssumption`, `VaultAssumption` (the passages of proposals are not those of
edits), `MemoryAssumption`, `JobsAssumption`, `CalendarAssumption` (an id that
was derived from a key is no id the server chose), `BackupAssumption`,
`ProfileAssumption` (names, identities and nobody differ), `DeskAssumption`,
`NothingAssumption` (what stands for no digest, record or report is none) and
`ResolutionAssumption` (the version of an offer is a number). TLC evaluates all of
them.

Some theorems have a hypothesis besides. Each but for the one named below is
needed: without it there is a counterexample on a small instance, most of them
described in section 5.
`Flags = {}` in `RoutesAgree` and `AllOrNothingHolds`: a start that names a
session moves the catalogue and not `product.json`. `faults <= 1` in `RoutesAgree`
and `MaxFaults <= 1` in `AllOrNothingHolds`: when the operation of a route fails
and then the write that would take it back, the catalogue stays where the host
is not. `AtMostTwo` in `TwoRunsOneWriter`: three runs over a dead lease.
`faults <= 2` in `CommittedIsServed` and `StoreOpens`: the third failing call may be the mark
"degraded". `VersionsClash` in `BootsFaithful`, `RollbackReachesTarget` and
`UninstallsAreUndone`: two versions of one owner claim a capability in common, as
they declare the same tools (section 6). Otherwise no check forbids that a failed
disable leaves both active, and the next boot mounts the one over the other: with
two versions that claim nothing in common TLC finds `BootFaithful` violated, v2
running alone where v1 and v2 are committed. The proofs of the other two use the
hypothesis since they rest on the same invariant; whether they need it is open. The homes TLC checks meet it. The source does let a
version drop capabilities (`capabilitiesRemoved`, `diff.ts`), so a version that
keeps none of its predecessor's is outside these three theorems. `spent.fatals = 0` in `RuntimeSettled` and `CommitsOnBase` is part of
the property: the callback of a dead child takes no lock. So is `spent.lost = 0` in
`MutationReleased`: a write that fails where nothing answers it leaves the lock,
the pending state or the deferral behind, until the process restarts. A hypothesis on a
counter (`faults`, `spent`) speaks of the states before it is exceeded, for any
value of the bound behind it.

Governance. None of the three safety properties is inductive. A row becomes active
by a commit, which is checked for conflicts, but also by `applyRegistryOwners`
from a snapshot, which is not checked, and by the take-back of a failed removal.
`Inductive` therefore says of *everything an action could act on* what the
properties say of the registry: each snapshot that `gov`, a waiting thread or
the authority file holds consists of registered rows and is free of conflicts
(`SoundSets`), each registered candidate was approved (`SoundRegistries`), each
approval on record was given (`SoundApprovals`), and each thread that waits
between a check and the switch it guards still has its candidate approved
(`Placed`). The registered rows only grow, so that snapshots stay sound
(`SoundSets` is monotonic); after a crash they shrink to those of the file,
which is why the file's snapshots must be sound over the file's own rows.
`GovernanceProofs` begins with the lemmas on the registry's switches and on the
runtime's types; then there is one lemma per action.

The lock. `LockInv` says for each wait what is held there: which of the mutation
lock, the deferral and the pending states belong to the call that waits, and that
what is in memory is what is in the file whenever nothing is deferred
(`FileFollows`). That is `LockHeld`, and it holds until a write is lost. What
holds beyond it (`CallInv`) is only that a call that waits has the lock, never the
reverse; with it the other invariants are kept whatever was lost. The callbacks of dead children take neither, so they are
invisible to it; what they write while a call defers is flushed with that call.

The runners. `RuntimeSettled` is about the moments between calls; `RunsInv` says
what the runtime is like at each wait in between: `Calm` (everything that runs
answers for its tools, nothing is parked, one version of each owner), `Starting`
and `OnTrial` while a candidate takes the place of what it displaced, which waits
parked behind it and behind nothing else, and `Stopping` while a restore ends
children. Each lemma on `ActivationRuntime` takes one of these to another; each
action is then one such move. A version is committed on its base (`BaseInv`)
because between the check and the switch only a request for approval or a
decision can step in, and neither changes what is active.

What a restore brings back. That the last known good snapshot mounts what it calls
active says nothing of whether a restore of it would succeed, and that is what
must hold for the next activation, undo or rollback to leave such a snapshot
again. `KeptInv` therefore asks of every snapshot a call could restore that it is
`Mountable`: its active extensions are among its mounted ones, this process has a
recipe for each of those, and no two are of one owner, so that starting one parks
none of the others. Between calls (`Secure`) that holds of the current snapshot and
of the rollback target, and of the last known good one as well unless the service
admits nothing but a rollback (`Stuck`). At a wait it depends on what the call
came for: a trial keeps what is active either running or parked behind the
candidate (`TrialKept`), which a restore puts back before it drops the candidate
(`UndoKept`); a rollback keeps both ways open, to its target and back to the state
before it (`RestoreKept`); the loop of a restore keeps that what is not running yet
is still to be started (`Under`). The three conditions of `LkgMounted` and
`UndoLive` are used exactly there: a failed disable turns a row active that nothing
mounts, a dead child comes off what is mounted, and a restart forgets the recipes. The first boot is the exception: it can start nothing,
and withholds or fails closed (`BootKept`).

After a restart or a failed write `KeptInv` says nothing any more, and three
invariants take over that do not depend on what could be restored, only on what a
restore would do. `OnceInv`: every snapshot a call may restore mounts one version
of each owner, and the process remembers the recipe of whatever runs, so that a
restore never parks what it has just started. `ReadyInv` says for each wait how far
the call is: a restore has started what its snapshot mounts and it has a recipe
for (`Raised`); the remount of a boot, a rollback or an exit from Safe Mode has
either gone through everything (`Remounted`) or holds what is left to do
(`Mounting`); a service that fails closed runs nothing (`Shutting`); a boot that
finds an unfinished rollback has nothing to start again (`Early`); and a
removal carries the record it would put back (`Removing`). `RecordInv` adds the
rows: while no process died and no write failed the record names the active rows
(`Recorded`), and after the first failed write, if it is the uninstall's own, the
rows its take-back turned active are the recorded ones (`Reverting`).
`BootFaithful`, `RollbackExact` and `UninstallUndone` are the last step of each of these calls
read off the invariant. TLC confirmed the three invariants on the bounds of
`governance_faults` and `governance_restart` before they were proved.

What stays withheld. A row sealed before the authoring contract is taken out at a
boot and by a restore, and could come back with any snapshot that still names it.
`WithheldInv` says where such a snapshot can be: nowhere, once the first boot
(`Opening`) has withheld the rows, but for a last known good one that names a
changed artifact too (`Spoilt`). Nothing can be restored from that one, and only a
rollback to the target leaves Safe Mode while it is there. Every call that is under
way must lead to a state of that kind (`Leads`), also when the process dies in it,
so that memory and the file are followed side by side. A failed write is excepted
because the take-back of a failed disable turns the row active.

The console. A post is served while the card it came from is still true; what
remains to be shown is that this is so two waits later, when the call ends.
`ConsoleInv` follows the call a post started: it was started from the record, the
snapshot or the approval the card showed, its candidate stays approved while it
waits, and the fingerprint of an approval stays the same because a row is never
forgotten while the process lives. `FirstBoot` says that the boot before it takes
up no rollback, since a rollback the page started is none of a process before. The steps beside the page (`ConsoleNext`) have no
deaths and no crashes.

Approvals. In `TicketsInv` the status of a ticket determines how many promises of
it are open, how often its executor was called and its audit trail; in
`BrokerInv` the key lemma is that pruning drops decided records only.

Sessions. The current session of the catalogue and of every snapshot in the
journal is active, and the entry passes the check `readCatalogJournal` makes, so
that no sequence of routes, failures and interrupted recoveries leaves a home
that refuses to start as corrupt. `SessionInv` adds what is needed for that: a
route never ends on the session it takes away (`RouteSound`), the snapshots it may
put back are as readable as what is there, and between the prepared entry and the
operation nothing moves the catalogue (`EntryFresh`). `AgreeInv` adds where the
host, the catalogue and `product.json` may be apart: before a route's operation
everything is on the session it leaves (`Leaving`), after it one thing after the
other goes over (`Moving`), a route given up goes back unless the host was already
moved (`GivingUp`), and a start comes up where the journal says (`Bound`,
`Started`). For the refinement, `Shown` is the list a start would recover and
`Fallback` what an undo would bring back; `Known` says which of the journal's two
lists is the one that counts, so that exactly one write of a route changes `Shown`
and every other step is a stutter of `Topics`, a request or an answer.

Lease. The hypothesis of a clean home (no dead run left its lease, none ends
without its release) is what makes the theorem true: takeover is where the code
can go wrong (section 5). `CleanInv` says that the run which made the directory
finds it undisturbed (`Undisturbed`), and that the others do not get past a look
at it, because a run that is dead has released its lease (`Orderly`); it follows
that no write of an identity fails and nothing is ever put back or wiped.
Two runs on any home keep the lease for another reason: `PairInv` follows what the
other one may have in its hands. A run that holds the lease finds it in place or
in the tomb the other has just moved it to, and then that other is bound to look
(`check`), find it alive and put it back, and there is no third to take the free
path meanwhile.

Skills. `SkillInvariant` (`SkillsAgree`) relates what no property names: a record
with a fingerprint is sealed and was reviewed for it, an approved one was
approved for it (`Agrees`); the active and the last revision are sealed, so that
no later edit moves their digest (`Backed`); the parked and the incoming
directory are as approved as the served one, since an undo or a restart may put
either in place (`DirectoriesVouched`); and the index an operation would go back
to has the same reviews and approvals as the one there is (`UnderWay`).
`CommittedInv` then says for each step of a change and of its way back what lies in
each directory and what the two indexes, the new one and the one to go back to,
say of it (`IndexFollows`, `DirectoriesFollow`), and that a way back has a cause,
so that two failures are taken back or marked (`Caused`). For the desk, every
write has a generation of its own and no view or letter is of a later one
(`DeskInv`), so that a letter whose generation is the shelf's was written on that
shelf.

Authoring. What is left of a call is either the steps of one review (`Reviewing`)
or a sequence of effects each of which is legal for the candidate the call is about
(`Effecting`), in an order in which the workbench file never names a revision the
index has not got (`Ordered`). A binding names a candidate that is recorded, with
its plan (`Rooted`), and no other binding needs what an undo takes away
(`Unneeded`). That makes the workbench file loadable at every write
(`FilesResolve`). With it `BlockersStay` is a matter of one step: the report that is
stored is the one computed from the record, the binding and the reports there are
now, because nothing else of the workbench runs between. `AdviceAlwaysWorks` is about
the two rungs that make a candidate: what the ladder found is what compatibility,
registration and the conflict check then ask of it.

The small services. `DelegationInv`: a disposal is under way, and a place was
given back, only for a child that came up, so that the places held are a finite
set one step changes by one child. `TaskInv` adds types only. `RunnerInv`: the
calls an operation may run for are calls that wait, in every way a call ends.
`VaultInv`: what an append read is what it was proposed over, which the write
after it, whatever happened meanwhile, adds to. `MemoryInv`: a record the file
calls deleted is in memory exactly what it is in the file. `CalendarInv`: the
server has one event for each id, a call that was answered "created" has its
event, and a key Feishu calls completed has one. `BriefsInv`: the next brief lies
beyond the grid points of those that were started.

`BackupInv`: a restore stages only what it has verified and removes the home only
for a whole tree. `HomeInv`: the journal of a move says truly which partition
holds everything at each of its stages (`JournalTrue`), and what a launch decided
from the binding and the journal is still so when it acts on it, because it holds
the lease from there on (`Steady`).

Only model-checked. Liveness under fairness: that every boot completes
(`BootCompletes`) and every call ends (`CallsEnd`) needs `ENABLED` of every step
and is out of the prover's reach. Every other property of a passing run is a
theorem, or part of one, with the conditions named above.

## 5. Where documents and code disagree

Six statements of the documents, comments and tests are refuted by runs of their
own:

- `sessions_doc_deleted`: `docs/session-catalog.md:23`, the current route is that
  of "Host catalog + `product.json`", and `test/session-catalog.test.ts:163`, a
  deleted session is not resurrected. A start with `--session-id` (or
  `TARS_NG_SESSION_ID`) moves the catalogue and not `product.json`. If the session
  `product.json` names is then deleted, the next plain start adds it again,
  without its history (`TranscriptKept`). If it is archived instead, plain starts
  are refused until somebody names a session. `sessions` shows that without such
  flags the transcripts are kept.
- `home_start_doc_writer`: `product/runtime-lease.ts:51` (and `README.md:35`,
  `docs/packaging.md:86`), "A TARS-NG Home has at most one verified writer". Three
  runs start over a dead lease. One has read it and is about to rename it away;
  another removes it, takes the home and boots; the first now renames the live
  lease, finds that it is not the one it meant and goes to put it back, but a
  third has taken the free path meanwhile and boots as well (`OneServes`). The
  partition lock does not help against `doctor`, `skill` and `self-extension`
  commands, which do not claim it. With two runs this cannot happen
  (`SingleWriter`, `OwnerKept`).
- `skills_doc_request`: `docs/skills.md:28`, "Safe Mode mounts the Skill registry
  for inspection", `docs/skills.md:14`, which leaves taking a skill out of service
  to a human, and the description of `request_skill_approval`, "Does not approve or
  activate" (`plugins/skill-tools.ts:187`). `requestApproval` (`service.ts:371`)
  does not look whether the revision is active. For the active one it replaces the
  decision `approved-for-exact-diff`; the session goes on, and the next start
  throws "is missing committed authority" in the constructor of `SkillService`
  (`:674-676`), in Safe Mode and in the commands that could approve again as well
  (`StartPasses`).
- `skills_doc_dependents`: `docs/skills.md:50`, "hard dependents return
  `dependents-required` until the same set is acknowledged". `dependentsOf`
  (`service.ts:729`) counts the records whose life cycle is `active`, and
  `validate` (`:272`) moves that of an active revision to `validated`. After the
  assistant validated an active skill again, the one it requires is disabled
  without a question (`DependentsTold`).
- `authoring_doc_repair`: `docs/independent-review.md:16`, "Repair creates a new
  revision". A specification with executable acceptance examples puts their suite
  below `.dsh/`, which the digest at the seal leaves out and the digest the repair
  compares it with takes in (`workbench/service.ts:866`). The parent looks changed
  and every repair is refused (`RepairPossible`).
- `profile_doc_resume`: `docs/runtime-context.md:54`, "An interrupt leaves either
  the old-readable state or a journal that the next `start` can complete". A death
  between the new binding and the removal of the journal, in a move between two
  digests that `migrate-profile` authorized, leaves a journal that every later
  start refuses: at that point only the Profile's name is accepted as its source
  (`runtime-context.ts:1047`). `migrate-profile` refuses too (`MoveResumes`).

Found with the same modules, and without a run of their own:

- `docs/extension-governance.md:91`, Safe Mode "disables `generated/*` and
  refuses to activate new generated candidates": a rollback is allowed in Safe
  Mode and starts the extensions of its target (`Rollback` has no guard on
  `safeMode`, as `service.ts:381` has none).
- `docs/self-extension-operations.md:54`, "Interrupted rollback: restart
  completes rollback or enters Safe Mode": if the rollback fails again at boot
  and the prior snapshot is recovered, `finishRollback` rethrows (`:914`) and the
  boot ends outside Safe Mode. The next boot succeeds (`BootCompletes`).
- `docs/self-extension-durability.md:18`, "tentative Registry `active` metadata
  is not independently durable": an approval recorded while the commit waits
  flushes all sections, the tentative registry among them (`service.ts:307`). The
  next boot does not run it, so the effect is limited to a row that is active
  without being committed, which fails closed.
  On a home where the row is not the only one, it can be more: the disabled base
  then runs after the crash with its row off, or the new version is mounted while
  `current` does not name it. `UninstallUndone` therefore speaks of rows only as
  long as the process did not restart.
- `docs/extension-governance.md:49` and `:57`, the "assumed base version still
  matches the active owner": checked once, when the activation starts.
  `noteIsolatedRuntimeFailure` (`service.ts:1188`) takes no lock. While its restore
  brings up a dead child of another owner, an activation of v2 passes its check;
  the callback then puts back the last known good snapshot, which may be from
  before v1, v2's base, and disables v1; `commitRegistry` (`service.ts:308`)
  commits v2 all the same. `CommitsOnBase` is stated until a child dies.
- A write that fails before an activation (`service.ts:286`, before the `try` at
  `:290`) leaves `mutation` at `activation` and the state at `activation-pending`:
  every later operation is refused, the recovery rollback and Safe Mode too, until
  the process is started again. At `:393` the state stays `rollback-pending`, which
  refuses them as well. If a second write fails in a catch branch (`:341`, `:479`,
  `:542`, `:912`), `finishAuthorityCommit` is skipped and registry changes alone are
  held back from the file until another operation flushes and ends the deferral.
  `MutationReleased` and `CallsEnd` name these cases (`spent.lost`).
- `docs/skills.md:46`, "a provider sync failure restores the previous directory
  and index, or persists `degraded`": a process that is killed between the two,
  or in the mark, leaves the old directory with the new index, and the next
  start refuses the catalogue instead (`StartsAgain` excepts `cut = "sync"`).
- `docs/independent-review.md:150`, "Reviewer silence is not resolution": a blocker
  is inherited from the last report on the candidate only if that report is on
  another digest (`review/lineage.ts:39`). Code that retries by itself is reviewed
  and turned down; it is edited so that the reviewer no longer says anything, but
  not so that anything disproves the finding. The review of the new digest carries
  the blocker, as the document says; the same digest reviewed once more inherits
  nothing and is complete. `BlockersCarried` is about what the report on a parent
  revision left open.
- `test/skill-lifecycle.test.ts:860`, "keeps the same commit-failure contract
  for activate, update, disable, uninstall, and rollback": true of the
  interrupts it injects, which bypass the catch branch of `activate`
  (`service.ts:455-460`). When a call on the directories fails, the branch runs
  `rollbackActiveDirectory`; if nothing was parked yet, or
  `replaceActiveDirectory` has put it back already, that removes the live
  revision. `retireActive` does the same. `ServedIsCommitted` and `StartsAgain`
  are therefore stated until such a call fails (`broken`).
- `docs/session-catalog.md:38`, approval origins "are written once and kept as
  tombstones": after a refused operation the catch branch waits for the agent it
  made, an origin is recorded meanwhile, and a crash then lets the next start
  write the previous catalogue back without it.
- `test/runtime-lease.test.ts:637`, "lets exactly one of two simultaneous OS
  start processes own the Home": true of a clean home (`CleanHomeOneWriter`). Over
  a dead lease both can be turned away: one moves the directory the other has
  just made, before its identity is in it; the other's write fails and it gives
  up; the empty directory is put back, and no start can tell whose it is. The
  same is left by a run that is killed between `mkdir` and the identity.
- `docs/capability-resolution.md:35`: the advice to evolve the owner of an active
  import is followed half way. The draft is made, then the write of its stamp is
  refused, because imports are not edited (`candidate/service.ts:138-146`,
  `245-251`); the draft keeps the version the next import of that owner needs. The
  advice to adopt a row that is disabled fails with every creation, the version
  being the row's own, though `viewPlan` says that it can be made; and an
  implementation for an owner of the host is denied at its activation.
- `docs/engineering-reliability.md:52-57`, `docs/calendar-self-extension.md:70-82`:
  a connection that is reset after the server committed is reported as a failure,
  and a create of Feishu that timed out makes a second event when it is asked
  again without a key (`OneEvent` is about one key).
- `docs/operator.md:50`, `docs/mission-control-workspace.md:37`, the page follows
  the host: `openEvents` (`product/web-ui-http.ts:81`) sets the payload that
  `broadcast` (`:95`) compares with, so a tab that connects between a change and
  its broadcast keeps the others from hearing of it until the next change. Read
  from the code; the tab of `SkillDesk` and `Console` may be stale anyway.

Met on the way. Governance and approvals:

- A crash in `enterSafeMode` between the disabled rows, written at once
  (`service.ts:407`), and the flag, written after every child was unloaded
  (`:416`), boots the extensions with their rows disabled: `BootFaithful` holds
  of what runs, the registry differs.
- The undo of a failed activation restores `lastKnownGood` (`:284`), which
  `disable` does not move: it brings back a row that was disabled before.
- A death callback's restart of the last known good version is in flight while
  later activations go on. When the next activation of the other version has
  parked what ran and waits for its health check, the callback's version comes
  up beside it: two versions of one owner run until the activation goes on. A
  child that dies while its commit waits for the parked prior owner is still
  recorded as last known good (`:310`). `RuntimeSettled` is stated until a child
  dies; so are the others about what runs. A child that dies while the others are
  mounted at boot leaves that boot without it (`BootFaithful`), one that dies
  during an uninstall is not brought back by its undo (`UninstallUndone`).
- A restore can stop half way. Each extension it starts again is recorded as
  mounted at once (`commit`, `cordis-runtime.ts:246`), but a candidate on trial
  which the snapshot mounts is only kept, and recorded by the assignment at the end
  (`248`). When the restart of another extension throws in between, that candidate
  runs without being recorded; `failClosedSafeMode` (`325-343`) then disables its
  row and sets Safe Mode over it, and `exitSafeMode` leaves it so. A later
  activation parks and puts back such a runner like any other, so that on a home of
  four rows a *successful* undo brings back a version that the last known good
  snapshot does not mount. `UndoLive` therefore says what is recorded as mounted,
  and that nothing active is outside it.
- `enterSafeMode` captures `current` before it unloads the runners (`401-420`). A
  rollback in Safe Mode that fails recovers by that snapshot: the version it had
  unloaded runs in Safe Mode with its row disabled, and `exitSafeMode` leaves it
  so. `RollbackExact` and `LkgMounted` allow a snapshot to mount more than it
  calls active for this reason only.
- A failed disable sets the row active whatever it was (`:463`), also one that
  was withheld: `LegacyWithheld` is about rows whose artifact is intact, and
  `BootFaithful` leaves out boots that withhold after a write failed.
- A process that booted in Safe Mode has no recipes; a rollback or an undo then
  reports success for rows whose extension it cannot start. `RollbackExact` excepts
  that case in Safe Mode, `UndoLive` and `LkgMounted` are stated until the process
  restarts.
- A click on "Activate" that was made for an approval which has since been used,
  and whose row was disabled again, activates it: the approval is the same one.
- The status `approved` of a ticket is declared and never assigned, so that a
  tool call that names a confirmation never executes, though the description of
  `calendar_create_event` (`policy-tools.ts:22`) says it may; only
  `confirm_action` and the console do. A human who approves between the hook and
  the tool of one call is asked again by the second decision of that call.
- `applyRegistryOwners` passes over owners it does not know (`:1293`), so that a
  snapshot with such a name would be restored without it; `RestorableSnapshots`
  shows that no snapshot has one.

Sessions and homes:

- The unlink of a transcript can fail half way. If the deleted session was not
  the current one, the route is taken back, and the list shows a session that
  lost its history; `TranscriptKept` is stated for homes where no write failed.
- A route whose outgoing agent failed to end, or whose unlink failed, leaves its
  committed journal behind. The next route writes its own over it, so that the
  unlink it promised is never made up for; a restart before that route takes
  back a `restore` made since.
- `migrate-profile` looks at the lease and does not take it. In `Authorize` the
  look and the write are one step; taken apart, a start can bind and fill the
  home between them, and `HistoryFollows` fails.
- A start inspects the home before it has the lease, as does one in Safe Mode.
  When another run moves an unstamped home between the two, the first stamps the
  old identity, and later starts are refused. A death after the stamp of a fresh
  home and before its binding, followed by an upgrade, leaves a home that is
  refused for good.
- After a death in a move behind its copy, a Safe Mode start (the Profile does
  not load) writes into the old partition; when the move goes on, what was said
  there is not taken along (`aside`). A Safe Mode run on its own root that is
  killed leaves its files to the next one.

Skills:

- `seal` requires that the revision was validated at some time
  (`skill/service.ts:318`), not that these bytes were: `writeFile` keeps
  `validationPassed`. Review and approval are bound to the sealed digest.
- `validate`, `seal` or a second approval of an active revision move its life
  cycle off `active`: it is still served, `health` and `dependentsOf` no longer
  count it, and the console can no longer disable it.
- A process killed while it removes a live directory that is to give way to the
  parked one leaves a directory that may have lost its `SKILL.md`; the next
  `recoverInterrupted` reads it for the digest (`:654`) and throws, at every later
  start, with the good revision whole beside it (`Unreadable`). It happens in
  `rollbackActiveDirectory`, and in `recoverInterrupted` itself (`:655`): a process
  that dies in the second of two kills, while it repairs what the first left.
  `StartsAgain` says that nothing else than these refuses a start after a kill
  (`HalfRemoved`), and that the revision the index names is then still there.
- An uninstalled revision keeps its approval and can be activated again.
  Activating a new revision of a required skill retires the one in service
  without a word to its dependents.
- A tab that was told of dependents which have changed since posts the old set
  again and again, and is refused with `stale-dependents` until its user cancels.
  The armed button of a rollback confirms whatever target the view shows at the
  second click. A rollback is not withheld in Safe Mode, which the soak document
  says is meant.

Authoring and review:

- A death between the index and the workbench file of a repair leaves a child
  without a binding, which no longer inherits the blockers of its parent;
  `BlockersCarried` is about candidates that are bound. A death in a creation
  leaves a candidate the workbench adopts without a plan. The legacy stamp of a
  child whose parent is not bound never matches.
- A review that is asked for before the revision has what its lineage needs uses
  up the attempt: that lineage can never be completed.
- `setManifest` changes the record before it writes the file, and a seal whose
  flush failed is sealed in memory only.
- After a start the latest report of a candidate is the last in the order of the
  file, which `docs/independent-review.md:148` does not promise; reports without a
  digest are not stored.

The smaller services:

- Memory. Deleting a record that was superseded keeps its `supersededBy`, and the
  parser of the next start refuses the file (`service.ts:177`, `record.ts:155`).
  Replacing a record that was superseded already gives two active ones
  (`:145`). `replace` marks the old record before the new statement is checked,
  and a flush that failed leaves the memory changed.
- Runner. Neither the child nor its standard input has an `error` listener; a
  signal that was aborted before the call is not noticed; a runner whose child
  ended while it was parked is put back dead.
- Tasks. Resuming a goal through the controller is not refused in Plan Mode; a
  question asked under an aborted signal is never withdrawn; a child that was
  started earlier goes on when its parent enters Plan Mode.
- Jobs. Runs of the scheduler and the console have no owner and no limit; an
  error in `onDue` ends the tick for those behind it; a clock that is set back
  pauses the schedule until it has caught up.
- Vault. An edit in Obsidian between the read of an append and its rename is
  lost; a deleted note stays in the knowledge index until a restart. Disposing of
  integration providers out of order brings back a provider that was replaced
  (`hub.ts` 183-262).
- Backup. The previous backup is removed before the new one is copied, and a
  restore that dies between the removal of the old tree and the rename of the
  staged one has no way back. Workbench and review index are not part of a
  backup, and a restore removes them.
- `executionLogFromSession` and `toolEventsFromSession` (`workspace/gather.ts`)
  label a result with the tool of the last call before it, whichever it belongs
  to. The end of a run releases the partition before the lease (`cli.ts:654`).

## 6. What the models leave out

Governance. Only isolated candidates run in children; rows outside `Candidates`
are managed rows without a candidate, and the in-process fibres of managed
owners are not modelled. Candidates are sealed, validated, reviewed and
compatible; of the conditions of eligibility only the digest can fail later.
Versions of one owner declare the same tools, different owners disjoint ones. An
unparked runner whose tools an orphan holds counts as live. A fingerprint is
reduced to whether the base row was known. Generations, phases, timestamps and
identifiers of approvals are dropped; the label `restart` stands for every
failure without a candidate. Writes fail only at the flushes of activate,
rollback, disable and uninstall; those of requests and decisions, of Safe Mode, of
the failure callback, of the remount and of the boot, at which the same error ends
the call with memory ahead of the file but holds nothing, are taken to succeed. So
are the writes of registry rows between two flushes, and the writes of other
sections (`saveReviewLineage`, `appendDiagnostic`), which would land a section
whose flush had failed. The registry writes of one synchronous segment count as one. The
hooks `holdX`, `failX` and `interruptAfter` are for tests, and so is the migration
of records from before the authoring contract (661-730), of which only the
result, a row that is withheld, is there. Paths without a last known good
snapshot are unreachable from the homes of `Init`. Deaths of orphaned runners,
which no handler answers for, are not modelled. `applyRegistryOwners` does not
throw, because the snapshots are free of conflicts, which is proved.

Console. The generation of the snapshot and the number of the attempt in a card's
id are left out, so that more posts are accepted than by the code. A recovery
rollback through `/api/recovery` is bound to no card. The event stream, its
reconnection and the other pages are not modelled.

Approvals. Read and propose intents change nothing. Audit records of decisions
that change no ticket (`allow`, `pending_confirmation`, refusals of stale
decisions) are left out, being unbounded. A call that another hook refuses
behaves like an aborted one. The requests of the bridge are numbered in the
order of their handlers, and each is bound to its own question of the session's
log, which is DSH's.

Sessions. Titles, previews, times and search are left out; the binding of a
catalogue to a Profile identity is that of `ProfileHome` and is not repeated. The
flush, the disposal and the making of agents are waits with an outcome. A route
is refused while its agent runs or its tokens are stale; both only prevent it.
`finishAdopt` is not modelled: a start makes the agent for the target of the
entry it recovers, so the host is never elsewhere. A start with
`ephemeralRecovery` has no catalogue. That a flag names a session that was
deleted is left out of `Requested`.

Lease. A pid that is used again by another program only makes a lease ambiguous
for ever; foreign or malformed identity files do the same, and neither is
modelled. Whether a live owner answers the challenge decides the message only.
The removal of a directory tree is one step. The attempts at the partition lock
are not counted, and its staging directory, which only its own run and the sweep
of another one touch, is part of `Publish`: two runs reach it together only when
the lease has already failed. `localHolds` distinguishes two acquisitions in one
process, which the program does not make.

Profile. The lease is one variable, whose own steps are in `RuntimeLease`; a
Profile is its identity and whether it loads and fits the adapter; copies and
removals of a tree are one or two steps; the personality, the settings and the
adapters of a Profile are left out.

Skills. System skills, events, descriptions and the text of failures are left
out, and dependencies of `SkillStore`, which `SkillDesk` has. The version of a new
revision is any that is free: imports bring their own, drafts take the next. The
outcome of an independent review depends on the sealed bytes only (`Passing`), so
that a second review of a digest repeats the first. The put-back inside
`replaceActiveDirectory` and the discard of the incoming copy in the catch branch
are taken to succeed. A directory half removed is one that has lost its `SKILL.md`
(`Torn`); one that has lost less is the same to `recoverInterrupted` or is
removed by it. A call that fails in the constructor ends the process, and
the next one starts from what it left; it is a `Recover` that was not taken. On
the page the two clicks of a decision (arm, confirm) are one, except for what the
first forgets; seal, review and request are one write; the generation counts the
writes of the model.

Authoring. Files are a content and what the gates say of it; manifests, acceptance
examples and bundles are what they declare; one plan and one specification are
live at a time. Artifact descriptions, candidate templates, the schemas of the
tools and the reviewer's prose are left out.

Resolution. Text search and ranking are left out: discovery returns a list with a
class each. The inventory of the product is always complete
(`plugins/workbench-plugin.ts:112`).

Runner, children, tasks, memory, jobs, calendar, vault. A line of a child that is
the JSON value `null`, at which the host's line handler throws, is not modelled. Payloads, texts, limits of
size and the schemas of messages are left out; a time-out is an event that may
come at any time while its call waits.

Not modelled at all, because they keep no state between calls, or state whose
order does not matter, or are text or input and output: the reliability gate,
personality and persona, the evaluation harness, settings and doctor, the command
line and the access to language models, titles, previews and search of
conversations, the keyword index of notes, the weather, mail and search providers,
the read-only projections of the workspace and the markup of the console.
`PROJECT.json` lists each with its reason.

## 7. What is left

In order of importance, with what each would add:

1. The event stream of the console with its reconnection, composed with a tab.
2. The in-process fibres of managed owners, as a second kind of runner.
3. `Authoring` composed with `Governance`, which takes its artifacts as sealed.

## 8. Running the checks

In `tla/`, with the community modules and the TLAPS library on the path:

    tlc -workers 2 -config GovernanceRestart.cfg MCGovernance
    tlc -workers 2 -config Sessions.cfg          MCSessions
    tlc -workers 2 -config Skills.cfg            MCSkills
    tlc -workers 2 -config Host.cfg              MCHost

and so on for the other configurations (`Governance*` with `MCGovernance`,
`Sessions*` with `MCSessions`, `Skills*` with `MCSkills`, the rest with `MCHost`);
those of section 5 end in a counterexample. `tlapm M.tla` checks the proofs of
`GovernanceProofs`, `RunnerProofs`, `RestoreProofs`, `ApprovalProofs`,
`SessionProofs`, `LeaseProofs`, `SkillProofs` and `HostProofs`, the first three in
this order.
