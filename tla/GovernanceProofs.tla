---------------------------- MODULE GovernanceProofs ----------------------------
(***************************************************************************)
(* For every set of rows, owners, claims and bounds: the governance never  *)
(* has two active rows claim one capability, in memory or on disk; never   *)
(* activates an extension no trusted authority approved; never keeps a     *)
(* snapshot of rows the registry does not hold; never ends a call with the *)
(* authority file behind memory or the lifecycle locked; and never brings  *)
(* back a row it withholds because of the host contract.                   *)
(***************************************************************************)
EXTENDS GovernanceInvariant, TLAPS

-----------------------------------------------------------------------------
(* The registry: what its operators preserve, for any rows and claims.     *)

(* A clash is mutual. *)
LEMMA ClashSymmetric ==
    ASSUME NEW x, NEW y, Clash(x, y)
    PROVE  Clash(y, x)
BY DEF Clash

(* Fewer rows cannot clash more. *)
LEMMA ConflictFreeSubset ==
    ASSUME NEW S, NEW T, ConflictFree(S), T \subseteq S
    PROVE  ConflictFree(T)
BY DEF ConflictFree

(* Rows that clash with none of a conflict-free set may join it. *)
LEMMA ConflictFreeAdd ==
    ASSUME NEW S, NEW x, ConflictFree(S), \A y \in S : ~Clash(x, y)
    PROVE  ConflictFree(S \cup {x})
BY ClashSymmetric DEF ConflictFree, Clash

(* Disabling registered rows registers nothing and activates nothing: it   *)
(* is what Safe Mode, a removal and a withheld owner do.                   *)
LEMMA DisableSound ==
    ASSUME NEW reg \in Registries, NEW S, S \subseteq Known(reg)
    PROVE  /\ SetStatus(reg, S, "disabled") \in Registries
           /\ Known(SetStatus(reg, S, "disabled")) = Known(reg)
           /\ Active(SetStatus(reg, S, "disabled")) = Active(reg) \ S
BY DEF Registries, Statuses, SetStatus, Known, Active

LEMMA DisableGeneratedSound ==
    ASSUME NEW reg \in Registries
    PROVE  /\ DisableGenerated(reg) \in Registries
           /\ Known(DisableGenerated(reg)) = Known(reg)
           /\ Active(DisableGenerated(reg)) = Active(reg) \ Candidates
BY DEF Registries, Statuses, SetStatus, Known, Active, DisableGenerated, ActiveGenerated

(* Switching an owner to a candidate that clashes with no other active row *)
(* leaves the active rows free of conflicts.                               *)
LEMMA CommitSound ==
    ASSUME NEW reg \in Registries, NEW c \in Rows, ConflictFree(Active(reg)), MayCommit(reg, c)
    PROVE  /\ CommitRow(reg, c) \in Registries
           /\ Known(CommitRow(reg, c)) = Known(reg) \cup {c}
           /\ ConflictFree(Active(CommitRow(reg, c)))
<1> DEFINE out == SetStatus(reg, Outgoing(reg, c), "disabled")
<1>1. /\ out \in Registries
      /\ Known(out) = Known(reg)
      /\ Active(out) = Active(reg) \ Outgoing(reg, c)
  <2>1. Outgoing(reg, c) \subseteq Known(reg)
    BY DEF Outgoing, Active, Known
  <2> QED
    BY <2>1, DisableSound
<1>2. ConflictFree(Active(out) \cup {c})
  <2>1. ConflictFree(Active(out))
    BY <1>1, ConflictFreeSubset
  <2>2. \A y \in Active(out) : ~Clash(c, y)
    BY DEF MayCommit, MayActivate
  <2> QED
    BY <2>1, <2>2, ConflictFreeAdd
<1>3. /\ CommitRow(reg, c) \in Registries
      /\ Known(CommitRow(reg, c)) = Known(out) \cup {c}
      /\ Active(CommitRow(reg, c)) = Active(out) \cup {c}
  <2>1. CommitRow(reg, c) = SetStatus(out, {c}, "active")
    BY DEF CommitRow
  <2> HIDE DEF out
  <2> QED
    BY <1>1, <2>1 DEF SetStatus, Registries, Statuses, Known, Active
<1> QED
  BY <1>1, <1>2, <1>3

(* Turning back on a registered row that clashes with no active row. *)
LEMMA ReactivateSound ==
    ASSUME NEW reg \in Registries, NEW x \in Known(reg), ConflictFree(Active(reg)),
           MayActivate(reg, x)
    PROVE  /\ SetStatus(reg, {x}, "active") \in Registries
           /\ Known(SetStatus(reg, {x}, "active")) = Known(reg)
           /\ ConflictFree(Active(SetStatus(reg, {x}, "active")))
<1>1. ConflictFree(Active(reg) \cup {x})
  BY ConflictFreeAdd DEF MayActivate
<1>2. Active(SetStatus(reg, {x}, "active")) = Active(reg) \cup {x}
  BY DEF SetStatus, Registries, Known, Active
<1>3. /\ SetStatus(reg, {x}, "active") \in Registries
      /\ Known(SetStatus(reg, {x}, "active")) = Known(reg)
  BY DEF SetStatus, Registries, Statuses, Known
<1> QED
  BY <1>1, <1>2, <1>3

(* Restoring the owners of a snapshot activates nothing outside them. *)
LEMMA ApplyOwnersSound ==
    ASSUME NEW reg \in Registries, NEW owners
    PROVE  /\ ApplyOwners(reg, owners) \in Registries
           /\ Known(ApplyOwners(reg, owners)) = Known(reg)
           /\ Active(ApplyOwners(reg, owners)) = owners \cap Known(reg)
BY DEF Registries, Statuses, ApplyOwners, Known, Active

-----------------------------------------------------------------------------
(* The runtime: every operation maps runtime states to runtime states.    *)

LEMMA FreshRuntimeType == FreshRuntime \in Runtimes
BY DEF FreshRuntime, Runtimes, NobodyParked

LEMMA StartTypes ==
    ASSUME NEW p \in Runtimes, NEW c \in Candidates, NEW evolves \in BOOLEAN
    PROVE  /\ Park(p, c, evolves) \in Runtimes
           /\ Started(p, c) \in Runtimes
           /\ Mounted(p, c) \in Runtimes
<1>1. Displaced(p, c) \subseteq Candidates
  BY DEF Displaced, Runtimes
<1>2. Park(p, c, evolves) \in Runtimes
  BY <1>1 DEF Park, Runtimes
<1>3. Started(p, c) \in Runtimes
  BY DEF Started, Runtimes
<1>4. Mounted(p, c) \in Runtimes
  BY DEF Mounted, Runtimes
<1> QED
  BY <1>2, <1>3, <1>4

LEMMA UnparkTypes ==
    ASSUME NEW p \in Runtimes, NEW c \in Candidates, NEW S \in SUBSET Candidates
    PROVE  /\ Unparked(p, S) \in Runtimes
           /\ Unpark(p, c) \in Runtimes
<1>1. ASSUME NEW r \in Runtimes, NEW T \in SUBSET Candidates
      PROVE  Unparked(r, T) \in Runtimes
  BY DEF Unparked, Runtimes
<1>2. [p EXCEPT !.generated = @ \ {c}, !.parked[c] = {}, !.swapped = @ \ {c}] \in Runtimes
  BY DEF Runtimes
<1>3. p.parked[c] \in SUBSET Candidates
  BY DEF Runtimes
<1>4. Unpark(p, c) \in Runtimes
  BY <1>1, <1>2, <1>3 DEF Unpark
<1> QED
  BY <1>1, <1>4

LEMMA StartFailedType ==
    ASSUME NEW p \in Runtimes, NEW c \in Candidates, NEW clash \in BOOLEAN
    PROVE  StartFailed(p, c, clash) \in Runtimes
<1>1. [p EXCEPT !.recipes = @ \cup {c}] \in Runtimes
  BY DEF Runtimes
<1> QED
  BY <1>1, UnparkTypes DEF StartFailed

LEMMA StopTypes ==
    ASSUME NEW p \in Runtimes, NEW S
    PROVE  /\ DiscardParked(p, S) \in Runtimes
           /\ Dropping(p, S) \in Runtimes
           /\ Dropped(p, S) \in Runtimes
           /\ Unloading(p, S) \in Runtimes
<1>1. ASSUME NEW r \in Runtimes, NEW T
      PROVE  DiscardParked(r, T) \in Runtimes /\ Dropping(r, T) \in Runtimes /\ Dropped(r, T) \in Runtimes
  <2>1. DiscardParked(r, T) \in Runtimes
    <3>1. [c \in Candidates |-> IF c \in T THEN {} ELSE r.parked[c]] \in [Candidates -> SUBSET Candidates]
      BY DEF Runtimes
    <3> QED
      BY <3>1 DEF DiscardParked, Runtimes
  <2>2. Dropping(r, T) \in Runtimes
    BY DEF Dropping, Runtimes
  <2>3. Dropped(r, T) \in Runtimes
    BY DEF Dropped, Runtimes
  <2> QED
    BY <2>1, <2>2, <2>3
<1>2. Unloading(p, S) \in Runtimes
  BY <1>1 DEF Unloading
<1> QED
  BY <1>1, <1>2

LEMMA RestoreTypes ==
    ASSUME NEW p \in Runtimes, NEW snap, snap.mounted \in SUBSET Candidates
    PROVE  /\ BeginRestore(p, snap) \in Runtimes
           /\ EndRestore(p, snap) \in Runtimes
           /\ Unwanted(p, snap) \in SUBSET Candidates
<1>1. Unwanted(p, snap) \in SUBSET Candidates
  BY DEF Unwanted, Runtimes
<1>2. EndRestore(p, snap) \in Runtimes
  BY DEF EndRestore, Runtimes
<1>3. BeginRestore(p, snap) \in Runtimes
  <2> DEFINE gone == p.swapped \ snap.mounted
             back == UNION {p.parked[c] : c \in gone}
             kept == [Dropping(p, Unwanted(p, snap)) EXCEPT !.generated = @ \ gone,
                                                !.parked = NobodyParked, !.swapped = @ \ gone]
  <2>1. Dropping(p, Unwanted(p, snap)) \in Runtimes
    BY StopTypes
  <2>2. kept \in Runtimes
    BY <2>1 DEF Runtimes, NobodyParked
  <2>3. back \in SUBSET Candidates
    <3>1. \A c \in gone : p.parked[c] \in SUBSET Candidates
      BY DEF Runtimes
    <3> QED
      BY <3>1
  <2>4. BeginRestore(p, snap) = Unparked(kept, back)
    BY DEF BeginRestore
  <2> HIDE DEF kept, back
  <2>5. Unparked(kept, back) \in Runtimes
    BY <2>2, <2>3 DEF Unparked, Runtimes
  <2> QED
    BY <2>4, <2>5
<1> QED
  BY <1>1, <1>2, <1>3

LEMMA RestartableType ==
    ASSUME NEW p \in Runtimes, NEW S
    PROVE  Restartable(p, S) \subseteq Candidates
BY DEF Restartable, Runtimes

-----------------------------------------------------------------------------
(* Sound data.                                                             *)

(* Registering more rows keeps every snapshot sound. *)
LEMMA SoundMonotone ==
    ASSUME NEW K, NEW K2, K \subseteq K2
    PROVE  /\ SoundSets(K) \subseteq SoundSets(K2)
           /\ SoundSnapshots(K) \subseteq SoundSnapshots(K2)
           /\ SoundGovs(K) \subseteq SoundGovs(K2)
           /\ SoundThreads(K) \subseteq SoundThreads(K2)
<1>1. SoundSets(K) \subseteq SoundSets(K2)
  BY DEF SoundSets
<1>2. SoundSnapshots(K) \subseteq SoundSnapshots(K2)
  BY <1>1 DEF SoundSnapshots
<1>3. SoundGovs(K) \subseteq SoundGovs(K2)
  BY <1>2 DEF SoundGovs
<1>4. SoundThreads(K) \subseteq SoundThreads(K2)
  BY <1>1, <1>2, <1>3 DEF SoundThreads
<1> QED
  BY <1>1, <1>2, <1>3, <1>4

(* A sound value has the type the specification gives it. *)
LEMMA SoundTyped ==
    ASSUME NEW K
    PROVE  /\ SoundSnapshots(K) \subseteq Snapshots
           /\ SoundGovs(K) \subseteq Govs
           /\ SoundThreads(K) \subseteq ThreadStates
<1>1. SoundSets(K) \subseteq SUBSET Rows
  BY DEF SoundSets
<1>2. SoundSnapshots(K) \subseteq Snapshots
  BY <1>1 DEF SoundSnapshots, Snapshots
<1>3. SoundGovs(K) \subseteq Govs
  BY <1>2 DEF SoundGovs, Govs
<1>4. SoundThreads(K) \subseteq ThreadStates
  BY <1>1, <1>2, <1>3 DEF SoundThreads, ThreadStates
<1> QED
  BY <1>2, <1>3, <1>4

LEMMA ThreadsMonotone ==
    ASSUME NEW f, NEW K, NEW K2, NEW b, NEW b2, K \subseteq K2, b \subseteq b2, ThreadsSound(f, K, b)
    PROVE  ThreadsSound(f, K2, b2)
<1>1. f \in [Threads -> SoundThreads(K2)]
  BY SoundMonotone DEF ThreadsSound
<1>2. \A t \in Threads : Placed(f[t], K2, b2)
  BY DEF ThreadsSound, Placed
<1> QED
  BY <1>1, <1>2 DEF ThreadsSound

(* The active rows of a sound registry make a sound snapshot. *)
LEMMA CaptureSound ==
    ASSUME NEW b, NEW reg \in SoundRegistries(b), NEW r \in Runtimes
    PROVE  /\ Active(reg) \in SoundSets(Known(reg))
           /\ Capture(reg, r) \in SoundSnapshots(Known(reg))
<1>1. Active(reg) \in SoundSets(Known(reg))
  BY DEF SoundSets, SoundRegistries, Active, Known
<1>2. r.mounted \in SUBSET Candidates
  BY DEF Runtimes
<1> QED
  BY <1>1, <1>2 DEF Capture, SoundSnapshots

LEMMA FallbackSound ==
    ASSUME NEW K, NEW g \in SoundGovs(K)
    PROVE  Fallback(g) \in SoundSnapshots(K) /\ Committed(g) \in SoundSnapshots(K)
BY DEF Fallback, Committed, SoundGovs

LEMMA FailureTyped ==
    ASSUME NEW K, NEW g \in SoundGovs(K), NEW rolledBack \in BOOLEAN, NEW safeRequired \in BOOLEAN
    PROVE  Failure(Blamed(g), rolledBack, safeRequired) \in Failures
BY DEF Failure, Blamed, Failures, SoundGovs

-----------------------------------------------------------------------------
(* Sound homes and resting threads.                                        *)

LEMMA HomeSound ==
    ASSUME NEW kept \in {{}, Legacy}
    PROVE  /\ HomeRegistry(kept) \in SoundRegistries(kept)
           /\ HomeState(kept) \in SoundGovs(Known(HomeRegistry(kept)))
           /\ HomeApprovals(kept) \in SoundApprovals(kept)
<1>1. kept \subseteq Candidates /\ kept \subseteq Rows
  BY GovernanceAssumption, RowsAssumption
<1>2. /\ HomeRegistry(kept) \in Registries
      /\ Known(HomeRegistry(kept)) = (Rows \ Candidates) \cup kept
      /\ Active(HomeRegistry(kept)) = (Rows \ Candidates) \cup kept
  BY <1>1, RowsAssumption DEF HomeRegistry, Known, Active, Registries, Statuses
<1>3. ConflictFree((Rows \ Candidates) \cup kept) /\ ConflictFree(Rows \ Candidates)
  BY HomeAssumption, ConflictFreeSubset
<1>4. HomeRegistry(kept) \in SoundRegistries(kept)
  BY <1>1, <1>2, <1>3 DEF SoundRegistries
<1>5. /\ (Rows \ Candidates) \cup kept \in SoundSets(Known(HomeRegistry(kept)))
      /\ Rows \ Candidates \in SoundSets(Known(HomeRegistry(kept)))
  BY <1>1, <1>2, <1>3 DEF SoundSets
<1>6. /\ [owners |-> (Rows \ Candidates) \cup kept, mounted |-> kept]
              \in SoundSnapshots(Known(HomeRegistry(kept)))
      /\ HomeSnapshot \in SoundSnapshots(Known(HomeRegistry(kept)))
  BY <1>1, <1>5 DEF SoundSnapshots, HomeSnapshot
<1>7. NoFailure \in Failures
  BY DEF NoFailure, Failures
<1>8. HomeState(kept) \in SoundGovs(Known(HomeRegistry(kept)))
  BY <1>6, <1>7 DEF HomeState, SoundGovs, ActivationStates
<1>9. HomeApprovals(kept) \in SoundApprovals(kept)
  BY <1>1 DEF HomeApprovals, SoundApprovals, Approvals, Decisions
<1> QED
  BY <1>4, <1>8, <1>9

LEMMA RestingSound ==
    ASSUME NEW K, NEW b, Rows \ Candidates \subseteq K
    PROVE  Resting \in SoundThreads(K) /\ Placed(Resting, K, b)
<1>1. /\ Rows \ Candidates \in SoundSets(K)
      /\ {} \in SoundSets(K)
  BY HomeAssumption, ConflictFreeSubset DEF SoundSets, ConflictFree
<1>2. HomeSnapshot \in SoundSnapshots(K)
  BY <1>1 DEF HomeSnapshot, SoundSnapshots
<1>3. HomeState({}) \in SoundGovs(K)
  <2>1. [owners |-> (Rows \ Candidates) \cup {}, mounted |-> {}] = HomeSnapshot
    BY DEF HomeSnapshot
  <2>2. NoFailure \in Failures
    BY DEF NoFailure, Failures
  <2> QED
    BY <1>2, <2>1, <2>2 DEF HomeState, SoundGovs, ActivationStates
<1>4. Resting \in SoundThreads(K)
  BY <1>1, <1>2, <1>3 DEF Resting, SoundThreads, Points
<1>5. Placed(Resting, K, b)
  BY DEF Resting, Placed
<1> QED
  BY <1>4, <1>5

(* One thread moves on, the others wait. *)
LEMMA GotoSound ==
    ASSUME NEW K, NEW b, NEW t \in Threads, ThreadsSound(th, K, b),
           NEW rec \in SoundThreads(K), Placed(rec, K, b), Goto(t, rec)
    PROVE  ThreadsSound(th', K, b)
BY DEF Goto, ThreadsSound

-----------------------------------------------------------------------------
(* The parts the actions are made of.                                      *)

LEMMA DisabledSound ==
    ASSUME NEW b, NEW reg \in SoundRegistries(b), NEW S, S \subseteq Known(reg)
    PROVE  /\ SetStatus(reg, S, "disabled") \in SoundRegistries(b)
           /\ Known(SetStatus(reg, S, "disabled")) = Known(reg)
<1>1. reg \in Registries /\ ConflictFree(Active(reg))
  BY DEF SoundRegistries
<1> QED
  BY <1>1, DisableSound, ConflictFreeSubset DEF SoundRegistries

LEMMA GeneratedDisabledSound ==
    ASSUME NEW b, NEW reg \in SoundRegistries(b)
    PROVE  /\ DisableGenerated(reg) \in SoundRegistries(b)
           /\ Known(DisableGenerated(reg)) = Known(reg)
<1>1. reg \in Registries /\ ConflictFree(Active(reg))
  BY DEF SoundRegistries
<1> QED
  BY <1>1, DisableGeneratedSound, ConflictFreeSubset DEF SoundRegistries

LEMMA AppliedSound ==
    ASSUME NEW b, NEW reg \in SoundRegistries(b), NEW owners, ConflictFree(owners)
    PROVE  /\ ApplyOwners(reg, owners) \in SoundRegistries(b)
           /\ Known(ApplyOwners(reg, owners)) = Known(reg)
<1>1. reg \in Registries
  BY DEF SoundRegistries
<1>2. ConflictFree(owners \cap Known(reg))
  BY ConflictFreeSubset
<1> QED
  BY <1>1, <1>2, ApplyOwnersSound DEF SoundRegistries

(* A whole file. *)
LEMMA FileSound ==
    ASSUME NEW b, NEW reg \in SoundRegistries(b), NEW a \in SoundApprovals(b),
           NEW g \in SoundGovs(Known(reg))
    PROVE  /\ FileOf(reg, a, g) \in Disks(b, Known(reg))
           /\ FileOf(reg, a, g).registry = reg /\ FileOf(reg, a, g).gov = g
<1>1. g \in Govs
  BY SoundTyped
<1> QED
  BY <1>1 DEF FileOf, Sections, Disks

LEMMA DisksGrow ==
    ASSUME NEW b, NEW K, NEW K2, K \subseteq K2, NEW d \in Disks(b, K)
    PROVE  d \in Disks(b, K2)
<1>1. SoundGovs(K) \subseteq SoundGovs(K2)
  BY SoundMonotone
<1>2. d \in [registry : SoundRegistries(b), approvals : SoundApprovals(b), gov : Govs,
             store : [approvals : SoundApprovals(b), gov : SoundGovs(K2)]]
  BY <1>1 DEF Disks
<1> QED
  BY <1>2 DEF Disks

(* A write of the whole file. *)
LEMMA FlushSound ==
    ASSUME NEW b, registry' \in SoundRegistries(b), approvals' \in SoundApprovals(b),
           gov' \in SoundGovs(Known(registry')), Flush
    PROVE  disk' \in Disks(b, Known(registry')) /\ disk'.registry = registry'
BY FileSound DEF Flush

(* A registry change that is written at once, unless writes are deferred. *)
LEMMA SavedSound ==
    ASSUME NEW b, registry' \in SoundRegistries(b), NEW d \in Disks(b, Known(registry'))
    PROVE  Saved(d) \in Disks(b, Known(registry'))
<1>1. CASE deferred' \/ registry' = registry
  BY <1>1 DEF Saved
<1>2. CASE ~(deferred' \/ registry' = registry)
  <2>1. Saved(d) = [d EXCEPT !.registry = registry', !.approvals = d.store.approvals,
                             !.gov = d.store.gov]
    BY <1>2 DEF Saved
  <2>2. /\ d.store.approvals \in SoundApprovals(b)
        /\ d.store.gov \in SoundGovs(Known(registry')) /\ d.store.gov \in Govs
    BY SoundTyped DEF Disks
  <2> QED
    BY <2>1, <2>2 DEF Disks
<1> QED
  BY <1>1, <1>2

LEMMA SaveRegistrySound ==
    ASSUME NEW b, registry' \in SoundRegistries(b), NEW d \in Disks(b, Known(registry')),
           SaveRegistry(d)
    PROVE  disk' \in Disks(b, Known(registry'))
BY SavedSound DEF SaveRegistry

(* A write that fails leaves new sections for the next one. *)
LEMMA StoreSound ==
    ASSUME NEW b, NEW K, NEW d \in Disks(b, K), NEW a \in SoundApprovals(b), NEW g \in SoundGovs(K)
    PROVE  [d EXCEPT !.store = Sections(a, g)] \in Disks(b, K)
BY DEF Sections, Disks

(* runtime.restore, entered with a sound snapshot. *)
LEMMA RestoringSound ==
    ASSUME NEW K, NEW b, NEW t \in Threads, ThreadsSound(th, K, b), NEW here \in SoundThreads(K),
           NEW ret \in Returns, NEW snap \in SoundSnapshots(K), NEW reg, Active(reg) \in SoundSets(K),
           NEW r \in Runtimes, Restoring(t, here, ret, snap, reg, r)
    PROVE  rt' \in Runtimes /\ ThreadsSound(th', K, b)
<1> DEFINE rec == [here EXCEPT !.pc = "restore", !.wait = RestoreWaits(r, snap), !.ret = ret,
                               !.snap = snap, !.owners = Active(reg), !.todo = snap.mounted,
                               !.drop = Unwanted(r, snap)]
<1>1. snap.mounted \in SUBSET Candidates /\ snap.mounted \in SUBSET Rows
  BY RowsAssumption DEF SoundSnapshots
<1>2. rt' \in Runtimes /\ Unwanted(r, snap) \in SUBSET Candidates
  BY <1>1, RestoreTypes DEF Restoring
<1>3. RestoreWaits(r, snap) \in BOOLEAN
  BY DEF RestoreWaits
<1>4. rec \in SoundThreads(K)
  BY <1>1, <1>2, <1>3 DEF SoundThreads, Points
<1>5. rec.pc = "restore" /\ rec.ret = ret
  BY DEF SoundThreads
<1>6. Placed(rec, K, b)
  BY <1>5 DEF Placed
<1>7. Goto(t, rec)
  BY DEF Restoring
<1> QED
  BY <1>2, <1>4, <1>6, <1>7, GotoSound

(* failClosedSafeMode up to its wait. *)
LEMMA FailingClosedSound ==
    ASSUME NEW b, NEW t \in Threads, NEW reg \in SoundRegistries(b), NEW g \in SoundGovs(Known(reg)),
           NEW r \in Runtimes, NEW here \in SoundThreads(Known(reg)),
           ThreadsSound(th, Known(reg), b), NEW pc \in {"close", "shut"},
           FailingClosed(t, here, pc, reg, g, r)
    PROVE  /\ registry' \in SoundRegistries(b) /\ Known(registry') = Known(reg)
           /\ gov' \in SoundGovs(Known(reg)) /\ rt' \in Runtimes
           /\ ThreadsSound(th', Known(reg), b)
<1> DEFINE rec == [here EXCEPT !.pc = pc, !.wait = UnloadWaits(r, Candidates), !.drop = r.generated]
<1>1. registry' \in SoundRegistries(b) /\ Known(registry') = Known(reg)
  BY GeneratedDisabledSound DEF FailingClosed
<1>2. Capture(DisableGenerated(reg), r) \in SoundSnapshots(Known(reg))
  BY GeneratedDisabledSound, CaptureSound
<1>3. gov' \in SoundGovs(Known(reg))
  BY <1>2 DEF FailingClosed, SoundGovs, ActivationStates
<1>4. rt' \in Runtimes
  BY StopTypes DEF FailingClosed
<1>5. UnloadWaits(r, Candidates) \in BOOLEAN /\ r.generated \in SUBSET Candidates
  BY DEF UnloadWaits, Runtimes
<1>6. rec \in SoundThreads(Known(reg))
  BY <1>5 DEF SoundThreads, Points
<1>7. rec.pc = pc
  BY DEF SoundThreads
<1>8. Placed(rec, Known(reg), b)
  BY <1>7 DEF Placed
<1>9. Goto(t, rec)
  BY DEF FailingClosed
<1> QED
  BY <1>1, <1>3, <1>4, <1>6, <1>8, <1>9, GotoSound

(* remountCommittedGenerated up to its first wait. *)
LEMMA RemountingSound ==
    ASSUME NEW b, NEW t \in Threads, NEW reg \in SoundRegistries(b), NEW g \in SoundGovs(Known(reg)),
           NEW r \in Runtimes, NEW here \in SoundThreads(Known(reg)),
           ThreadsSound(th, Known(reg), b), NEW then \in {"boot", "rollback", "failure"},
           NEW d \in Disks(b, Known(reg)),
           Remounting(t, here, then, reg, g, r, d)
    PROVE  /\ registry' \in SoundRegistries(b) /\ Known(registry') = Known(reg)
           /\ gov' \in SoundGovs(Known(reg)) /\ rt' \in Runtimes
           /\ ThreadsSound(th', Known(reg), b)
           /\ disk' \in Disks(b, Known(reg))
<1> DEFINE targets  == Committed(g).owners \cap Candidates
           held     == targets \cap Legacy \cap intact
           sound    == targets \subseteq intact /\ ActiveGenerated(reg) \subseteq targets
           withheld == SetStatus(reg, held, "disabled")
           go       == [here EXCEPT !.then = then, !.todo = {}, !.held = {}]
           skip     == [go EXCEPT !.pc = "mounted", !.wait = FALSE]
           mount    == [go EXCEPT !.pc = "mount", !.wait = FALSE, !.todo = Remountable(g), !.held = held]
<1>1. Committed(g).owners \in SoundSets(Known(reg))
  BY FallbackSound DEF SoundSnapshots
<1>2. held \subseteq Known(reg) /\ held \in SUBSET Candidates
  BY <1>1 DEF SoundSets
<1>3. withheld \in SoundRegistries(b) /\ Known(withheld) = Known(reg)
  BY <1>2, DisabledSound
<1>4. go \in SoundThreads(Known(reg))
  BY DEF SoundThreads
<1>5. /\ registry' \in SoundRegistries(b) /\ Known(registry') = Known(reg)
      /\ gov' \in SoundGovs(Known(reg)) /\ rt' \in Runtimes
      /\ ThreadsSound(th', Known(reg), b)
  <2>1. CASE g.safeMode /\ registry' = reg /\ gov' = g /\ rt' = r /\ Goto(t, skip)
    <3>1. skip \in SoundThreads(Known(reg)) /\ skip.pc = "mounted"
      BY <1>4 DEF SoundThreads, Points
    <3>2. Placed(skip, Known(reg), b)
      BY <3>1 DEF Placed
    <3> HIDE DEF skip
    <3> QED
      BY <2>1, <3>1, <3>2, GotoSound
  <2>2. CASE FailingClosed(t, go, "close", withheld, g, r)
    <3> HIDE DEF go, withheld
    <3>1. ThreadsSound(th, Known(withheld), b) /\ go \in SoundThreads(Known(withheld))
          /\ g \in SoundGovs(Known(withheld))
      BY <1>3, <1>4
    <3> QED
      BY <1>3, <2>2, <3>1, FailingClosedSound
  <2>3. CASE /\ registry' = withheld /\ rt' = r
             /\ gov' = IF held = {} THEN g ELSE [g EXCEPT !.failure = Failure(Blamed(g), FALSE, FALSE)]
             /\ Goto(t, mount)
    <3>1. gov' \in SoundGovs(Known(reg))
      BY <2>3, FailureTyped DEF SoundGovs
    <3>2. Remountable(g) \in SUBSET Candidates /\ Remountable(g) \in SUBSET Rows
      BY RowsAssumption DEF Remountable
    <3>3. mount \in SoundThreads(Known(reg)) /\ mount.pc = "mount" /\ mount.todo = Remountable(g)
      BY <1>2, <1>4, <3>2 DEF SoundThreads, Points
    <3>4. Placed(mount, Known(reg), b)
      BY <3>2, <3>3 DEF Placed
    <3> HIDE DEF mount, withheld
    <3> QED
      BY <1>3, <2>3, <3>1, <3>3, <3>4, GotoSound
  <2> QED
    BY <2>1, <2>2, <2>3 DEF Remounting
<1>6. SaveRegistry(d)
  BY DEF Remounting
<1> QED
  BY <1>5, <1>6, SaveRegistrySound

LEMMA BlessedMonotone ==
    ASSUME NEW b, NEW b2, b \subseteq b2
    PROVE  /\ SoundRegistries(b) \subseteq SoundRegistries(b2)
           /\ SoundApprovals(b) \subseteq SoundApprovals(b2)
BY DEF SoundRegistries, SoundApprovals

(* What a waiting thread may rely on. *)
LEMMA ThreadFacts ==
    ASSUME Inductive, NEW t \in Threads
    PROVE  /\ th[t] \in SoundThreads(Known(registry))
           /\ Placed(th[t], Known(registry), blessed)
           /\ th[t].pc # "idle" => up # "down"
           /\ th[t].snap \in SoundSnapshots(Known(registry))
           /\ th[t].owners \in SoundSets(Known(registry))
           /\ th[t].prior \in SoundGovs(Known(registry))
<1>1. /\ th[t] \in SoundThreads(Known(registry))
      /\ Placed(th[t], Known(registry), blessed)
      /\ th[t].pc # "idle" => up # "down"
  BY DEF Inductive, ThreadsSound
<1> QED
  BY <1>1 DEF SoundThreads

LEMMA OpIsThread == "op" \in Threads
BY DEF Threads

(* A step that leaves the registry alone and may write the file. *)
LEMMA StepSound ==
    ASSUME Inductive, UNCHANGED <<registry, blessed>>,
           gov' \in SoundGovs(Known(registry)), approvals' \in SoundApprovals(blessed),
           ThreadsSound(th', Known(registry), blessed), rt' \in Runtimes,
           disk' = disk \/ Flush,
           up' = up, up # "down",
           mutation' \in Mutations, deferred' \in BOOLEAN, intact' \subseteq Candidates,
           spent' \in Spendings
    PROVE  Inductive'
<1>1. disk' \in Disks(blessed, Known(registry))
  BY FlushSound DEF Inductive
<1> QED
  BY <1>1 DEF Inductive

(* A step whose flush fails and whose call goes on. *)
LEMMA AnsweredSound ==
    ASSUME Inductive, NEW g \in SoundGovs(Known(registry)), FlushAnswered(g)
    PROVE  disk' \in Disks(blessed, Known(registry)) /\ spent' \in Spendings
<1>1. spent' \in Spendings
  BY DEF Inductive, FlushAnswered, Spendings
<1>2. disk' = [disk EXCEPT !.store = Sections(approvals, g)]
  BY DEF FlushAnswered
<1> QED
  BY <1>1, <1>2, StoreSound DEF Inductive

LEMMA RestSound ==
    ASSUME Inductive, NEW t \in Threads, Rest(t)
    PROVE  ThreadsSound(th', Known(registry), blessed)
<1>1. Resting \in SoundThreads(Known(registry)) /\ Placed(Resting, Known(registry), blessed)
  BY RestingSound DEF Inductive, SoundRegistries
<1> QED
  BY <1>1, GotoSound DEF Rest, Inductive

(* A step that registers no row. *)
LEMMA RowsKept ==
    ASSUME Inductive, UNCHANGED <<approvals, up, intact, blessed>>, up # "down",
           registry' \in SoundRegistries(blessed), Known(registry') = Known(registry),
           gov' \in SoundGovs(Known(registry)), ThreadsSound(th', Known(registry), blessed),
           rt' \in Runtimes,
           \/ disk' = disk \/ Flush \/ SaveRegistry(disk)
           \/ disk' \in Disks(blessed, Known(registry)),
           mutation' \in Mutations, deferred' \in BOOLEAN, spent' \in Spendings
    PROVE  Inductive'
<1>1. /\ disk \in Disks(blessed, Known(registry'))
      /\ approvals' \in SoundApprovals(blessed) /\ gov' \in SoundGovs(Known(registry'))
  BY DEF Inductive
<1>2. disk' \in Disks(blessed, Known(registry'))
  <2>1. CASE disk' = disk \/ Flush
    BY <1>1, <2>1, FlushSound
  <2>2. CASE SaveRegistry(disk)
    BY <1>1, <2>2, SaveRegistrySound
  <2> QED
    BY <2>1, <2>2
<1> QED
  BY <1>1, <1>2 DEF Inductive

(* A step whose flush fails and whose call ends with it. *)
LEMMA LostSound ==
    ASSUME Inductive, registry' \in SoundRegistries(blessed), Known(registry') = Known(registry),
           approvals' = approvals, gov' \in SoundGovs(Known(registry)), FlushLost
    PROVE  /\ disk' \in Disks(blessed, Known(registry)) /\ spent' \in Spendings
           /\ ThreadsSound(th', Known(registry), blessed)
<1>1. spent' \in Spendings
  <2>1. PICK m \in Nat, n \in Nat : m = spent.faults + 1 /\ n = spent.lost + 1
    BY DEF Inductive, Spendings
  <2>2. [spent EXCEPT !.faults = m, !.lost = n] \in Spendings
    BY DEF Inductive, Spendings
  <2> QED
    BY <2>1, <2>2 DEF FlushLost
<1>2. Saved(disk) \in Disks(blessed, Known(registry))
  <2>1. disk \in Disks(blessed, Known(registry'))
    BY DEF Inductive
  <2> QED
    BY <2>1, SavedSound
<1>3. disk' = [Saved(disk) EXCEPT !.store = Sections(approvals, gov')]
  BY DEF FlushLost
<1>4. disk' \in Disks(blessed, Known(registry))
  BY <1>2, <1>3, StoreSound DEF Inductive
<1> QED
  BY <1>1, <1>4, RestSound, OpIsThread DEF FlushLost

-----------------------------------------------------------------------------
(* Approvals.                                                              *)

LEMMA RequestApprovalStep ==
    ASSUME Inductive, NEW c \in Candidates, RequestApproval(c)
    PROVE  Inductive'
<1>1. Fingerprint(c) \in {"whole", "delta"}
  BY DEF Fingerprint
<1>2. approvals' \in SoundApprovals(blessed)
  BY <1>1 DEF Inductive, RequestApproval, SoundApprovals, Approvals, Decisions
<1>3. spent' \in Spendings
  BY DEF Inductive, RequestApproval, SpendApproval, Spendings
<1> QED
  BY <1>2, <1>3, StepSound DEF Inductive, RequestApproval

LEMMA RecordApprovalStep ==
    ASSUME Inductive, NEW c \in Candidates, NEW decision \in {"approved-for-exact-diff", "rejected"},
           RecordApproval(c, decision)
    PROVE  Inductive'
<1>1. Fingerprint(c) \in {"whole", "delta"}
  BY DEF Fingerprint
<1>2. blessed \subseteq blessed' /\ blessed' \subseteq Candidates
  BY DEF RecordApproval, Inductive
<1>3. approvals' \in SoundApprovals(blessed')
  BY <1>1, <1>2 DEF Inductive, RecordApproval, SoundApprovals, Approvals, Decisions
<1>4. spent' \in Spendings
  BY DEF Inductive, RecordApproval, SpendApproval, Spendings
<1>5. /\ registry' \in SoundRegistries(blessed') /\ registry' = registry
      /\ gov' \in SoundGovs(Known(registry'))
  BY <1>2, BlessedMonotone DEF Inductive, RecordApproval
<1>6. disk' \in Disks(blessed', Known(registry'))
  BY <1>3, <1>5, FlushSound DEF RecordApproval
<1>7. ThreadsSound(th', Known(registry'), blessed')
  BY <1>2, ThreadsMonotone DEF Inductive, RecordApproval
<1> QED
  BY <1>2, <1>3, <1>4, <1>5, <1>6, <1>7 DEF Inductive, RecordApproval

LEMMA AbandonStep ==
    ASSUME Inductive, NEW c \in Candidates, AbandonFailedActivation(c)
    PROVE  Inductive'
<1>1. approvals' \in SoundApprovals(blessed)
  BY DEF Inductive, AbandonFailedActivation, SoundApprovals, Approvals, Decisions
<1>2. gov' \in SoundGovs(Known(registry))
  BY DEF Inductive, AbandonFailedActivation, SoundGovs, ActivationStates
<1> QED
  BY <1>1, <1>2, StepSound DEF Inductive, AbandonFailedActivation, LifecycleIdle

-----------------------------------------------------------------------------
(* activate                                                                *)

LEMMA ActivateStartStep ==
    ASSUME Inductive, NEW c \in Candidates, ActivateStart(c)
    PROVE  Inductive'
<1> DEFINE K == Known(registry)
           pending == [gov EXCEPT !.state = "activation-pending", !.pending = c, !.target = gov.lkg]
           rec == [Resting EXCEPT !.pc = "prepare", !.cand = c, !.snap = gov.lkg, !.prior = gov,
                                  !.wait = c \notin rt.generated,
                                  !.start = IF c \in rt.generated THEN None ELSE c]
<1>1. c \in blessed
  BY DEF ActivateStart, Eligible, Approved, Inductive, SoundApprovals
<1>2. gov \in SoundGovs(K) /\ gov.lkg \in SoundSnapshots(K)
  BY DEF Inductive, SoundGovs
<1>3. pending \in SoundGovs(K) /\ [pending EXCEPT !.state = "activating"] \in SoundGovs(K)
  BY <1>2 DEF SoundGovs, ActivationStates
<1>4. up = "up"
  BY DEF ActivateStart, LifecycleIdle
<1>5. /\ gov' \in SoundGovs(K) /\ disk' \in Disks(blessed, K) /\ spent' \in Spendings
      /\ rt' \in Runtimes /\ ThreadsSound(th', K, blessed)
  <2>1. CASE /\ disk' = FileOf(registry, approvals, pending)
             /\ gov' = [pending EXCEPT !.state = "activating"]
             /\ rt' = Park(rt, c, Evolves(c)) /\ Goto("op", rec) /\ UNCHANGED spent
    <3>1. disk' \in Disks(blessed, K)
      <4> HIDE DEF pending
      <4> QED
        BY <1>3, <2>1, FileSound DEF Inductive
    <3>2. Resting \in SoundThreads(K)
      BY RestingSound DEF Inductive, SoundRegistries
    <3>3. rec \in SoundThreads(K) /\ rec.pc = "prepare" /\ rec.cand = c
      BY <1>2, <3>2 DEF SoundThreads, Points
    <3>4. Placed(rec, K, blessed)
      BY <1>1, <3>3 DEF Placed
    <3>5. ThreadsSound(th', K, blessed)
      <4> HIDE DEF rec
      <4> QED
        BY <2>1, <3>3, <3>4, GotoSound, OpIsThread DEF Inductive
    <3>6. rt' \in Runtimes
      <4>1. Evolves(c) \in BOOLEAN
        BY DEF Evolves
      <4> QED
        BY <2>1, <4>1, StartTypes DEF Inductive
    <3> HIDE DEF rec, pending
    <3> QED
      BY <1>3, <2>1, <3>1, <3>5, <3>6 DEF Inductive
  <2>2. CASE gov' = pending /\ UNCHANGED rt /\ FlushLost
    <3> HIDE DEF rec, pending
    <3> QED
      BY <1>3, <2>2, LostSound DEF ActivateStart, Inductive
  <2> QED
    BY <2>1, <2>2 DEF ActivateStart
<1> HIDE DEF rec, pending
<1> QED
  BY <1>4, <1>5 DEF Inductive, ActivateStart, Mutations

LEMMA ActivatePreparedStep ==
    ASSUME Inductive, ActivatePrepared
    PROVE  Inductive'
<1> DEFINE K == Known(registry)
           c == th["op"].cand
           rec == [th["op"] EXCEPT !.pc = "health", !.wait = TRUE, !.start = None]
<1>1. /\ th["op"] \in SoundThreads(K) /\ th["op"].snap \in SoundSnapshots(K)
      /\ c \in blessed /\ c \in Candidates /\ up # "down"
  BY ThreadFacts, OpIsThread DEF ActivatePrepared, Placed, Inductive
<1>2. rec \in SoundThreads(K) /\ rec.pc = "health" /\ rec.cand = c
  BY <1>1 DEF SoundThreads, Points
<1>3. Placed(rec, K, blessed)
  BY <1>1, <1>2 DEF Placed
<1>4. Active(registry) \in SoundSets(K)
  BY CaptureSound DEF Inductive
<1>5. /\ rt' \in Runtimes /\ ThreadsSound(th', K, blessed) /\ spent' \in Spendings
      /\ disk' = disk \/ Flush \/ disk' \in Disks(blessed, K)
  <2>1. ASSUME NEW r \in Prepared(c)
        PROVE  r \in Runtimes
    BY <1>1, StartTypes DEF Prepared, Inductive
  <2>2. ASSUME NEW r \in Prepared(c), rt' = r, Goto("op", rec), Flush, UNCHANGED spent
        PROVE  /\ rt' \in Runtimes /\ ThreadsSound(th', K, blessed) /\ spent' \in Spendings
               /\ Flush
    <3> HIDE DEF rec
    <3> QED
      BY <1>2, <1>3, <2>1, <2>2, GotoSound, OpIsThread DEF Inductive
  <2>3. ASSUME NEW r \in Prepared(c), FlushAnswered(gov),
               Restoring("op", th["op"], "undo", th["op"].snap, registry, r)
        PROVE  /\ rt' \in Runtimes /\ ThreadsSound(th', K, blessed) /\ spent' \in Spendings
               /\ disk' \in Disks(blessed, K)
    <3>1. rt' \in Runtimes /\ ThreadsSound(th', K, blessed)
      BY <1>1, <1>4, <2>1, <2>3, RestoringSound, OpIsThread DEF Inductive, Returns
    <3> QED
      BY <2>3, <3>1, AnsweredSound DEF Inductive
  <2>4. CASE /\ \E clash \in Clashes(c) :
                   Restoring("op", th["op"], "undo", th["op"].snap, registry, StartFailed(rt, c, clash))
             /\ UNCHANGED <<disk, spent>>
    <3>1. PICK clash \in BOOLEAN :
             Restoring("op", th["op"], "undo", th["op"].snap, registry, StartFailed(rt, c, clash))
      BY <2>4 DEF Clashes
    <3>2. StartFailed(rt, c, clash) \in Runtimes
      BY <1>1, StartFailedType DEF Inductive
    <3> QED
      BY <1>1, <1>4, <2>4, <3>1, <3>2, RestoringSound, OpIsThread DEF Inductive, Returns
  <2> HIDE DEF rec
  <2> QED
    BY <2>2, <2>3, <2>4 DEF ActivatePrepared, rec
<1> QED
  BY <1>1, <1>5, RowsKept DEF ActivatePrepared, Inductive

LEMMA ActivateHealthyStep ==
    ASSUME Inductive, ActivateHealthy
    PROVE  Inductive'
<1> DEFINE K == Known(registry)
           c == th["op"].cand
           rec == [th["op"] EXCEPT !.pc = "commit", !.wait = rt.parked[c] # {}]
<1>1. /\ th["op"] \in SoundThreads(K) /\ th["op"].snap \in SoundSnapshots(K)
      /\ c \in blessed /\ c \in Candidates /\ c \in Rows /\ up # "down"
  BY ThreadFacts, OpIsThread, RowsAssumption DEF ActivateHealthy, Placed, Inductive
<1>2. /\ registry' \in SoundRegistries(blessed) /\ K \subseteq Known(registry')
      /\ rt' \in Runtimes /\ ThreadsSound(th', Known(registry'), blessed)
  <2>1. CASE /\ MayCommit(registry, c)
             /\ registry' = CommitRow(registry, c)
             /\ rt' = DiscardParked(rt, {c})
             /\ Goto("op", rec)
    <3>1. /\ registry \in Registries /\ ConflictFree(Active(registry))
          /\ Known(registry) \cap Candidates \subseteq blessed /\ Rows \ Candidates \subseteq Known(registry)
      BY DEF Inductive, SoundRegistries
    <3>2. /\ registry' \in Registries /\ Known(registry') = K \cup {c}
          /\ ConflictFree(Active(registry'))
      BY <1>1, <2>1, <3>1, CommitSound
    <3>3. registry' \in SoundRegistries(blessed)
      BY <1>1, <3>1, <3>2 DEF SoundRegistries
    <3>4. rt' \in Runtimes
      BY <2>1, StopTypes DEF Inductive
    <3>5. rec \in SoundThreads(K) /\ rec.pc = "commit" /\ rec.cand = c
      BY <1>1 DEF SoundThreads, Points
    <3>6. Placed(rec, K, blessed)
      BY <1>1, <3>5 DEF Placed
    <3>7. ThreadsSound(th', K, blessed)
      <4> HIDE DEF rec
      <4> QED
        BY <2>1, <3>5, <3>6, GotoSound, OpIsThread DEF Inductive
    <3> QED
      BY <3>2, <3>3, <3>4, <3>7, ThreadsMonotone
  <2>2. CASE /\ registry' = SetStatus(registry, Outgoing(registry, c), "disabled")
             /\ Restoring("op", th["op"], "undo", th["op"].snap, registry', rt)
    <3>1. Outgoing(registry, c) \subseteq K
      BY DEF Outgoing, Active, Known
    <3>2. registry' \in SoundRegistries(blessed) /\ Known(registry') = K
      BY <2>2, <3>1, DisabledSound DEF Inductive
    <3>3. Active(registry') \in SoundSets(K)
      BY <3>2, CaptureSound DEF Inductive
    <3> QED
      BY <1>1, <2>2, <3>2, <3>3, RestoringSound, OpIsThread DEF Inductive, Returns
  <2> QED
    BY <2>1, <2>2 DEF ActivateHealthy
<1>3. gov' \in SoundGovs(Known(registry')) /\ disk' \in Disks(blessed, Known(registry'))
  BY <1>2, SoundMonotone, DisksGrow DEF ActivateHealthy, Inductive
<1> QED
  BY <1>1, <1>2, <1>3 DEF ActivateHealthy, Inductive

LEMMA ActivateUnhealthyStep ==
    ASSUME Inductive, ActivateUnhealthy
    PROVE  Inductive'
<1>1. up # "down" /\ th["op"] \in SoundThreads(Known(registry))
      /\ th["op"].snap \in SoundSnapshots(Known(registry))
  BY ThreadFacts, OpIsThread DEF ActivateUnhealthy
<1>2. Active(registry) \in SoundSets(Known(registry))
  BY CaptureSound DEF Inductive
<1>3. rt' \in Runtimes /\ ThreadsSound(th', Known(registry), blessed)
  BY <1>1, <1>2, RestoringSound, OpIsThread DEF Inductive, ActivateUnhealthy, Returns
<1> QED
  BY <1>1, <1>3, StepSound DEF ActivateUnhealthy, Inductive

-----------------------------------------------------------------------------
(* What a restore leaves.                                                  *)

(* restoreSnapshot applies rows that were sound before. *)
LEMMA RestoredRegistrySound ==
    ASSUME Inductive, NEW t \in Threads
    PROVE  /\ RestoredRegistry(t) \in SoundRegistries(blessed)
           /\ Known(RestoredRegistry(t)) = Known(registry)
<1> DEFINE owners == IF th[t].ok THEN th[t].snap.owners ELSE th[t].owners
<1>1. owners \in SoundSets(Known(registry))
  BY ThreadFacts DEF SoundSnapshots
<1>2. ConflictFree(owners)
  BY <1>1 DEF SoundSets
<1>3. registry \in SoundRegistries(blessed)
  BY DEF Inductive
<1>4. RestoredRegistry(t) = ApplyOwners(registry, owners)
  BY DEF RestoredRegistry
<1> HIDE DEF owners
<1> QED
  BY <1>2, <1>3, <1>4, AppliedSound

LEMMA RestoreLoopSound ==
    ASSUME Inductive, NEW t \in Threads, NEW r \in Runtimes, th[t].ret \in Returns, RestoreLoop(t, r)
    PROVE  rt' \in Runtimes /\ ThreadsSound(th', Known(registry), blessed)
<1> DEFINE K == Known(registry)
           missing == Restartable(r, th[t].todo)
           done == RestoreEnded(th[t], TRUE)
<1>1. th[t] \in SoundThreads(K) /\ th[t].snap \in SoundSnapshots(K)
  BY ThreadFacts
<1>2. CASE rt' = EndRestore(r, th[t].snap) /\ Goto(t, done)
  <2>1. rt' \in Runtimes
    BY <1>1, <1>2, RestoreTypes DEF SoundSnapshots
  <2>2. done \in SoundThreads(K) /\ done.pc = th[t].ret
    BY <1>1 DEF SoundThreads, RestoreEnded, Points
  <2>3. Placed(done, K, blessed)
    BY <2>2 DEF Placed, Returns
  <2> HIDE DEF done
  <2> QED
    BY <1>2, <2>1, <2>2, <2>3, GotoSound DEF Inductive
<1>3. ASSUME NEW c \in missing, rt' = Park(r, c, Evolves(c)),
             Goto(t, [th[t] EXCEPT !.pc = "restart", !.wait = TRUE, !.drop = {}, !.start = c,
                                   !.todo = @ \ {c}])
      PROVE  rt' \in Runtimes /\ ThreadsSound(th', K, blessed)
  <2> DEFINE rec == [th[t] EXCEPT !.pc = "restart", !.wait = TRUE, !.drop = {}, !.start = c,
                                  !.todo = @ \ {c}]
  <2>1. c \in Candidates /\ Evolves(c) \in BOOLEAN
    BY RestartableType DEF Evolves
  <2>2. rt' \in Runtimes
    BY <1>3, <2>1, StartTypes
  <2>3. rec \in SoundThreads(K) /\ rec.pc = "restart" /\ rec.start = c /\ rec.ret = th[t].ret
    BY <1>1, <2>1 DEF SoundThreads, Points
  <2>4. Placed(rec, K, blessed)
    BY <2>1, <2>3 DEF Placed
  <2>5. Goto(t, rec)
    BY <1>3
  <2> HIDE DEF rec
  <2> QED
    BY <2>2, <2>3, <2>4, <2>5, GotoSound DEF Inductive
<1> QED
  BY <1>2, <1>3 DEF RestoreLoop

LEMMA ActivateCommittedStep ==
    ASSUME Inductive, ActivateCommitted
    PROVE  Inductive'
<1> DEFINE c == th["op"].cand
           done == Capture(registry, Mounted(rt, c))
<1>1. /\ c \in Candidates /\ up # "down"
      /\ th["op"] \in SoundThreads(Known(registry))
      /\ th["op"].snap \in SoundSnapshots(Known(registry))
  BY ThreadFacts, OpIsThread DEF ActivateCommitted, Placed
<1>2. Mounted(rt, c) \in Runtimes
  <2>1. Evolves(c) \in BOOLEAN
    BY DEF Evolves
  <2> QED
    BY <1>1, <2>1, StartTypes DEF Inductive
<1>3. done \in SoundSnapshots(Known(registry)) /\ Active(registry) \in SoundSets(Known(registry))
  BY <1>2, CaptureSound DEF Inductive
<1>4. gov' \in SoundGovs(Known(registry))
  <2>1. NoFailure \in Failures
    BY DEF NoFailure, Failures
  <2>2. gov' = [gov EXCEPT !.current = done, !.lkg = done, !.state = "active", !.pending = None,
                           !.failure = NoFailure, !.integrity = TRUE]
    BY DEF ActivateCommitted
  <2> HIDE DEF done
  <2> QED
    BY <1>3, <2>1, <2>2 DEF Inductive, SoundGovs, ActivationStates
<1>5. /\ rt' \in Runtimes /\ ThreadsSound(th', Known(registry), blessed)
      /\ Flush \/ disk' \in Disks(blessed, Known(registry))
      /\ mutation' \in Mutations /\ deferred' \in BOOLEAN /\ spent' \in Spendings
  <2>1. CASE rt' = Mounted(rt, c) /\ Release /\ Flush /\ UNCHANGED spent
    BY <1>2, <2>1, RestSound, OpIsThread DEF Release, Inductive, Mutations
  <2>2. CASE /\ FlushAnswered(gov')
             /\ Restoring("op", th["op"], "undo", th["op"].snap, registry, Mounted(rt, c))
             /\ UNCHANGED <<mutation, deferred>>
    <3>1. rt' \in Runtimes /\ ThreadsSound(th', Known(registry), blessed)
      BY <1>1, <1>2, <1>3, <2>2, RestoringSound, OpIsThread DEF Inductive, Returns
    <3> QED
      BY <1>4, <2>2, <3>1, AnsweredSound DEF Inductive
  <2> QED
    BY <2>1, <2>2 DEF ActivateCommitted
<1> QED
  BY <1>1, <1>4, <1>5, RowsKept DEF ActivateCommitted, Inductive

LEMMA ActivateUndoneStep ==
    ASSUME Inductive, ActivateUndone
    PROVE  Inductive'
<1>1. /\ th["op"] \in SoundThreads(Known(registry)) /\ up # "down"
      /\ th["op"].snap \in SoundSnapshots(Known(registry))
  BY ThreadFacts, OpIsThread DEF ActivateUndone
<1>2. registry' \in SoundRegistries(blessed) /\ Known(registry') = Known(registry)
  BY RestoredRegistrySound, OpIsThread DEF ActivateUndone
<1>3. Capture(registry', rt) \in SoundSnapshots(Known(registry))
  BY <1>2, CaptureSound DEF Inductive
<1>4. th["op"].ok \in BOOLEAN /\ th["op"].cand \in Candidates \cup {None}
  BY <1>1 DEF SoundThreads
<1>5. Failure(th["op"].cand, th["op"].ok, ~th["op"].ok) \in Failures
  BY <1>4 DEF Failure, Failures
<1>6. gov' \in SoundGovs(Known(registry))
  BY <1>1, <1>3, <1>4, <1>5 DEF ActivateUndone, Inductive, SoundGovs, ActivationStates
<1>7. /\ ThreadsSound(th', Known(registry), blessed) /\ mutation' \in Mutations
      /\ deferred' \in BOOLEAN /\ spent' \in Spendings
      /\ Flush \/ disk' \in Disks(blessed, Known(registry))
  <2>1. CASE Release /\ Flush /\ UNCHANGED spent
    BY <2>1, RestSound, OpIsThread DEF Release, Mutations, Inductive
  <2>2. CASE mutation' = "idle" /\ UNCHANGED deferred /\ FlushLost
    BY <1>2, <1>6, <2>2, LostSound DEF ActivateUndone, Mutations, Inductive
  <2> QED
    BY <2>1, <2>2 DEF ActivateUndone
<1> QED
  BY <1>1, <1>2, <1>6, <1>7, RowsKept DEF ActivateUndone, Inductive

-----------------------------------------------------------------------------
(* rollback and finishRollback                                             *)

LEMMA StartRollbackSound ==
    ASSUME Inductive, NEW g \in SoundGovs(Known(registry)), NEW prior \in SoundGovs(Known(registry)),
           StartRollback(g, prior, rt)
    PROVE  /\ rt' \in Runtimes /\ ThreadsSound(th', Known(registry), blessed)
           /\ deferred' = TRUE
<1> DEFINE here == [Resting EXCEPT !.prior = prior, !.cand = None]
<1>1. here \in SoundThreads(Known(registry))
  <2>1. Resting \in SoundThreads(Known(registry))
    BY RestingSound DEF Inductive, SoundRegistries
  <2> QED
    BY <2>1 DEF SoundThreads
<1>2. Fallback(g) \in SoundSnapshots(Known(registry)) /\ Active(registry) \in SoundSets(Known(registry))
  BY FallbackSound, CaptureSound DEF Inductive
<1>3. Restoring("op", here, "rollback", Fallback(g), registry, rt) /\ deferred' = TRUE
  BY DEF StartRollback
<1> HIDE DEF here
<1> QED
  BY <1>1, <1>2, <1>3, RestoringSound, OpIsThread DEF Inductive, Returns

LEMMA RollbackStep ==
    ASSUME Inductive, Rollback
    PROVE  Inductive'
<1> DEFINE pending == [gov EXCEPT !.state = "rollback-pending"]
<1>1. gov \in SoundGovs(Known(registry)) /\ pending \in SoundGovs(Known(registry))
  BY DEF Inductive, SoundGovs, ActivationStates
<1>2. gov' = pending /\ up # "down"
  BY DEF Rollback, LifecycleIdle
<1>3. /\ rt' \in Runtimes /\ ThreadsSound(th', Known(registry), blessed) /\ deferred' \in BOOLEAN
      /\ mutation' \in Mutations /\ spent' \in Spendings
      /\ Flush \/ disk' \in Disks(blessed, Known(registry))
  <2>1. CASE mutation' = "recovery" /\ StartRollback(pending, gov, rt) /\ Flush /\ UNCHANGED spent
    <3> HIDE DEF pending
    <3> QED
      BY <1>1, <2>1, StartRollbackSound DEF Mutations, Inductive
  <2>2. CASE mutation' = "idle" /\ UNCHANGED <<rt, deferred>> /\ FlushLost
    <3> HIDE DEF pending
    <3> QED
      BY <1>1, <1>2, <2>2, LostSound DEF Rollback, Mutations, Inductive
  <2> QED
    BY <2>1, <2>2 DEF Rollback
<1> HIDE DEF pending
<1> QED
  BY <1>1, <1>2, <1>3, RowsKept DEF Rollback, Inductive

LEMMA RecoveringSound ==
    ASSUME Inductive, NEW g \in SoundGovs(Known(registry)), NEW reg \in SoundRegistries(blessed),
           Known(reg) = Known(registry), Recovering(th["op"], g, reg, rt)
    PROVE  rt' \in Runtimes /\ ThreadsSound(th', Known(registry), blessed)
<1>1. th["op"] \in SoundThreads(Known(registry)) /\ th["op"].prior.current \in SoundSnapshots(Known(registry))
  BY ThreadFacts, OpIsThread DEF SoundGovs
<1>2. Active(reg) \in SoundSets(Known(registry))
  BY CaptureSound DEF Inductive
<1> QED
  BY <1>1, <1>2, RestoringSound, OpIsThread DEF Recovering, Inductive, Returns

LEMMA RollbackRestoredStep ==
    ASSUME Inductive, RollbackRestored
    PROVE  Inductive'
<1> DEFINE K == Known(registry)
           reg == RestoredRegistry("op")
           back == [gov EXCEPT !.lkg = th["op"].snap, !.current = th["op"].snap,
                               !.state = "rolled-back", !.pending = None]
<1>1. th["op"] \in SoundThreads(K) /\ th["op"].snap \in SoundSnapshots(K) /\ up # "down"
  BY ThreadFacts, OpIsThread DEF RollbackRestored
<1>2. reg \in SoundRegistries(blessed) /\ Known(reg) = K
  BY RestoredRegistrySound, OpIsThread
<1>3. back \in SoundGovs(K) /\ gov \in SoundGovs(K)
  BY <1>1 DEF Inductive, SoundGovs, ActivationStates
<1>4. /\ registry' \in SoundRegistries(blessed) /\ Known(registry') = K
      /\ gov' \in SoundGovs(K) /\ rt' \in Runtimes /\ ThreadsSound(th', K, blessed)
      /\ \/ SaveRegistry(disk)
         \/ disk' \in Disks(blessed, K)
  <2>1. CASE Remounting("op", th["op"], "rollback", reg, back, rt, disk)
    <3> HIDE DEF reg, back
    <3> QED
      BY <1>1, <1>2, <1>3, <2>1, RemountingSound, OpIsThread DEF Inductive
  <2>2. CASE Recovering(th["op"], gov, reg, rt) /\ SaveRegistry(disk)
    <3> HIDE DEF reg
    <3>1. rt' \in Runtimes /\ ThreadsSound(th', K, blessed)
      BY <1>2, <1>3, <2>2, RecoveringSound
    <3> QED
      BY <1>2, <1>3, <2>2, <3>1 DEF Recovering
  <2> QED
    BY <2>1, <2>2 DEF RollbackRestored
<1> QED
  BY <1>1, <1>4, RowsKept DEF RollbackRestored, Inductive

LEMMA RollbackMountedStep ==
    ASSUME Inductive, RollbackMounted
    PROVE  Inductive'
<1> DEFINE K == Known(registry)
           done == [gov EXCEPT !.current = Capture(registry, rt),
                               !.integrity = Restored(registry, th["op"].snap)]
           d == FileOf(registry, approvals, done)
<1>1. th["op"] \in SoundThreads(K) /\ up # "down" /\ registry \in SoundRegistries(blessed)
  BY ThreadFacts, OpIsThread DEF RollbackMounted, Inductive
<1>2. done \in SoundGovs(K)
  <2>1. Capture(registry, rt) \in SoundSnapshots(K)
    BY CaptureSound DEF Inductive
  <2>2. Restored(registry, th["op"].snap) \in BOOLEAN
    BY DEF Restored
  <2> QED
    BY <2>1, <2>2 DEF Inductive, SoundGovs
<1>3. d \in Disks(blessed, K) /\ d.registry = registry
  <2> HIDE DEF done
  <2> QED
    BY <1>2, FileSound DEF Inductive
<1>4. /\ registry' \in SoundRegistries(blessed) /\ Known(registry') = K
      /\ gov' \in SoundGovs(K) /\ rt' \in Runtimes /\ ThreadsSound(th', K, blessed)
      /\ \/ Flush \/ SaveRegistry(disk)
         \/ disk' \in Disks(blessed, K)
      /\ mutation' \in Mutations /\ deferred' \in BOOLEAN /\ spent' \in Spendings
  <2>1. CASE /\ deferred' = FALSE /\ UNCHANGED <<mutation, spent>>
             /\ Remounting("op", Resting, "boot", registry, done, rt, d)
    <3>1. Resting \in SoundThreads(K)
      BY RestingSound DEF Inductive, SoundRegistries
    <3> HIDE DEF done, d
    <3> QED
      BY <1>2, <1>3, <2>1, <3>1, RemountingSound, OpIsThread DEF Inductive
  <2>2. CASE gov' = done /\ UNCHANGED <<registry, rt, spent>> /\ Release /\ Flush
    <3> HIDE DEF done
    <3> QED
      BY <1>1, <1>2, <2>2, RestSound, OpIsThread DEF Release, Mutations, Inductive
  <2>3. CASE /\ UNCHANGED <<mutation, deferred>> /\ Recovering(th["op"], done, registry, rt)
             /\ \/ SaveRegistry(disk) /\ UNCHANGED spent
                \/ FlushAnswered(done)
    <3> HIDE DEF done
    <3>1. rt' \in Runtimes /\ ThreadsSound(th', K, blessed)
      BY <1>1, <1>2, <2>3, RecoveringSound
    <3> QED
      BY <1>1, <1>2, <2>3, <3>1, AnsweredSound DEF Recovering, Inductive
  <2> QED
    BY <2>1, <2>2, <2>3 DEF RollbackMounted
<1> HIDE DEF done, d
<1> QED
  BY <1>1, <1>4, RowsKept DEF RollbackMounted, Inductive

LEMMA HaltSound ==
    ASSUME NEW K, NEW b, Rows \ Candidates \subseteq K, Halt
    PROVE  /\ up' = "down" /\ rt' \in Runtimes /\ ThreadsSound(th', K, b)
           /\ \A t \in Threads : th'[t].pc = "idle"
<1>1. Resting \in SoundThreads(K) /\ Placed(Resting, K, b)
  BY RestingSound
<1>2. Resting.pc = "idle"
  BY DEF Resting
<1> HIDE DEF Resting
<1> QED
  BY <1>1, <1>2, FreshRuntimeType DEF Halt, ThreadsSound

(* The process ends, and what it had in memory with it. *)
LEMMA DieSound ==
    ASSUME Inductive, Die, UNCHANGED <<intact, blessed>>, spent' \in Spendings
    PROVE  Inductive'
<1>1. /\ registry' = disk.registry /\ approvals' = disk.approvals /\ gov' = disk.gov
      /\ disk' = [disk EXCEPT !.store = Sections(disk.approvals, disk.gov)]
      /\ disk \in Disks(blessed, Known(registry))
  BY DEF Die, Inductive
<1>2. /\ registry' \in SoundRegistries(blessed) /\ approvals' \in SoundApprovals(blessed)
      /\ gov' \in SoundGovs(Known(registry'))
      /\ disk' \in Disks(blessed, Known(registry')) /\ disk'.registry = registry'
  BY <1>1 DEF Disks, Sections
<1>3. /\ up' = "down" /\ rt' \in Runtimes /\ ThreadsSound(th', Known(registry'), blessed)
      /\ \A t \in Threads : th'[t].pc = "idle"
  BY <1>2, HaltSound DEF Die, SoundRegistries
<1> QED
  BY <1>2, <1>3 DEF Inductive, Die, Mutations

LEMMA RollbackRecoveredStep ==
    ASSUME Inductive, RollbackRecovered
    PROVE  Inductive'
<1> DEFINE K == Known(registry)
           reg == RestoredRegistry("op")
           prior == th["op"].prior
           recovered == IF th["op"].ok THEN [prior EXCEPT !.pending = gov.pending] ELSE gov
<1>1. th["op"] \in SoundThreads(K) /\ prior \in SoundGovs(K) /\ up # "down"
  BY ThreadFacts, OpIsThread DEF RollbackRecovered
<1>2. reg \in SoundRegistries(blessed) /\ Known(reg) = K
  BY RestoredRegistrySound, OpIsThread
<1>3. recovered \in SoundGovs(K)
  BY <1>1 DEF Inductive, SoundGovs
<1> HIDE DEF reg, recovered
<1>4. CASE /\ registry' = reg /\ gov' = recovered /\ mutation' = "idle" /\ deferred' = FALSE
           /\ UNCHANGED <<approvals, spent>> /\ Flush
           /\ \/ Halt
              \/ Rest("op") /\ UNCHANGED <<up, rt>>
  <2>1. CASE Rest("op") /\ UNCHANGED <<up, rt>>
    <3>1. ThreadsSound(th', K, blessed)
      BY <2>1, RestSound, OpIsThread
    <3> QED
      BY <1>1, <1>2, <1>3, <1>4, <2>1, <3>1, RowsKept DEF Inductive, Mutations, RollbackRecovered
  <2>2. CASE Halt
    <3>1. /\ up' = "down" /\ rt' \in Runtimes /\ ThreadsSound(th', K, blessed)
          /\ \A t \in Threads : th'[t].pc = "idle"
      BY <2>2, HaltSound DEF Inductive, SoundRegistries
    <3>2. disk' \in Disks(blessed, K) /\ disk'.registry = registry'
      BY <1>2, <1>3, <1>4, FlushSound DEF Inductive
    <3> QED
      BY <1>2, <1>3, <1>4, <3>1, <3>2 DEF Inductive, Mutations, RollbackRecovered
  <2> QED
    BY <1>4, <2>1, <2>2
<1>5. CASE /\ deferred' = FALSE /\ UNCHANGED <<approvals, mutation, up, spent>>
           /\ FailingClosed("op", th["op"], "shut", reg, recovered, rt)
           /\ disk' = FileOf(registry', approvals, recovered)
  <2>1. /\ registry' \in SoundRegistries(blessed) /\ Known(registry') = K
        /\ gov' \in SoundGovs(K) /\ rt' \in Runtimes /\ ThreadsSound(th', K, blessed)
    BY <1>1, <1>2, <1>3, <1>5, FailingClosedSound, OpIsThread DEF Inductive
  <2>2. disk' \in Disks(blessed, K)
    BY <1>3, <1>5, <2>1, FileSound DEF Inductive
  <2> QED
    BY <1>1, <1>5, <2>1, <2>2, RowsKept DEF RollbackRecovered, Inductive
<1>6. CASE /\ registry' = reg /\ gov' = recovered /\ mutation' = "idle"
           /\ UNCHANGED <<approvals, deferred, up, rt>> /\ FlushLost
  <2>1. /\ disk' \in Disks(blessed, K) /\ spent' \in Spendings
        /\ ThreadsSound(th', K, blessed)
    BY <1>2, <1>3, <1>6, LostSound
  <2> QED
    BY <1>1, <1>2, <1>3, <1>6, <2>1, RowsKept DEF RollbackRecovered, Inductive, Mutations
<1>7. CASE spent' = [spent EXCEPT !.faults = @ + 1] /\ Die
  <2>1. spent' \in Spendings
    BY <1>7 DEF Inductive, Spendings
  <2> QED
    BY <1>7, <2>1, DieSound DEF RollbackRecovered
<1> QED
  BY <1>4, <1>5, <1>6, <1>7 DEF RollbackRecovered, reg, recovered

LEMMA RollbackClosedStep ==
    ASSUME Inductive, RollbackClosed
    PROVE  Inductive'
<1> DEFINE K == Known(registry)
           closed == [gov EXCEPT !.failure = Failure(Blamed(gov), FALSE, TRUE)]
           r == Dropped(rt, th["op"].drop)
           d == FileOf(registry, approvals, closed)
<1>1. up # "down"
  BY ThreadFacts, OpIsThread DEF RollbackClosed
<1>2. closed \in SoundGovs(K)
  BY FailureTyped DEF Inductive, SoundGovs
<1>3. d \in Disks(blessed, K)
  <2> HIDE DEF closed
  <2> QED
    BY <1>2, FileSound DEF Inductive
<1>4. r \in Runtimes
  BY StopTypes DEF Inductive
<1>5. /\ registry' \in SoundRegistries(blessed) /\ Known(registry') = K
      /\ gov' \in SoundGovs(K) /\ rt' \in Runtimes /\ ThreadsSound(th', K, blessed)
      /\ disk' \in Disks(blessed, K)
      /\ mutation' \in Mutations
  <2>1. CASE Remounting("op", Resting, "boot", registry, closed, r, d) /\ UNCHANGED mutation
    <3>1. Resting \in SoundThreads(K)
      BY RestingSound DEF Inductive, SoundRegistries
    <3> HIDE DEF closed, d, r
    <3> QED
      BY <1>2, <1>3, <1>4, <2>1, <3>1, RemountingSound, OpIsThread DEF Inductive
  <2>2. CASE gov' = closed /\ mutation' = "idle" /\ rt' = r /\ Rest("op") /\ UNCHANGED registry /\ disk' = d
    <3> HIDE DEF closed, d, r
    <3> QED
      BY <1>2, <1>3, <1>4, <2>2, RestSound, OpIsThread DEF Mutations, Inductive
  <2> QED
    BY <2>1, <2>2 DEF RollbackClosed
<1> HIDE DEF closed, d, r
<1> QED
  BY <1>1, <1>5, RowsKept DEF RollbackClosed, Inductive

-----------------------------------------------------------------------------
(* The waits inside runtime.restore and remountCommittedGenerated.         *)

LEMMA RestoreDroppedStep ==
    ASSUME Inductive, NEW t \in Threads, RestoreDropped(t)
    PROVE  Inductive'
<1>1. th[t].ret \in Returns /\ up # "down"
  BY ThreadFacts DEF RestoreDropped, Placed
<1>2. Dropped(rt, th[t].drop) \in Runtimes
  BY StopTypes DEF Inductive
<1>3. rt' \in Runtimes /\ ThreadsSound(th', Known(registry), blessed)
  BY <1>1, <1>2, RestoreLoopSound DEF RestoreDropped
<1> QED
  BY <1>1, <1>3, StepSound DEF RestoreDropped, Inductive

LEMMA RestoreStartedStep ==
    ASSUME Inductive, NEW t \in Threads, RestoreStarted(t)
    PROVE  Inductive'
<1> DEFINE c == th[t].start
           failed == RestoreEnded(th[t], FALSE)
<1>1. /\ th[t] \in SoundThreads(Known(registry)) /\ th[t].ret \in Returns /\ c \in Candidates
      /\ up # "down"
  BY ThreadFacts DEF RestoreStarted, Placed
<1>2. rt' \in Runtimes /\ ThreadsSound(th', Known(registry), blessed)
  <2>1. CASE RestoreLoop(t, Mounted(DiscardParked(Started(rt, c), {c}), c))
    <3>1. TRUE \in BOOLEAN
      OBVIOUS
    <3>2. Started(rt, c) \in Runtimes
      BY <1>1, <3>1, StartTypes DEF Inductive
    <3>3. DiscardParked(Started(rt, c), {c}) \in Runtimes
      BY <3>2, StopTypes
    <3>4. Mounted(DiscardParked(Started(rt, c), {c}), c) \in Runtimes
      BY <1>1, <3>1, <3>3, StartTypes
    <3> QED
      BY <1>1, <2>1, <3>4, RestoreLoopSound
  <2>2. CASE rt' = StartFailed(rt, c, FALSE) /\ Goto(t, failed)
    <3>1. rt' \in Runtimes
      BY <1>1, <2>2, StartFailedType DEF Inductive
    <3>2. failed \in SoundThreads(Known(registry)) /\ failed.pc = th[t].ret
      BY <1>1 DEF SoundThreads, RestoreEnded, Points
    <3>3. Placed(failed, Known(registry), blessed)
      BY <1>1, <3>2 DEF Placed, Returns
    <3> HIDE DEF failed
    <3> QED
      BY <2>2, <3>1, <3>2, <3>3, GotoSound DEF Inductive
  <2> QED
    BY <2>1, <2>2 DEF RestoreStarted
<1> QED
  BY <1>1, <1>2, StepSound DEF RestoreStarted, Inductive

LEMMA MountNextStep ==
    ASSUME Inductive, NEW t \in Threads, MountNext(t)
    PROVE  Inductive'
<1> DEFINE K == Known(registry)
<1>1. PICK c \in th[t].todo :
        \/ /\ rt' = Mounted(DiscardParked(rt, {c}), c)
           /\ Goto(t, [th[t] EXCEPT !.todo = @ \ {c}])
        \/ /\ rt' = Park(rt, c, Evolves(c))
           /\ Goto(t, [th[t] EXCEPT !.pc = "mounting", !.wait = TRUE, !.todo = @ \ {c}, !.start = c])
  BY DEF MountNext
<1>2. /\ th[t] \in SoundThreads(K) /\ th[t].pc = "mount" /\ th[t].todo \subseteq Candidates
      /\ c \in Candidates /\ Evolves(c) \in BOOLEAN /\ up # "down"
  BY ThreadFacts DEF MountNext, Placed, Evolves
<1>3. rt' \in Runtimes
  <2>1. DiscardParked(rt, {c}) \in Runtimes
    BY StopTypes DEF Inductive
  <2>2. Mounted(DiscardParked(rt, {c}), c) \in Runtimes /\ Park(rt, c, Evolves(c)) \in Runtimes
    BY <1>2, <2>1, StartTypes DEF Inductive
  <2> QED
    BY <1>1, <2>2
<1>4. ThreadsSound(th', K, blessed)
  <2>1. ASSUME NEW rec, Goto(t, rec), rec \in SoundThreads(K), rec.pc \in {"mount", "mounting"},
               rec.pc = "mounting" => rec.start \in Candidates, rec.todo \subseteq Candidates
        PROVE  ThreadsSound(th', K, blessed)
    <3>1. Placed(rec, K, blessed)
      BY <2>1 DEF Placed
    <3> QED
      BY <2>1, <3>1, GotoSound DEF Inductive
  <2> DEFINE next == [th[t] EXCEPT !.todo = @ \ {c}]
             starting == [th[t] EXCEPT !.pc = "mounting", !.wait = TRUE, !.todo = @ \ {c}, !.start = c]
  <2>2. next \in SoundThreads(K) /\ next.pc = "mount" /\ next.todo \subseteq Candidates
    BY <1>2 DEF SoundThreads
  <2>3. /\ starting \in SoundThreads(K) /\ starting.pc = "mounting" /\ starting.start \in Candidates
        /\ starting.todo \subseteq Candidates
    BY <1>2 DEF SoundThreads, Points
  <2>4. Goto(t, next) \/ Goto(t, starting)
    BY <1>1
  <2> HIDE DEF next, starting
  <2> QED
    BY <2>1, <2>2, <2>3, <2>4
<1> QED
  BY <1>2, <1>3, <1>4, StepSound DEF MountNext, Inductive

LEMMA MountStartedStep ==
    ASSUME Inductive, NEW t \in Threads, MountStarted(t)
    PROVE  Inductive'
<1> DEFINE K == Known(registry)
           c == th[t].start
           rec == [th[t] EXCEPT !.pc = "mount", !.wait = FALSE, !.start = None]
           bare == [owners |-> th[t].snap.owners, mounted |-> {}]
<1>1. /\ th[t] \in SoundThreads(K) /\ th[t].snap \in SoundSnapshots(K) /\ c \in Candidates
      /\ th[t].todo \subseteq Candidates /\ up # "down"
  BY ThreadFacts DEF MountStarted, Placed
<1>2. rt' \in Runtimes /\ ThreadsSound(th', K, blessed)
  <2>1. CASE rt' = Mounted(DiscardParked(Started(rt, c), {c}), c) /\ Goto(t, rec)
    <3>1. Started(rt, c) \in Runtimes /\ TRUE \in BOOLEAN
      BY <1>1, StartTypes DEF Inductive
    <3>2. DiscardParked(Started(rt, c), {c}) \in Runtimes
      BY <3>1, StopTypes
    <3>3. rt' \in Runtimes
      BY <1>1, <2>1, <3>1, <3>2, StartTypes
    <3>4. rec \in SoundThreads(K) /\ rec.pc = "mount" /\ rec.todo \subseteq Candidates
      BY <1>1 DEF SoundThreads, Points
    <3>5. Placed(rec, K, blessed)
      BY <3>4 DEF Placed
    <3> HIDE DEF rec
    <3> QED
      BY <2>1, <3>3, <3>4, <3>5, GotoSound DEF Inductive
  <2>2. ASSUME NEW clash \in Clashes(c),
               Restoring(t, th[t], "clear", bare, registry, StartFailed(rt, c, clash))
        PROVE  rt' \in Runtimes /\ ThreadsSound(th', K, blessed)
    <3>1. clash \in BOOLEAN
      BY DEF Clashes
    <3>2. StartFailed(rt, c, clash) \in Runtimes
      BY <1>1, <3>1, StartFailedType DEF Inductive
    <3>3. bare \in SoundSnapshots(K)
      BY <1>1 DEF SoundSnapshots
    <3>4. Active(registry) \in SoundSets(K)
      BY CaptureSound DEF Inductive
    <3> HIDE DEF bare
    <3> QED
      BY <1>1, <2>2, <3>2, <3>3, <3>4, RestoringSound DEF Inductive, Returns
  <2> QED
    BY <2>1, <2>2 DEF MountStarted
<1> QED
  BY <1>1, <1>2, StepSound DEF MountStarted, Inductive

LEMMA MountsDoneStep ==
    ASSUME Inductive, NEW t \in Threads, MountsDone(t)
    PROVE  Inductive'
<1> DEFINE K == Known(registry)
           rec == [th[t] EXCEPT !.pc = "mounted", !.wait = FALSE]
<1>1. th[t] \in SoundThreads(K) /\ up # "down"
  BY ThreadFacts DEF MountsDone
<1>2. rec \in SoundThreads(K) /\ rec.pc = "mounted"
  BY <1>1 DEF SoundThreads, Points
<1>3. Placed(rec, K, blessed)
  BY <1>2 DEF Placed
<1>4. Goto(t, rec)
  BY DEF MountsDone
<1>5. gov' \in SoundGovs(K)
  <2>1. Capture(registry, rt) \in SoundSnapshots(K)
    BY CaptureSound DEF Inductive
  <2>2. gov' = gov \/ gov' = Adopted(gov, Capture(registry, rt))
    BY DEF MountsDone
  <2> QED
    BY <2>1, <2>2 DEF Adopted, Inductive, SoundGovs
<1> HIDE DEF rec
<1>6. ThreadsSound(th', K, blessed)
  BY <1>2, <1>3, <1>4, GotoSound DEF Inductive
<1>7. disk' = disk \/ Flush
  BY DEF MountsDone
<1> QED
  BY <1>1, <1>5, <1>6, <1>7, StepSound DEF MountsDone, Inductive

LEMMA MountsClearedStep ==
    ASSUME Inductive, NEW t \in Threads, MountsCleared(t)
    PROVE  Inductive'
<1>1. th[t] \in SoundThreads(Known(registry)) /\ up # "down"
  BY ThreadFacts DEF MountsCleared
<1>2. /\ registry' \in SoundRegistries(blessed) /\ Known(registry') = Known(registry)
      /\ gov' \in SoundGovs(Known(registry)) /\ rt' \in Runtimes
      /\ ThreadsSound(th', Known(registry), blessed)
  BY <1>1, FailingClosedSound DEF MountsCleared, Inductive
<1> QED
  BY <1>1, <1>2, RowsKept DEF MountsCleared, Inductive

LEMMA ClosedStep ==
    ASSUME Inductive, NEW t \in Threads, Closed(t)
    PROVE  Inductive'
<1> DEFINE K == Known(registry)
           rec == [th[t] EXCEPT !.pc = "mounted", !.wait = FALSE, !.drop = {}]
<1>1. th[t] \in SoundThreads(K) /\ up # "down"
  BY ThreadFacts DEF Closed
<1>2. rec \in SoundThreads(K) /\ rec.pc = "mounted"
  BY <1>1 DEF SoundThreads, Points
<1>3. Placed(rec, K, blessed)
  BY <1>2 DEF Placed
<1>4. Goto(t, rec)
  BY DEF Closed
<1>5. gov' \in SoundGovs(K)
  BY FailureTyped DEF Closed, Inductive, SoundGovs
<1>6. rt' \in Runtimes
  BY StopTypes DEF Closed, Inductive
<1> HIDE DEF rec
<1>7. ThreadsSound(th', K, blessed)
  BY <1>2, <1>3, <1>4, GotoSound DEF Inductive
<1> QED
  BY <1>1, <1>5, <1>6, <1>7, StepSound DEF Closed, Inductive

-----------------------------------------------------------------------------
(* Safe Mode, disable, uninstall                                           *)

LEMMA EnterSafeModeStep ==
    ASSUME Inductive, EnterSafeMode
    PROVE  Inductive'
<1> DEFINE K == Known(registry)
           rec == [Resting EXCEPT !.pc = "safe", !.wait = UnloadWaits(rt, Candidates),
                                  !.drop = rt.generated]
<1>1. registry' \in SoundRegistries(blessed) /\ Known(registry') = K
  BY GeneratedDisabledSound DEF EnterSafeMode, Inductive
<1>2. Capture(registry', rt) \in SoundSnapshots(K)
  BY <1>1, CaptureSound DEF Inductive
<1>3. gov' \in SoundGovs(K)
  BY <1>2 DEF EnterSafeMode, Inductive, SoundGovs, ActivationStates
<1>4. rt' \in Runtimes
  BY StopTypes DEF EnterSafeMode, Inductive
<1>5. Resting \in SoundThreads(K) /\ UnloadWaits(rt, Candidates) \in BOOLEAN
      /\ rt.generated \in SUBSET Candidates
  BY RestingSound DEF Inductive, SoundRegistries, UnloadWaits, Runtimes
<1>6. rec \in SoundThreads(K) /\ rec.pc = "safe"
  BY <1>5 DEF SoundThreads, Points
<1>7. Placed(rec, K, blessed)
  BY <1>6 DEF Placed
<1>8. Goto("op", rec) /\ up # "down"
  BY DEF EnterSafeMode, LifecycleIdle
<1> HIDE DEF rec
<1>9. ThreadsSound(th', K, blessed)
  BY <1>6, <1>7, <1>8, GotoSound, OpIsThread DEF Inductive
<1> QED
  BY <1>1, <1>3, <1>4, <1>8, <1>9, RowsKept DEF EnterSafeMode, Inductive, Mutations

LEMMA SafeModeEnteredStep ==
    ASSUME Inductive, SafeModeEntered
    PROVE  Inductive'
<1>1. up # "down"
  BY ThreadFacts, OpIsThread DEF SafeModeEntered
<1>2. rt' \in Runtimes /\ ThreadsSound(th', Known(registry), blessed)
  BY StopTypes, RestSound, OpIsThread DEF SafeModeEntered, Inductive
<1> QED
  BY <1>1, <1>2, StepSound DEF SafeModeEntered, Inductive, Mutations

LEMMA ExitSafeModeStep ==
    ASSUME Inductive, ExitSafeMode
    PROVE  Inductive'
<1>1. Capture(registry, rt) \in SoundSnapshots(Known(registry))
  BY CaptureSound DEF Inductive
<1>2. gov' \in SoundGovs(Known(registry))
  BY <1>1 DEF ExitSafeMode, Inductive, SoundGovs, ActivationStates
<1> QED
  BY <1>2, StepSound DEF ExitSafeMode, Inductive, LifecycleIdle

LEMMA RemoveStartStep ==
    ASSUME Inductive, NEW x \in Rows, NEW kind \in {"disable", "uninstall"}, RemoveStart(x, kind)
    PROVE  Inductive'
<1> DEFINE K == Known(registry)
           unload == {x} \cap Candidates
           rec == [Resting EXCEPT !.pc = kind, !.wait = UnloadWaits(rt, unload), !.todo = {x},
                                  !.drop = unload \cap rt.generated, !.prior = gov]
<1>1. x \in K
  BY DEF RemoveStart, Known
<1>2. Resting \in SoundThreads(K) /\ UnloadWaits(rt, unload) \in BOOLEAN
      /\ gov \in SoundGovs(K) /\ {x} \in SUBSET Rows /\ unload \cap rt.generated \in SUBSET Candidates
  BY RestingSound DEF Inductive, SoundRegistries, UnloadWaits
<1>3. rec \in SoundThreads(K) /\ rec.pc = kind /\ rec.todo = {x}
  BY <1>2 DEF SoundThreads, Points
<1>4. Placed(rec, K, blessed)
  BY <1>1, <1>3 DEF Placed
<1>5. Goto("op", rec) /\ up # "down"
  BY DEF RemoveStart, LifecycleIdle
<1>6. rt' \in Runtimes
  BY StopTypes DEF RemoveStart, Inductive
<1> HIDE DEF rec
<1>7. ThreadsSound(th', K, blessed)
  BY <1>3, <1>4, <1>5, GotoSound, OpIsThread DEF Inductive
<1> QED
  BY <1>5, <1>6, <1>7, StepSound DEF RemoveStart, Inductive, Mutations

LEMMA RemovedStep ==
    ASSUME Inductive, Removed
    PROVE  Inductive'
<1> DEFINE K == Known(registry)
           row == th["op"].todo
           reg == SetStatus(registry, row, "disabled")
           r == Dropped(rt, th["op"].drop)
           snap == Capture(reg, r)
           g == [gov EXCEPT !.current = snap, !.lkg = IF th["op"].pc = "uninstall" THEN snap ELSE @]
           free == \A x \in row : MayActivate(reg, x)
<1>1. /\ th["op"] \in SoundThreads(K) /\ th["op"].prior \in SoundGovs(K) /\ up # "down"
      /\ \E x \in K : row = {x}
  BY ThreadFacts, OpIsThread DEF Removed, Placed
<1>2. PICK x \in K : row = {x}
  BY <1>1
<1>3. reg \in SoundRegistries(blessed) /\ Known(reg) = K
  BY <1>2, DisabledSound DEF Inductive
<1>4. r \in Runtimes
  BY StopTypes DEF Inductive
<1>5. snap \in SoundSnapshots(K)
  BY <1>3, <1>4, CaptureSound
<1>6. g \in SoundGovs(K) /\ [g EXCEPT !.safeMode = TRUE, !.state = "safe-mode"] \in SoundGovs(K)
  <2> HIDE DEF snap
  <2> QED
    BY <1>5 DEF Inductive, SoundGovs, ActivationStates
<1> HIDE DEF g, snap, reg, r
<1>7. CASE registry' = reg /\ gov' = g /\ rt' = r /\ Release /\ Flush /\ UNCHANGED spent
  <2>1. ThreadsSound(th', K, blessed) /\ mutation' \in Mutations /\ deferred' \in BOOLEAN
    BY <1>7, RestSound, OpIsThread DEF Release, Mutations
  <2> QED
    BY <1>1, <1>3, <1>4, <1>6, <1>7, <2>1, RowsKept DEF Removed, Inductive
<1>8. CASE /\ FlushAnswered(g)
           /\ deferred' = TRUE
           /\ registry' = IF free THEN SetStatus(reg, row, "active") ELSE reg
           /\ gov' = IF free THEN g ELSE [g EXCEPT !.safeMode = TRUE, !.state = "safe-mode"]
           /\ Restoring("op", th["op"], "revert", th["op"].prior.current, registry', r)
           /\ UNCHANGED mutation
  <2>1. registry' \in SoundRegistries(blessed) /\ Known(registry') = K
    <3>1. CASE free
      <4>1. MayActivate(reg, x) /\ x \in Known(reg) /\ registry' = SetStatus(reg, {x}, "active")
        BY <1>2, <1>3, <1>8, <3>1
      <4>2. reg \in Registries /\ ConflictFree(Active(reg))
        BY <1>3 DEF SoundRegistries
      <4> QED
        BY <1>3, <4>1, <4>2, ReactivateSound DEF SoundRegistries
    <3>2. CASE ~free
      BY <1>3, <1>8, <3>2
    <3> QED
      BY <3>1, <3>2
  <2>2. gov' \in SoundGovs(K) /\ spent' \in Spendings /\ disk' \in Disks(blessed, K)
    BY <1>6, <1>8, AnsweredSound
  <2>3. Active(registry') \in SoundSets(K) /\ th["op"].prior.current \in SoundSnapshots(K)
    BY <1>1, <1>4, <2>1, CaptureSound DEF SoundGovs
  <2>4. rt' \in Runtimes /\ ThreadsSound(th', K, blessed)
    BY <1>1, <1>4, <1>8, <2>3, RestoringSound, OpIsThread DEF Inductive, Returns
  <2> QED
    BY <1>1, <1>8, <2>1, <2>2, <2>4, RowsKept DEF Removed, Inductive
<1> QED
  BY <1>7, <1>8 DEF Removed, g, snap, reg, r

LEMMA RemoveRevertedStep ==
    ASSUME Inductive, RemoveReverted
    PROVE  Inductive'
<1>1. /\ th["op"] \in SoundThreads(Known(registry)) /\ up # "down"
      /\ th["op"].prior \in SoundGovs(Known(registry))
  BY ThreadFacts, OpIsThread DEF RemoveReverted
<1>2. gov' \in SoundGovs(Known(registry))
  BY <1>1 DEF RemoveReverted, Inductive, SoundGovs, SoundThreads, ActivationStates
<1>3. /\ ThreadsSound(th', Known(registry), blessed) /\ mutation' \in Mutations
      /\ deferred' \in BOOLEAN /\ spent' \in Spendings
      /\ Flush \/ disk' \in Disks(blessed, Known(registry))
  <2>1. CASE Release /\ Flush /\ UNCHANGED spent
    BY <2>1, RestSound, OpIsThread DEF Release, Mutations, Inductive
  <2>2. CASE mutation' = "idle" /\ UNCHANGED deferred /\ FlushLost
    BY <1>2, <2>2, LostSound DEF RemoveReverted, Mutations, Inductive
  <2> QED
    BY <2>1, <2>2 DEF RemoveReverted
<1> QED
  BY <1>1, <1>2, <1>3, RowsKept DEF RemoveReverted, Inductive

-----------------------------------------------------------------------------
(* The failure callback                                                    *)

LEMMA RunnerDiesStep ==
    ASSUME Inductive, NEW c \in Candidates, RunnerDies(c)
    PROVE  Inductive'
<1> DEFINE K == Known(registry)
           target == Fallback(gov)
           here == [Resting EXCEPT !.cand = c]
           r == Dropped(Dropping(rt, {c}), {c})
<1>1. registry' \in SoundRegistries(blessed) /\ Known(registry') = K
  <2>1. CASE registry[c] = "active" /\ registry' = SetStatus(registry, {c}, "disabled")
    <3>1. {c} \subseteq Known(registry)
      BY <2>1, RowsAssumption DEF Known
    <3> QED
      BY <2>1, <3>1, DisabledSound DEF Inductive
  <2> QED
    BY <2>1 DEF RunnerDies, Inductive
<1>2. target \in SoundSnapshots(K)
  BY FallbackSound DEF Inductive
<1>3. gov' \in SoundGovs(K)
  <2>1. Failure(c, FALSE, FALSE) \in Failures
    BY DEF Failure, Failures
  <2>2. gov' = [gov EXCEPT !.state = "activation-failed", !.failure = Failure(c, FALSE, FALSE), !.lkg = target]
    BY DEF RunnerDies
  <2> HIDE DEF target
  <2> QED
    BY <1>2, <2>1, <2>2 DEF Inductive, SoundGovs, ActivationStates
<1>4. here \in SoundThreads(K)
  <2>1. Resting \in SoundThreads(K)
    BY RestingSound DEF Inductive, SoundRegistries
  <2> QED
    BY <2>1 DEF SoundThreads
<1>5. r \in Runtimes
  BY StopTypes DEF Inductive
<1>6. Active(registry') \in SoundSets(K)
  BY <1>1, CaptureSound DEF Inductive
<1>7. Restoring(c, here, "failed", target, registry', r) /\ c \in Threads
  BY DEF RunnerDies, Threads
<1> HIDE DEF here, target, r
<1>8. rt' \in Runtimes /\ ThreadsSound(th', K, blessed)
  BY <1>2, <1>4, <1>5, <1>6, <1>7, RestoringSound DEF Inductive, Returns
<1>9. spent' \in Spendings
  BY DEF RunnerDies, Inductive, Spendings
<1> QED
  BY <1>1, <1>3, <1>8, <1>9, RowsKept DEF RunnerDies, Inductive

LEMMA FailureRecordedSound ==
    ASSUME NEW K, NEW c \in Candidates, NEW g \in SoundGovs(K), NEW ok \in BOOLEAN, NEW target, NEW reg
    PROVE  FailureRecorded(c, g, ok, target, reg) \in SoundGovs(K)
<1>1. g.failure \in Failures /\ g.safeMode \in BOOLEAN
  BY DEF SoundGovs
<1>2. Failure(IF g.failure = NoFailure THEN c ELSE g.failure.cand, ok, ~ok) \in Failures
  BY <1>1 DEF Failure, Failures
<1>3. Restored(reg, target) \in BOOLEAN
  BY DEF Restored
<1> QED
  BY <1>1, <1>2, <1>3 DEF FailureRecorded, SoundGovs, ActivationStates

LEMMA FailureRestoredStep ==
    ASSUME Inductive, NEW c \in Candidates, FailureRestored(c)
    PROVE  Inductive'
<1> DEFINE K == Known(registry)
           reg == RestoredRegistry(c)
           now == [gov EXCEPT !.current = Capture(reg, rt)]
<1>1. th[c] \in SoundThreads(K) /\ c \in Threads /\ up # "down"
  BY ThreadFacts DEF FailureRestored, Threads
<1>2. reg \in SoundRegistries(blessed) /\ Known(reg) = K
  BY <1>1, RestoredRegistrySound
<1>3. now \in SoundGovs(K)
  <2>1. Capture(reg, rt) \in SoundSnapshots(K)
    BY <1>2, CaptureSound DEF Inductive
  <2> QED
    BY <2>1 DEF Inductive, SoundGovs
<1> HIDE DEF reg, now
<1>4. /\ registry' \in SoundRegistries(blessed) /\ Known(registry') = K
      /\ gov' \in SoundGovs(K) /\ rt' \in Runtimes /\ ThreadsSound(th', K, blessed)
      /\ \/ Flush
         \/ disk' \in Disks(blessed, K)
  <2>1. CASE Remounting(c, th[c], "failure", reg, now, rt, disk)
    BY <1>1, <1>2, <1>3, <2>1, RemountingSound DEF Inductive
  <2>2. CASE /\ registry' = reg /\ rt' = rt /\ Rest(c) /\ Flush
             /\ gov' = FailureRecorded(c, now, FALSE, th[c].snap, reg)
    BY <1>1, <1>2, <1>3, <2>2, RestSound, FailureRecordedSound DEF Inductive
  <2> QED
    BY <2>1, <2>2 DEF FailureRestored, reg, now
<1> QED
  BY <1>1, <1>4, RowsKept DEF FailureRestored, Inductive

LEMMA FailureHandledStep ==
    ASSUME Inductive, NEW c \in Candidates, FailureHandled(c)
    PROVE  Inductive'
<1>1. c \in Threads /\ up # "down"
  BY ThreadFacts DEF FailureHandled, Threads
<1>2. gov' \in SoundGovs(Known(registry))
  <2>1. (~gov.safeMode) \in BOOLEAN
    OBVIOUS
  <2> QED
    BY <2>1, FailureRecordedSound DEF FailureHandled, Inductive
<1>3. ThreadsSound(th', Known(registry), blessed)
  BY <1>1, RestSound DEF FailureHandled
<1> QED
  BY <1>1, <1>2, <1>3, StepSound DEF FailureHandled, Inductive

-----------------------------------------------------------------------------
(* The process                                                             *)

LEMMA CrashStep ==
    ASSUME Inductive, Crash
    PROVE  Inductive'
<1>1. spent \in Spendings /\ spent' = [spent EXCEPT !.crashes = @ + 1, !.lost = 0]
  BY DEF Crash, Inductive
<1>2. spent' \in Spendings
  <2>1. PICK n \in Nat : n = spent.crashes + 1
    BY <1>1 DEF Spendings
  <2>2. [spent EXCEPT !.crashes = n, !.lost = 0] \in Spendings
    BY <1>1 DEF Spendings
  <2> QED
    BY <1>1, <2>1, <2>2
<1> QED
  BY <1>2, DieSound DEF Crash

LEMMA BootStep ==
    ASSUME Inductive, Boot
    PROVE  Inductive'
<1> DEFINE K == Known(registry)
           g == IF gov.state \in {"activation-pending", "activating"}
                THEN [gov EXCEPT !.state = "activation-failed", !.pending = None,
                                 !.failure = Failure(gov.pending, TRUE, FALSE)]
                ELSE gov
           d == [disk EXCEPT !.gov = g, !.store.gov = g]
<1>1. g \in SoundGovs(K)
  BY DEF Inductive, SoundGovs, ActivationStates, Failure, Failures
<1>2. d \in Disks(blessed, K)
  <2>1. g \in Govs /\ registry = disk.registry
    BY <1>1, SoundTyped DEF Boot, Inductive
  <2> HIDE DEF g
  <2> QED
    BY <1>1, <2>1 DEF Disks, Inductive
<1>3. /\ registry' \in SoundRegistries(blessed) /\ Known(registry') = K
      /\ gov' \in SoundGovs(K) /\ rt' \in Runtimes /\ ThreadsSound(th', K, blessed)
      /\ disk' \in Disks(blessed, K)
      /\ deferred' \in BOOLEAN
  <2>1. CASE g.state = "rollback-pending" /\ UNCHANGED <<registry, gov, disk>>
             /\ StartRollback(g, [g EXCEPT !.state = "active"], rt)
    <3>1. [g EXCEPT !.state = "active"] \in SoundGovs(K)
      BY <1>1 DEF SoundGovs, ActivationStates
    <3> HIDE DEF g
    <3>2. rt' \in Runtimes /\ ThreadsSound(th', K, blessed) /\ deferred' = TRUE
      BY <1>1, <2>1, <3>1, StartRollbackSound
    <3> QED
      BY <2>1, <3>2 DEF Inductive
  <2>2. CASE Remounting("op", Resting, "boot", registry, g, rt, d) /\ UNCHANGED deferred
    <3>1. Resting \in SoundThreads(K)
      BY RestingSound DEF Inductive, SoundRegistries
    <3> HIDE DEF g, d
    <3> QED
      BY <1>1, <1>2, <2>2, <3>1, RemountingSound, OpIsThread DEF Inductive
  <2> QED
    BY <2>1, <2>2 DEF Boot
<1>4. /\ up' = "booting"
      /\ UNCHANGED <<approvals, mutation, intact, blessed, spent>>
  BY DEF Boot
<1> HIDE DEF g, d
<1> QED
  BY <1>3, <1>4 DEF Inductive

LEMMA BootedStep ==
    ASSUME Inductive, Booted
    PROVE  Inductive'
<1>1. ThreadsSound(th', Known(registry), blessed)
  BY RestSound, OpIsThread DEF Booted
<1> QED
  BY <1>1 DEF Booted, Inductive

LEMMA TamperStep ==
    ASSUME Inductive, NEW c \in Candidates, Tamper(c)
    PROVE  Inductive'
<1>1. intact' \subseteq Candidates /\ spent' \in Spendings
  BY DEF Tamper, Inductive, Spendings
<1> QED
  BY <1>1 DEF Tamper, Inductive

-----------------------------------------------------------------------------
(* The invariant.                                                          *)

LEMMA InitInductive ==
    ASSUME Init
    PROVE  Inductive
<1>1. PICK kept \in {{}, Legacy} :
        /\ registry = HomeRegistry(kept)
        /\ approvals = HomeApprovals(kept)
        /\ gov = HomeState(kept)
        /\ disk = FileOf(HomeRegistry(kept), HomeApprovals(kept), HomeState(kept))
        /\ blessed = kept
        /\ mutation = "idle" /\ deferred = FALSE /\ up = "down"
        /\ rt = FreshRuntime
        /\ th = [t \in Threads |-> Resting]
        /\ intact = Candidates
        /\ spent = [approvals |-> 0, crashes |-> 0, fatals |-> 0, faults |-> 0, tampers |-> 0,
                    lost |-> 0]
  BY DEF Init
<1>2. /\ registry \in SoundRegistries(blessed) /\ gov \in SoundGovs(Known(registry))
      /\ approvals \in SoundApprovals(blessed) /\ blessed \subseteq Candidates
  BY <1>1, HomeSound, GovernanceAssumption
<1>3. disk \in Disks(blessed, Known(registry)) /\ disk.registry = registry
  BY <1>1, <1>2, FileSound
<1>4. ThreadsSound(th, Known(registry), blessed) /\ \A t \in Threads : th[t].pc = "idle"
  <2>1. Resting \in SoundThreads(Known(registry)) /\ Placed(Resting, Known(registry), blessed)
    BY <1>2, RestingSound DEF SoundRegistries
  <2>2. Resting.pc = "idle"
    BY DEF Resting
  <2> HIDE DEF Resting
  <2> QED
    BY <1>1, <2>1, <2>2 DEF ThreadsSound
<1>5. spent \in Spendings
  BY <1>1 DEF Spendings
<1> QED
  BY <1>1, <1>2, <1>3, <1>4, <1>5, FreshRuntimeType DEF Inductive, Mutations

LEMMA NextInductive ==
    ASSUME Inductive, [Next]_vars
    PROVE  Inductive'
<1>1. ASSUME NEW t \in Threads, Advance(t)
      PROVE  Inductive'
  <2>1. CASE OpStep
    BY <2>1, ActivatePreparedStep, ActivateHealthyStep, ActivateUnhealthyStep, ActivateCommittedStep,
       ActivateUndoneStep, RollbackRestoredStep, RollbackMountedStep, RollbackRecoveredStep,
       RollbackClosedStep, SafeModeEnteredStep, RemovedStep, RemoveRevertedStep, BootedStep DEF OpStep
  <2>2. CASE t \in Candidates /\ FailureStep(t)
    BY <2>2, FailureRestoredStep, FailureHandledStep DEF FailureStep
  <2>3. CASE MountStep(t)
    BY <2>3, RestoreDroppedStep, RestoreStartedStep, MountNextStep, MountStartedStep, MountsDoneStep,
       MountsClearedStep, ClosedStep DEF MountStep
  <2> QED
    BY <1>1, <2>1, <2>2, <2>3 DEF Advance
<1>2. CASE Request
  <2>1. ASSUME NEW c \in Candidates,
               \/ RequestApproval(c) \/ RecordApproval(c, "approved-for-exact-diff")
               \/ RecordApproval(c, "rejected") \/ AbandonFailedActivation(c) \/ ActivateStart(c)
        PROVE  Inductive'
    BY <2>1, RequestApprovalStep, RecordApprovalStep, AbandonStep, ActivateStartStep
  <2>2. CASE Rollback \/ EnterSafeMode \/ ExitSafeMode
    BY <2>2, RollbackStep, EnterSafeModeStep, ExitSafeModeStep
  <2>3. ASSUME NEW x \in Rows, RemoveStart(x, "disable") \/ RemoveStart(x, "uninstall")
        PROVE  Inductive'
    BY <2>3, RemoveStartStep
  <2> QED
    BY <1>2, <2>1, <2>2, <2>3 DEF Request
<1>3. CASE Environment
  BY <1>3, CrashStep, RunnerDiesStep, TamperStep DEF Environment
<1>4. CASE Boot
  BY <1>4, BootStep
<1>5. CASE UNCHANGED vars
  BY <1>5 DEF vars, Inductive, ThreadsSound
<1> QED
  BY <1>1, <1>2, <1>3, <1>4, <1>5 DEF Next

(* Every registry, snapshot and approval the service can reach, in memory, *)
(* in a waiting call or in the authority file, is sound, whatever is       *)
(* interrupted, refused by the disk, tampered with or killed.              *)
THEOREM Invariance == Spec => []Inductive
<1>1. Init => Inductive
  BY InitInductive
<1>2. Inductive /\ [Next]_vars => Inductive'
  BY NextInductive
<1> QED
  BY <1>1, <1>2, PTL DEF Spec

-----------------------------------------------------------------------------
(* What follows from it.                                                   *)

LEMMA InductiveTyped ==
    ASSUME Inductive
    PROVE  TypeOK
<1>1. gov \in Govs
  BY SoundTyped DEF Inductive
<1>2. th \in [Threads -> ThreadStates]
  BY SoundTyped DEF Inductive, ThreadsSound
<1>3. disk \in [registry : Registries, approvals : Approvals, gov : Govs,
                store : [approvals : Approvals, gov : Govs]]
  BY SoundTyped DEF Inductive, Disks, SoundRegistries, SoundApprovals
<1> QED
  BY <1>1, <1>2, <1>3 DEF TypeOK, Inductive, SoundRegistries, SoundApprovals

(* The variables of the governance keep their types. *)
THEOREM TypeCorrect == Spec => []TypeOK
BY Invariance, InductiveTyped, PTL

(* Approvals, activations, rollbacks, removals, Safe Mode, boots, crashes  *)
(* and dying children never leave two active rows that claim the same      *)
(* capability, in memory or in the authority file.                         *)
THEOREM ConflictFreedom == Spec => []NoConflict
<1>1. Inductive => NoConflict
  BY DEF Inductive, Disks, SoundRegistries, NoConflict
<1> QED
  BY <1>1, Invariance, PTL

(* No extension row is active, in memory or in the authority file, that no *)
(* trusted authority ever approved.                                        *)
THEOREM OnlyApproved == Spec => []ActiveWasApproved
<1>1. ASSUME NEW b, NEW reg \in SoundRegistries(b)
      PROVE  ActiveGenerated(reg) \subseteq b
  BY DEF SoundRegistries, ActiveGenerated, Active, Known
<1>2. Inductive => ActiveWasApproved
  BY <1>1 DEF Inductive, Disks, ActiveWasApproved
<1> QED
  BY <1>2, Invariance, PTL

(* Every snapshot that a rollback or a recovery may restore, in memory or  *)
(* after a crash, names only rows the registry then holds.                 *)
THEOREM RestorableSnapshots == Spec => []SnapshotsRegistered
<1>1. ASSUME NEW K, NEW g \in SoundGovs(K)
      PROVE  \A s \in SnapshotsOf(g) : s.owners \subseteq K
  BY DEF SoundGovs, SnapshotsOf, SoundSnapshots, SoundSets
<1>2. Inductive => SnapshotsRegistered
  BY <1>1 DEF Inductive, Disks, SnapshotsRegistered
<1> QED
  BY <1>2, Invariance, PTL

-----------------------------------------------------------------------------
(* What is counted.                                                        *)

Counted ==
    \/ spent' = spent
    \/ spent' = [spent EXCEPT !.approvals = @ + 1]
    \/ spent' = [spent EXCEPT !.fatals = @ + 1]
    \/ spent' = [spent EXCEPT !.faults = @ + 1]
    \/ spent' = [spent EXCEPT !.tampers = @ + 1]
    \/ FlushLost
    \/ Crash

LEMMA NextCounted ==
    ASSUME [Next]_vars
    PROVE  Counted
<1>1. ASSUME NEW t \in Threads, Advance(t)
      PROVE  Counted
  <2>1. CASE OpStep
    BY <2>1 DEF OpStep, ActivatePrepared, ActivateHealthy, ActivateUnhealthy,
       ActivateCommitted, ActivateUndone, RollbackRestored, RollbackMounted, RollbackRecovered,
       RollbackClosed, SafeModeEntered, Removed, RemoveReverted, Booted, FlushAnswered, Counted
  <2>2. CASE FailureStep(t)
    BY <2>2 DEF FailureStep, FailureRestored, FailureHandled, Counted
  <2>3. CASE MountStep(t)
    BY <2>3 DEF MountStep, RestoreDropped, RestoreStarted, MountNext, MountStarted, MountsDone,
       MountsCleared, Closed, Counted
  <2> QED
    BY <1>1, <2>1, <2>2, <2>3 DEF Advance
<1>2. Request => Counted
  BY DEF Request, RequestApproval, RecordApproval, SpendApproval,
     AbandonFailedActivation, ActivateStart, Rollback, EnterSafeMode, ExitSafeMode, RemoveStart, Counted
<1>3. Environment => Counted
  BY DEF Environment, Tamper, RunnerDies, Counted
<1>4. Boot => Counted
  BY DEF Boot, Counted
<1> QED
  BY <1>1, <1>2, <1>3, <1>4 DEF Next, vars, Counted

(* Nothing is forgotten but, with the process, what it lost.               *)
LEMMA SpentGrows ==
    ASSUME Inductive, [Next]_vars
    PROVE  /\ spent.crashes \in Nat /\ spent.fatals \in Nat /\ spent.faults \in Nat /\ spent.lost \in Nat
           /\ spent.fatals <= spent'.fatals /\ spent.faults <= spent'.faults
           /\ spent.crashes <= spent'.crashes
           /\ Crash => spent'.crashes = spent.crashes + 1
           /\ ~Crash => spent.lost <= spent'.lost
           /\ \A c \in Candidates : RunnerDies(c) => spent'.fatals = spent.fatals + 1
<1>1. /\ spent.crashes \in Nat /\ spent.fatals \in Nat /\ spent.faults \in Nat /\ spent.lost \in Nat
      /\ DOMAIN spent = {"approvals", "crashes", "fatals", "faults", "tampers", "lost"}
  BY DEF Inductive, Spendings
<1>2. FlushLost => /\ spent'.crashes = spent.crashes /\ spent'.fatals = spent.fatals
                   /\ spent'.faults = spent.faults + 1 /\ spent'.lost = spent.lost + 1
  BY <1>1 DEF FlushLost
<1>3. Crash => /\ spent'.crashes = spent.crashes + 1 /\ spent'.fatals = spent.fatals
               /\ spent'.faults = spent.faults
  BY <1>1 DEF Crash
<1>4. \A c \in Candidates : RunnerDies(c) => spent'.fatals = spent.fatals + 1
  BY <1>1 DEF RunnerDies
<1>5. ~FlushLost /\ ~Crash =>
         /\ spent'.crashes = spent.crashes /\ spent'.lost = spent.lost
         /\ spent'.fatals \in {spent.fatals, spent.fatals + 1}
         /\ spent'.faults \in {spent.faults, spent.faults + 1}
  BY <1>1, NextCounted DEF Counted
<1> QED
  BY <1>1, <1>2, <1>3, <1>4, <1>5

-----------------------------------------------------------------------------
(* Every call ends with the file written and the lock released             *)

(* Where the call of a thread goes on after what it waits for.             *)
Stage(rec) == IF rec.pc \in {"restore", "restart"} THEN rec.ret ELSE rec.pc

(* The waits of mountGenerated and of what follows it.                     *)
MountPoints == {"mount", "mounting", "clear", "close", "mounted"}

(* The states of an operation that assertMutationIdle refuses.             *)
Pending(g) == g.state \in {"activation-pending", "activating", "rollback-pending"}

(* A call that writes authority.json before it ends.  A boot does not, but *)
(* on its way to withhold a row or to fail closed.                         *)
Owes(rec) ==
    /\ rec.pc # "idle"
    /\ rec.then = "boot" =>
          rec.pc # "mounted" /\ (rec.pc \in {"mount", "mounting"} => rec.held # {})

(* What is not in the file yet, some call will write.                      *)
FileFollows ==
    \/ disk = FileOf(registry, approvals, gov)
    \/ \E t \in Threads : Owes(th[t])

(* The lifecycle call `rec` holds the lock, the deferral and the states    *)
(* that lock other calls out; and a rollback does not put such a state     *)
(* back.                                                                   *)
Holds(rec, g, locked, defers, process) ==
    /\ defers => rec.pc \notin {"idle", "safe", "shut"} /\ rec.then # "boot"
    /\ rec.then = "boot" => Stage(rec) \in MountPoints /\ process = "booting"
    /\ process # "up" => locked = "idle"
    /\ process = "up" => (locked = "idle" <=> rec.pc = "idle")
    /\ process # "down" /\ Pending(g) =>
          Stage(rec) \in {"prepare", "health", "commit", "undo", "rollback", "recover"}
    /\ Stage(rec) \in {"rollback", "recover"} \/ rec.then = "rollback" => ~Pending(rec.prior)

LockHeld == FileFollows /\ Holds(th["op"], gov, mutation, deferred, up)

(* What the lock tells of the lifecycle call, a write that no handler      *)
(* answers or not: such a call may leave the lock, but never the reverse.  *)
Calling(rec, locked, process) ==
    /\ rec.then = "boot" => process = "booting"
    /\ process # "up" => locked = "idle"
    /\ process = "up" /\ locked = "idle" => rec.pc = "idle"

CallInv == Calling(th["op"], mutation, up)

(* The inductive invariant of this part.                                   *)
LockInv == CallInv /\ (spent.lost = 0 => LockHeld)

LEMMA HeldLocks ==
    ASSUME LockHeld PROVE LockInv
BY DEF LockHeld, Holds, LockInv, CallInv, Calling

(* A step that leaves no write unanswered is not one that loses it.        *)
LEMMA NotLost ==
    ASSUME Inductive, spent'.lost = 0
    PROVE  ~FlushLost
<1>1. FlushLost => spent'.lost = spent.lost + 1 /\ spent.lost \in Nat
  BY DEF Inductive, Spendings, FlushLost
<1> QED
  BY <1>1

-----------------------------------------------------------------------------

(* What Goto does to the threads.                                          *)
LEMMA Moved ==
    ASSUME Inductive, NEW t \in Threads, NEW rec, Goto(t, rec)
    PROVE  th'[t] = rec /\ \A u \in Threads : u # t => th'[u] = th[u]
BY DEF Inductive, ThreadsSound, Goto

(* A thread of a callback is not the thread of the lifecycle calls.        *)
LEMMA OpApart == "op" \in Threads /\ \A c \in Candidates : c \in Threads /\ c # "op"
BY GovernanceAssumption DEF Threads

(* A call that waits for runtime.restore.                                  *)
LEMMA RestoringMoves ==
    ASSUME Inductive, NEW t \in Threads, NEW K, NEW here \in SoundThreads(K), NEW ret, NEW snap,
           NEW reg, NEW r, Restoring(t, here, ret, snap, reg, r)
    PROVE  /\ th'[t].pc = "restore" /\ th'[t].ret = ret
           /\ th'[t].then = here.then /\ th'[t].prior = here.prior
           /\ \A u \in Threads : u # t => th'[u] = th[u]
<1> DEFINE rec == [here EXCEPT !.pc = "restore", !.wait = RestoreWaits(r, snap), !.ret = ret,
                               !.snap = snap, !.owners = Active(reg), !.todo = snap.mounted,
                               !.drop = Unwanted(r, snap)]
<1>1. rec.pc = "restore" /\ rec.ret = ret /\ rec.then = here.then /\ rec.prior = here.prior
  BY DEF SoundThreads
<1>2. Goto(t, rec)
  BY DEF Restoring
<1> HIDE DEF rec
<1> QED
  BY <1>1, <1>2, Moved

(* failClosedSafeMode waits for its unload, or is done at once.            *)
LEMMA FailingClosedMoves ==
    ASSUME Inductive, NEW t \in Threads, NEW K, NEW here \in SoundThreads(K), NEW pc, NEW reg,
           NEW g \in SoundGovs(K), NEW r, FailingClosed(t, here, pc, reg, g, r)
    PROVE  /\ th'[t].pc = pc /\ th'[t].then = here.then /\ th'[t].prior = here.prior
           /\ gov'.state = "safe-mode"
           /\ \A u \in Threads : u # t => th'[u] = th[u]
<1> DEFINE rec == [here EXCEPT !.pc = pc, !.wait = UnloadWaits(r, Candidates), !.drop = r.generated]
<1>1. rec.pc = pc /\ rec.then = here.then /\ rec.prior = here.prior
  BY DEF SoundThreads
<1>2. Goto(t, rec)
  BY DEF FailingClosed
<1>3. gov'.state = "safe-mode"
  BY DEF FailingClosed, SoundGovs
<1> HIDE DEF rec
<1> QED
  BY <1>1, <1>2, <1>3, Moved

(* A call on its way into the remount: it is through, and has changed      *)
(* nothing since it wrote, or it owes a write.                             *)
LEMMA RemountingMoves ==
    ASSUME Inductive, NEW t \in Threads, NEW K, NEW here \in SoundThreads(K), NEW then,
           NEW reg \in Registries, NEW g \in SoundGovs(K), NEW r, NEW d,
           Remounting(t, here, then, reg, g, r, d)
    PROVE  /\ th'[t].pc \in {"mounted", "close", "mount"}
           /\ th'[t].then = then /\ th'[t].prior = here.prior
           /\ gov'.state \in {g.state, "safe-mode"}
           /\ \A u \in Threads : u # t => th'[u] = th[u]
           /\ then = "boot" /\ ~Owes(th'[t]) => registry' = reg /\ gov' = g
<1> DEFINE targets  == Committed(g).owners \cap Candidates
           held     == targets \cap Legacy \cap intact
           sound    == targets \subseteq intact /\ ActiveGenerated(reg) \subseteq targets
           withheld == SetStatus(reg, held, "disabled")
           go       == [here EXCEPT !.then = then, !.todo = {}, !.held = {}]
           skip     == [go EXCEPT !.pc = "mounted", !.wait = FALSE]
           mount    == [go EXCEPT !.pc = "mount", !.wait = FALSE, !.todo = Remountable(g), !.held = held]
<1>1. CASE registry' = reg /\ gov' = g /\ Goto(t, skip)
  <2>1. skip.pc = "mounted" /\ skip.then = then /\ skip.prior = here.prior
    BY DEF SoundThreads
  <2> HIDE DEF skip
  <2> QED
    BY <1>1, <2>1, Moved
<1>2. CASE FailingClosed(t, go, "close", withheld, g, r)
  <2>1. go.then = then /\ go.prior = here.prior
    BY DEF SoundThreads
  <2>2. PICK rec : /\ rec = [go EXCEPT !.pc = "close", !.wait = UnloadWaits(r, Candidates), !.drop = r.generated]
                   /\ Goto(t, rec)
    BY <1>2 DEF FailingClosed
  <2>3. rec.pc = "close" /\ rec.then = then /\ rec.prior = here.prior
    BY <2>2 DEF SoundThreads
  <2>4. gov'.state = "safe-mode"
    BY <1>2 DEF FailingClosed, SoundGovs
  <2>5. th'[t] = rec /\ \A u \in Threads : u # t => th'[u] = th[u]
    BY <2>2, Moved
  <2> QED
    BY <2>3, <2>4, <2>5 DEF Owes
<1>3. CASE /\ registry' = withheld /\ rt' = r
           /\ gov' = IF held = {} THEN g ELSE [g EXCEPT !.failure = Failure(Blamed(g), FALSE, FALSE)]
           /\ Goto(t, mount)
  <2>1. mount.pc = "mount" /\ mount.then = then /\ mount.prior = here.prior /\ mount.held = held
    BY DEF SoundThreads
  <2>2. th'[t] = mount /\ \A u \in Threads : u # t => th'[u] = th[u]
    <3> HIDE DEF mount
    <3> QED
      BY <1>3, Moved
  <2>3. gov'.state = g.state /\ (held = {} => gov' = g)
    BY <1>3 DEF SoundGovs
  <2>4. held = {} => registry' = reg
    BY <1>3 DEF SetStatus, Registries
  <2> HIDE DEF mount, held
  <2> QED
    BY <2>1, <2>2, <2>3, <2>4 DEF Owes
<1> QED
  BY <1>1, <1>2, <1>3 DEF Remounting

(* A write of the whole file.                                              *)
LEMMA Written ==
    ASSUME Flush PROVE FileFollows'
BY DEF Flush, FileFollows

(* A call that is not over and owes a write.                               *)
LEMMA StillOwes ==
    ASSUME NEW t \in Threads, Owes(th'[t]) PROVE FileFollows'
BY DEF FileFollows, Owes

(* A step of another thread than the lifecycle call.                       *)
LEMMA Beside ==
    ASSUME LockHeld, th'["op"] = th["op"], UNCHANGED <<mutation, deferred, up>>,
           Pending(gov') => Pending(gov), FileFollows'
    PROVE  LockHeld'
BY DEF LockHeld, Holds, Pending

(* The end of a lifecycle call.                                            *)
LEMMA LockGiven ==
    ASSUME Inductive, Goto("op", Resting), mutation' = "idle", deferred' = FALSE, up' = up,
           ~Pending(gov'), FileFollows'
    PROVE  LockHeld'
<1>1. th'["op"] = Resting
  BY Moved, OpApart
<1>2. Resting.pc = "idle" /\ Resting.then = "none"
  BY DEF Resting
<1> QED
  BY <1>1, <1>2 DEF LockHeld, Holds, Pending, Stage

(* A lifecycle call that goes on.                                          *)
LEMMA LockKept ==
    ASSUME LockHeld, mutation' = mutation, up' = up, up # "down",
           th["op"].pc # "idle", Owes(th'["op"]),
           deferred' => th'["op"].pc \notin {"safe", "shut"} /\ th'["op"].then # "boot",
           th'["op"].then # "boot",
           Pending(gov') =>
               Stage(th'["op"]) \in {"prepare", "health", "commit", "undo", "rollback", "recover"},
           Stage(th'["op"]) \in {"rollback", "recover"} \/ th'["op"].then = "rollback" =>
               ~Pending(th'["op"].prior)
    PROVE  LockHeld'
<1>1. FileFollows'
  BY StillOwes, OpApart
<1> QED
  BY <1>1 DEF LockHeld, Holds, Pending, Stage, Owes

-----------------------------------------------------------------------------
(* The waits of runtime.restore and of the remount.                        *)

(* Thread t goes on with the call it is in.                                *)
GoesOn(t) ==
    /\ \A u \in Threads : u # t => th'[u] = th[u]
    /\ th[t].pc # "idle" /\ th'[t].pc \notin {"idle", "safe", "shut"}
    /\ th'[t].then = th[t].then /\ th'[t].prior = th[t].prior
    /\ \/ Stage(th'[t]) = Stage(th[t])
       \/ Stage(th[t]) \in MountPoints /\ Stage(th'[t]) \in MountPoints
    /\ UNCHANGED <<mutation, deferred, up>>
    /\ Pending(gov') => Pending(gov)
    /\ FileFollows => FileFollows'

(* A call that goes on keeps the invariant.                                *)
LEMMA GoneOn ==
    ASSUME Inductive, LockHeld, NEW t \in Threads, GoesOn(t)
    PROVE  LockHeld'
<1>1. CASE t = "op"
  <2>1. up # "down"
    BY <1>1, ThreadFacts DEF GoesOn
  <2>2. Stage(th["op"]) \in MountPoints => ~Pending(gov)
    BY <2>1 DEF LockHeld, Holds, MountPoints
  <2> QED
    BY <1>1, <2>1, <2>2 DEF GoesOn, LockHeld, Holds, Pending, MountPoints
<1>2. CASE t # "op"
  BY <1>2, Beside, OpApart DEF GoesOn, LockHeld
<1> QED
  BY <1>1, <1>2

(* A step that writes nothing and leaves the thread owing what it owed.    *)
LEMMA NothingWritten ==
    ASSUME FileFollows, NEW t \in Threads, \A u \in Threads : u # t => th'[u] = th[u],
           Owes(th[t]) => Owes(th'[t]), UNCHANGED <<registry, approvals, gov, disk>>
    PROVE  FileFollows'
BY DEF FileFollows, Owes

(* The restart loop of runtime.restore writes nothing.                     *)
LEMMA RestoreLoopGoesOn ==
    ASSUME Inductive, NEW t \in Threads, th[t].pc \in {"restore", "restart"}, NEW r,
           RestoreLoop(t, r), UNCHANGED <<registry, approvals, gov, mutation, deferred, disk, up>>
    PROVE  GoesOn(t)
<1> DEFINE done == RestoreEnded(th[t], TRUE)
<1>1. th[t] \in SoundThreads(Known(registry)) /\ th[t].ret \in Returns
  BY ThreadFacts DEF Placed
<1>2. PICK rec :
         /\ Goto(t, rec) /\ rec.then = th[t].then /\ rec.prior = th[t].prior
         /\ (rec.pc = th[t].ret) \/ (rec.pc = "restart" /\ rec.ret = th[t].ret)
  <2>1. CASE Goto(t, done)
    <3>1. done.then = th[t].then /\ done.prior = th[t].prior /\ done.pc = th[t].ret
      BY <1>1 DEF RestoreEnded, SoundThreads
    <3> QED
      BY <2>1, <3>1
  <2>2. ASSUME NEW c, Goto(t, [th[t] EXCEPT !.pc = "restart", !.wait = TRUE, !.drop = {},
                                            !.start = c, !.todo = @ \ {c}])
        PROVE  \E rec : /\ Goto(t, rec) /\ rec.then = th[t].then /\ rec.prior = th[t].prior
                        /\ (rec.pc = th[t].ret) \/ (rec.pc = "restart" /\ rec.ret = th[t].ret)
    <3>1. PICK rec : rec = [th[t] EXCEPT !.pc = "restart", !.wait = TRUE, !.drop = {},
                                         !.start = c, !.todo = @ \ {c}]
      OBVIOUS
    <3>2. rec.then = th[t].then /\ rec.prior = th[t].prior /\ rec.pc = "restart" /\ rec.ret = th[t].ret
      BY <1>1, <3>1 DEF SoundThreads
    <3> QED
      BY <2>2, <3>1, <3>2
  <2> QED
    BY <2>1, <2>2 DEF RestoreLoop
<1>3. th'[t] = rec /\ \A u \in Threads : u # t => th'[u] = th[u]
  BY <1>2, Moved
<1>4. Owes(th'[t])
  BY <1>1, <1>2, <1>3 DEF Owes, Returns
<1> QED
  BY <1>1, <1>2, <1>3, <1>4, StillOwes DEF GoesOn, Stage, Returns

(* Each of these steps goes on with its call, or ends it as it must.       *)
LEMMA RestoreDroppedGoesOn ==
    ASSUME Inductive, NEW t \in Threads, RestoreDropped(t)
    PROVE  GoesOn(t)
BY RestoreLoopGoesOn DEF RestoreDropped

LEMMA RestoreStartedGoesOn ==
    ASSUME Inductive, NEW t \in Threads, RestoreStarted(t)
    PROVE  GoesOn(t)
<1>1. CASE \E r : RestoreLoop(t, r)
  BY <1>1, RestoreLoopGoesOn DEF RestoreStarted
<1>2. CASE Goto(t, RestoreEnded(th[t], FALSE))
  <2>1. th[t] \in SoundThreads(Known(registry)) /\ th[t].ret \in Returns
    BY ThreadFacts DEF Placed, RestoreStarted
  <2>2. PICK rec : rec = RestoreEnded(th[t], FALSE)
    OBVIOUS
  <2>3. rec.then = th[t].then /\ rec.prior = th[t].prior /\ rec.pc = th[t].ret
    BY <2>1, <2>2 DEF RestoreEnded, SoundThreads
  <2>4. th'[t] = rec /\ \A u \in Threads : u # t => th'[u] = th[u]
    BY <1>2, <2>2, Moved
  <2>5. Owes(th'[t])
    BY <2>1, <2>3, <2>4 DEF Owes, Returns
  <2> QED
    BY <2>1, <2>3, <2>4, <2>5, StillOwes DEF GoesOn, Stage, Returns, RestoreStarted
<1> QED
  BY <1>1, <1>2 DEF RestoreStarted

LEMMA MountNextGoesOn ==
    ASSUME Inductive, NEW t \in Threads, MountNext(t)
    PROVE  GoesOn(t)
<1>1. th[t] \in SoundThreads(Known(registry)) /\ th[t].pc = "mount"
  BY ThreadFacts DEF MountNext
<1>2. PICK rec : /\ Goto(t, rec) /\ rec.then = th[t].then /\ rec.prior = th[t].prior
                 /\ rec.held = th[t].held /\ rec.pc \in {"mount", "mounting"}
  <2>1. ASSUME NEW c PROVE LET rec == [th[t] EXCEPT !.todo = @ \ {c}] IN
             /\ rec.then = th[t].then /\ rec.prior = th[t].prior
             /\ rec.held = th[t].held /\ rec.pc = "mount"
    BY <1>1 DEF SoundThreads
  <2>2. ASSUME NEW c PROVE LET rec == [th[t] EXCEPT !.pc = "mounting", !.wait = TRUE,
                                                    !.todo = @ \ {c}, !.start = c] IN
             /\ rec.then = th[t].then /\ rec.prior = th[t].prior
             /\ rec.held = th[t].held /\ rec.pc = "mounting"
    BY <1>1 DEF SoundThreads
  <2> QED
    BY <2>1, <2>2 DEF MountNext
<1>3. th'[t] = rec /\ \A u \in Threads : u # t => th'[u] = th[u]
  BY <1>2, Moved
<1>4. FileFollows => FileFollows'
  BY <1>1, <1>2, <1>3, NothingWritten DEF Owes, MountNext
<1> QED
  BY <1>1, <1>2, <1>3, <1>4 DEF GoesOn, Stage, MountPoints, MountNext

LEMMA MountStartedGoesOn ==
    ASSUME Inductive, NEW t \in Threads, MountStarted(t)
    PROVE  GoesOn(t)
<1>1. th[t] \in SoundThreads(Known(registry)) /\ th[t].pc = "mounting"
  BY ThreadFacts DEF MountStarted
<1>2. CASE Goto(t, [th[t] EXCEPT !.pc = "mount", !.wait = FALSE, !.start = None])
  <2>1. PICK rec : rec = [th[t] EXCEPT !.pc = "mount", !.wait = FALSE, !.start = None]
    OBVIOUS
  <2>2. /\ rec.then = th[t].then /\ rec.prior = th[t].prior
        /\ rec.held = th[t].held /\ rec.pc = "mount"
    BY <1>1, <2>1 DEF SoundThreads
  <2>3. th'[t] = rec /\ \A u \in Threads : u # t => th'[u] = th[u]
    BY <1>2, <2>1, Moved
  <2>4. FileFollows => FileFollows'
    BY <1>1, <2>2, <2>3, NothingWritten DEF Owes, MountStarted
  <2> QED
    BY <1>1, <2>2, <2>3, <2>4 DEF GoesOn, Stage, MountPoints, MountStarted
<1>3. ASSUME NEW snap, NEW r, Restoring(t, th[t], "clear", snap, registry, r)
      PROVE  GoesOn(t)
  <2>1. /\ th'[t].pc = "restore" /\ th'[t].ret = "clear"
        /\ th'[t].then = th[t].then /\ th'[t].prior = th[t].prior
        /\ \A u \in Threads : u # t => th'[u] = th[u]
    BY <1>1, <1>3, RestoringMoves
  <2>2. Owes(th'[t])
    BY <2>1 DEF Owes
  <2> QED
    BY <1>1, <2>1, <2>2, StillOwes DEF GoesOn, Stage, MountPoints, MountStarted
<1> QED
  BY <1>2, <1>3 DEF MountStarted

LEMMA MountsDoneGoesOn ==
    ASSUME Inductive, NEW t \in Threads, MountsDone(t)
    PROVE  GoesOn(t)
<1>1. th[t] \in SoundThreads(Known(registry)) /\ th[t].pc = "mount"
  BY ThreadFacts DEF MountsDone
<1>2. PICK rec : rec = [th[t] EXCEPT !.pc = "mounted", !.wait = FALSE]
  OBVIOUS
<1>3. rec.then = th[t].then /\ rec.prior = th[t].prior /\ rec.held = th[t].held /\ rec.pc = "mounted"
  BY <1>1, <1>2 DEF SoundThreads
<1>4. th'[t] = rec /\ \A u \in Threads : u # t => th'[u] = th[u]
  BY <1>2, Moved DEF MountsDone
<1>5. FileFollows => FileFollows'
  <2>1. CASE th[t].held = {}
    BY <1>1, <1>3, <1>4, <2>1, NothingWritten DEF Owes, MountsDone
  <2>2. CASE th[t].held # {}
    BY <2>2, Written DEF MountsDone
  <2> QED
    BY <2>1, <2>2
<1>6. gov'.state = gov.state
  BY DEF MountsDone, Adopted, Inductive, SoundGovs
<1> QED
  BY <1>1, <1>3, <1>4, <1>5, <1>6 DEF GoesOn, Stage, MountPoints, MountsDone, Pending

LEMMA MountsClearedGoesOn ==
    ASSUME Inductive, NEW t \in Threads, MountsCleared(t)
    PROVE  GoesOn(t)
<1>1. th[t] \in SoundThreads(Known(registry)) /\ th[t].pc = "clear" /\ gov \in SoundGovs(Known(registry))
  BY ThreadFacts DEF MountsCleared, Inductive
<1>2. /\ th'[t].pc = "close" /\ th'[t].then = th[t].then /\ th'[t].prior = th[t].prior
      /\ gov'.state = "safe-mode"
      /\ \A u \in Threads : u # t => th'[u] = th[u]
  BY <1>1, FailingClosedMoves DEF MountsCleared
<1>3. Owes(th'[t])
  BY <1>2 DEF Owes
<1> QED
  BY <1>1, <1>2, <1>3, StillOwes DEF GoesOn, Stage, MountPoints, MountsCleared, Pending

LEMMA ClosedGoesOn ==
    ASSUME Inductive, NEW t \in Threads, Closed(t)
    PROVE  GoesOn(t)
<1>1. th[t] \in SoundThreads(Known(registry)) /\ th[t].pc = "close"
  BY ThreadFacts DEF Closed
<1>2. PICK rec : rec = [th[t] EXCEPT !.pc = "mounted", !.wait = FALSE, !.drop = {}]
  OBVIOUS
<1>3. rec.then = th[t].then /\ rec.prior = th[t].prior /\ rec.pc = "mounted"
  BY <1>1, <1>2 DEF SoundThreads
<1>4. th'[t] = rec /\ \A u \in Threads : u # t => th'[u] = th[u]
  BY <1>2, Moved DEF Closed
<1>5. gov'.state = gov.state
  BY DEF Closed, Inductive, SoundGovs
<1> QED
  BY <1>1, <1>3, <1>4, <1>5, Written DEF GoesOn, Stage, MountPoints, Closed, Pending

-----------------------------------------------------------------------------
(* The steps of a lifecycle call.                                          *)

(* What every step of a lifecycle call starts from.                        *)
LEMMA OpFacts ==
    ASSUME Inductive, LockHeld
    PROVE  /\ "op" \in Threads /\ th["op"] \in SoundThreads(Known(registry))
           /\ gov \in SoundGovs(Known(registry))
           /\ th["op"].pc # "idle" => up # "down"
           /\ up = "up" /\ mutation = "idle" <=> up = "up" /\ th["op"].pc = "idle"
           /\ up # "up" => mutation = "idle"
           /\ th["op"].pc \in {"idle", "safe", "shut"} => deferred = FALSE
           /\ th["op"].then = "boot" => deferred = FALSE /\ Stage(th["op"]) \in MountPoints /\ up = "booting"
           /\ Stage(th["op"]) \notin {"prepare", "health", "commit", "undo", "rollback", "recover"}
                 /\ up # "down" => ~Pending(gov)
           /\ Stage(th["op"]) \in {"rollback", "recover"} \/ th["op"].then = "rollback" =>
                 ~Pending(th["op"].prior)
<1>1. /\ "op" \in Threads /\ th["op"] \in SoundThreads(Known(registry))
      /\ gov \in SoundGovs(Known(registry)) /\ deferred \in BOOLEAN
      /\ th["op"].pc # "idle" => up # "down"
  BY OpApart, ThreadFacts DEF Inductive
<1> QED
  BY <1>1 DEF LockHeld, Holds

(* The waits of runtime.restore and of the remount go on with the call.    *)
LEMMA MountStepGoesOn ==
    ASSUME Inductive, NEW t \in Threads, MountStep(t)
    PROVE  GoesOn(t)
BY RestoreDroppedGoesOn, RestoreStartedGoesOn, MountNextGoesOn, MountStartedGoesOn, MountsDoneGoesOn,
   MountsClearedGoesOn, ClosedGoesOn DEF MountStep

(* An activation ends with the file written, or goes on to its undo.       *)
LEMMA ActivatePreparedLock ==
    ASSUME Inductive, LockHeld, ActivatePrepared
    PROVE  LockHeld'
<1>1. th["op"].pc = "prepare" /\ up # "down" /\ th["op"] \in SoundThreads(Known(registry))
  BY OpFacts DEF ActivatePrepared
<1>2. /\ UNCHANGED <<gov, mutation, deferred, up>>
      /\ th["op"].then # "boot"
      /\ th["op"].then = "rollback" => ~Pending(th["op"].prior)
  BY OpFacts DEF ActivatePrepared, Stage, MountPoints
<1>3. CASE /\ Goto("op", [th["op"] EXCEPT !.pc = "health", !.wait = TRUE, !.start = None])
  <2>1. PICK rec : rec = [th["op"] EXCEPT !.pc = "health", !.wait = TRUE, !.start = None]
    OBVIOUS
  <2>2. rec.then = th["op"].then /\ rec.prior = th["op"].prior /\ rec.pc = "health"
    BY <1>1, <2>1 DEF SoundThreads
  <2>3. th'["op"] = rec
    BY <1>3, <2>1, Moved, OpApart
  <2> QED
    BY <1>1, <1>2, <2>2, <2>3, LockKept DEF Owes, Stage
<1>4. ASSUME NEW snap, NEW r, Restoring("op", th["op"], "undo", snap, registry, r)
      PROVE  LockHeld'
  <2>1. /\ th'["op"].pc = "restore" /\ th'["op"].ret = "undo"
        /\ th'["op"].then = th["op"].then /\ th'["op"].prior = th["op"].prior
    BY <1>1, <1>4, RestoringMoves, OpApart
  <2> QED
    BY <1>1, <1>2, <2>1, LockKept DEF Owes, Stage
<1> QED
  BY <1>3, <1>4 DEF ActivatePrepared

(* A step that gives up an activation, and will write that it did.         *)
LEMMA UndoBegun ==
    ASSUME Inductive, LockHeld, th["op"].pc \in {"health", "commit"}, NEW snap, NEW reg, NEW r,
           Restoring("op", th["op"], "undo", snap, reg, r),
           UNCHANGED <<mutation, up>>
    PROVE  LockHeld'
<1>1. up # "down" /\ th["op"] \in SoundThreads(Known(registry))
  BY OpFacts
<1>2. /\ th'["op"].pc = "restore" /\ th'["op"].ret = "undo"
      /\ th'["op"].then = th["op"].then /\ th'["op"].prior = th["op"].prior
  BY <1>1, RestoringMoves, OpApart
<1>3. /\ th'["op"].then # "boot"
      /\ th["op"].then = "rollback" => ~Pending(th["op"].prior)
  BY <1>2, OpFacts DEF Stage, MountPoints
<1> QED
  BY <1>1, <1>2, <1>3, LockKept DEF Owes, Stage

LEMMA ActivateUnhealthyLock ==
    ASSUME Inductive, LockHeld, ActivateUnhealthy
    PROVE  LockHeld'
BY UndoBegun DEF ActivateUnhealthy

LEMMA ActivateHealthyLock ==
    ASSUME Inductive, LockHeld, ActivateHealthy
    PROVE  LockHeld'
<1>1. th["op"].pc = "health" /\ up # "down" /\ th["op"] \in SoundThreads(Known(registry))
  BY OpFacts DEF ActivateHealthy
<1>2. /\ UNCHANGED <<gov, mutation, up>>
      /\ th["op"].then # "boot"
      /\ th["op"].then = "rollback" => ~Pending(th["op"].prior)
  BY OpFacts DEF ActivateHealthy, Stage, MountPoints
<1>3. ASSUME NEW wait, Goto("op", [th["op"] EXCEPT !.pc = "commit", !.wait = wait])
      PROVE  LockHeld'
  <2>1. PICK rec : rec = [th["op"] EXCEPT !.pc = "commit", !.wait = wait]
    OBVIOUS
  <2>2. rec.then = th["op"].then /\ rec.prior = th["op"].prior /\ rec.pc = "commit"
    BY <1>1, <2>1 DEF SoundThreads
  <2>3. th'["op"] = rec
    BY <1>3, <2>1, Moved, OpApart
  <2> QED
    BY <1>1, <1>2, <2>2, <2>3, LockKept DEF Owes, Stage
<1>4. ASSUME NEW snap, NEW r, NEW reg, Restoring("op", th["op"], "undo", snap, reg, r)
      PROVE  LockHeld'
  BY <1>1, <1>2, <1>4, UndoBegun
<1> QED
  BY <1>3, <1>4 DEF ActivateHealthy

LEMMA ActivateCommittedLock ==
    ASSUME Inductive, LockHeld, ActivateCommitted
    PROVE  LockHeld'
<1>1. th["op"].pc = "commit" /\ gov'.state = "active" /\ up' = up
  BY OpFacts DEF ActivateCommitted, SoundGovs
<1>2. CASE Release /\ Flush
  BY <1>1, <1>2, LockGiven, Written DEF Release, Rest, Pending
<1>3. ASSUME NEW snap, NEW r, Restoring("op", th["op"], "undo", snap, registry, r), UNCHANGED mutation
      PROVE  LockHeld'
  BY <1>1, <1>3, UndoBegun
<1> QED
  BY <1>2, <1>3 DEF ActivateCommitted


LEMMA ActivateUndoneLock ==
    ASSUME Inductive, LockHeld, ActivateUndone, spent'.lost = 0
    PROVE  LockHeld'
<1>1. gov'.state = "activation-failed"
  BY OpFacts DEF ActivateUndone, SoundGovs
<1>2. Release /\ Flush /\ up' = up
  BY NotLost DEF ActivateUndone
<1> QED
  BY <1>1, <1>2, LockGiven, Written DEF Release, Rest, Pending

(* The start of finishRollback, by a person or at boot.                    *)
LEMMA StartRollbackMoves ==
    ASSUME Inductive, NEW g \in SoundGovs(Known(registry)), NEW prior \in SoundGovs(Known(registry)),
           NEW r, StartRollback(g, prior, r)
    PROVE  /\ deferred' = TRUE
           /\ th'["op"].pc = "restore" /\ th'["op"].ret = "rollback"
           /\ th'["op"].then = "none" /\ th'["op"].prior = prior
<1> DEFINE here == [Resting EXCEPT !.prior = prior, !.cand = None]
<1>1. Resting \in SoundThreads(Known(registry))
  BY RestingSound DEF Inductive, SoundRegistries
<1>2. here \in SoundThreads(Known(registry)) /\ here.prior = prior
  BY <1>1 DEF SoundThreads
<1>3. here.then = "none"
  BY DEF Resting
<1>4. /\ deferred' = TRUE
      /\ Restoring("op", here, "rollback", Fallback(g), registry, r)
  BY DEF StartRollback
<1> HIDE DEF here
<1> QED
  BY <1>2, <1>3, <1>4, RestoringMoves, OpApart

(* A rollback ends with the file written, or goes on to its recovery.      *)
LEMMA RollbackLock ==
    ASSUME Inductive, LockHeld, Rollback, spent'.lost = 0
    PROVE  LockHeld'
<1> DEFINE pending == [gov EXCEPT !.state = "rollback-pending"]
<1>1. up = "up" /\ mutation = "idle" /\ ~Pending(gov) /\ gov \in SoundGovs(Known(registry))
  BY OpFacts DEF Rollback, LifecycleIdle, Pending
<1>2. pending \in SoundGovs(Known(registry)) /\ pending.state = "rollback-pending"
  BY <1>1 DEF SoundGovs, ActivationStates
<1>3. /\ StartRollback(pending, gov, rt) /\ gov' = pending /\ Flush /\ up' = up
      /\ mutation' = "recovery"
  BY NotLost DEF Rollback
<1> HIDE DEF pending
<1>4. /\ th'["op"].pc = "restore" /\ th'["op"].ret = "rollback"
      /\ th'["op"].then = "none" /\ th'["op"].prior = gov
  BY <1>1, <1>2, <1>3, StartRollbackMoves
<1> QED
  BY <1>1, <1>3, <1>4, Written DEF LockHeld, Holds, Stage, Pending

(* A process that ends leaves the file as the next one finds it.           *)
LEMMA DieLock ==
    ASSUME Inductive, Die
    PROVE  LockHeld'
<1>1. /\ \A t \in Threads : th'[t] = Resting
      /\ up' = "down" /\ mutation' = "idle" /\ deferred' = FALSE
  BY DEF Die, Halt
<1>2. Resting.pc = "idle" /\ Resting.then = "none"
  BY DEF Resting
<1>3. FileFollows'
  <2>1. [disk EXCEPT !.store = Sections(disk.approvals, disk.gov)]
            = FileOf(disk.registry, disk.approvals, disk.gov)
    BY DEF Inductive, Disks, FileOf
  <2> QED
    BY <2>1 DEF Die, FileFollows
<1> QED
  BY <1>1, <1>2, <1>3, OpApart DEF LockHeld, Holds, Stage

(* A failed rollback on its way back to what was before it.                *)
LEMMA RecoveringLock ==
    ASSUME Inductive, LockHeld, Stage(th["op"]) = "rollback" \/ th["op"].then = "rollback",
           th["op"].pc # "idle", NEW g, NEW reg, NEW r, Recovering(th["op"], g, reg, r),
           UNCHANGED <<mutation, deferred, up>>
    PROVE  LockHeld'
<1>1. /\ up # "down" /\ th["op"] \in SoundThreads(Known(registry))
      /\ ~Pending(th["op"].prior) /\ th["op"].then # "boot"
  BY OpFacts DEF Stage, MountPoints
<1>2. /\ th'["op"].pc = "restore" /\ th'["op"].ret = "recover"
      /\ th'["op"].then = th["op"].then /\ th'["op"].prior = th["op"].prior
  <2>1. PICK snap : Restoring("op", th["op"], "recover", snap, reg, r)
    BY DEF Recovering
  <2> QED
    BY <1>1, <2>1, RestoringMoves, OpApart
<1> QED
  BY <1>1, <1>2, LockKept DEF Owes, Stage

LEMMA RollbackRestoredLock ==
    ASSUME Inductive, LockHeld, RollbackRestored
    PROVE  LockHeld'
<1> DEFINE back == [gov EXCEPT !.lkg = th["op"].snap, !.current = th["op"].snap,
                               !.state = "rolled-back", !.pending = None]
<1>1. /\ th["op"].pc = "rollback" /\ up # "down" /\ th["op"] \in SoundThreads(Known(registry))
      /\ gov \in SoundGovs(Known(registry)) /\ ~Pending(th["op"].prior)
      /\ UNCHANGED <<mutation, deferred, up>>
  BY OpFacts DEF RollbackRestored, Stage
<1>2. ASSUME NEW reg, Recovering(th["op"], gov, reg, rt)
      PROVE  LockHeld'
  BY <1>1, <1>2, RecoveringLock DEF Stage
<1>3. CASE Remounting("op", th["op"], "rollback", RestoredRegistry("op"), back, rt, disk)
  <2>1. back \in SoundGovs(Known(registry)) /\ back.state = "rolled-back"
    <3>1. th["op"].snap \in SoundSnapshots(Known(registry))
      BY ThreadFacts, OpApart
    <3> QED
      BY <1>1, <3>1 DEF SoundGovs, ActivationStates
  <2>2. RestoredRegistry("op") \in Registries
    BY RestoredRegistrySound, OpApart DEF SoundRegistries
  <2> HIDE DEF back
  <2>3. /\ th'["op"].pc \in {"mounted", "close", "mount"}
        /\ th'["op"].then = "rollback" /\ th'["op"].prior = th["op"].prior
        /\ gov'.state \in {"rolled-back", "safe-mode"}
    BY <1>1, <1>3, <2>1, <2>2, RemountingMoves, OpApart
  <2> QED
    BY <1>1, <2>3, LockKept DEF Owes, Stage, Pending
<1> QED
  BY <1>2, <1>3 DEF RollbackRestored

(* A boot on its way into its own remount, from what it wrote.             *)
LEMMA BootRemounts ==
    ASSUME Inductive, NEW g \in SoundGovs(Known(registry)), NEW r,
           Remounting("op", Resting, "boot", registry, g, r,
                      FileOf(registry, approvals, g)),
           UNCHANGED approvals, ~Pending(g), mutation' = "idle", deferred' = FALSE, up' = "booting"
    PROVE  LockHeld'
<1>1. Resting \in SoundThreads(Known(registry)) /\ registry \in Registries
  BY RestingSound DEF Inductive, SoundRegistries
<1>2. /\ th'["op"].pc \in {"mounted", "close", "mount"} /\ th'["op"].then = "boot"
      /\ gov'.state \in {g.state, "safe-mode"}
      /\ ~Owes(th'["op"]) => registry' = registry /\ gov' = g
  BY <1>1, RemountingMoves, OpApart
<1>3. SaveRegistry(FileOf(registry, approvals, g))
  BY DEF Remounting
<1>4. FileFollows'
  <2>1. CASE Owes(th'["op"])
    BY <2>1, StillOwes, OpApart
  <2>2. CASE ~Owes(th'["op"])
    BY <1>2, <1>3, <2>2 DEF SaveRegistry, Saved, FileFollows
  <2> QED
    BY <2>1, <2>2
<1>5. ~Pending(gov')
  BY <1>2 DEF Pending
<1> QED
  BY <1>2, <1>4, <1>5 DEF LockHeld, Holds, Stage, MountPoints, Pending

(* The end of a remount, of a rollback's recovery and of a failed close.   *)
LEMMA RollbackMountedLock ==
    ASSUME Inductive, LockHeld, RollbackMounted
    PROVE  LockHeld'
<1> DEFINE ok == Restored(registry, th["op"].snap)
           done == [gov EXCEPT !.current = Capture(registry, rt), !.integrity = ok]
<1>1. /\ th["op"].pc = "mounted" /\ th["op"].then = "rollback" /\ up # "down"
      /\ gov \in SoundGovs(Known(registry)) /\ ~Pending(gov)
      /\ UNCHANGED <<approvals, up>> \/ up = "booting"
  BY OpFacts DEF RollbackMounted, Stage
<1>2. done \in SoundGovs(Known(registry)) /\ done.state = gov.state
  <2>1. Capture(registry, rt) \in SoundSnapshots(Known(registry)) /\ ok \in BOOLEAN
    BY CaptureSound DEF Inductive, Restored
  <2> QED
    BY <1>1, <2>1 DEF SoundGovs
<1>3. ~Pending(done)
  BY <1>1, <1>2 DEF Pending
<1>4. CASE /\ up = "booting" /\ deferred' = FALSE /\ UNCHANGED mutation
           /\ Remounting("op", Resting, "boot", registry, done, rt,
                         FileOf(registry, approvals, done))
  <2>1. mutation = "idle" /\ up' = "booting" /\ approvals' = approvals
    BY <1>4, OpFacts DEF RollbackMounted
  <2> HIDE DEF done
  <2> QED
    BY <1>2, <1>3, <1>4, <2>1, BootRemounts
<1>5. CASE gov' = done /\ Release /\ Flush
  <2>1. up' = up
    BY DEF RollbackMounted
  <2> HIDE DEF done
  <2>2. ~Pending(gov')
    BY <1>3, <1>5
  <2> QED
    BY <1>5, <2>1, <2>2, LockGiven, Written DEF Release, Rest
<1>6. CASE UNCHANGED <<mutation, deferred>> /\ Recovering(th["op"], done, registry, rt)
  <2>1. up' = up
    BY DEF RollbackMounted
  <2> HIDE DEF done
  <2> QED
    BY <1>1, <1>6, <2>1, RecoveringLock
<1> QED
  BY <1>4, <1>5, <1>6 DEF RollbackMounted

LEMMA RollbackRecoveredLock ==
    ASSUME Inductive, LockHeld, RollbackRecovered, spent'.lost = 0
    PROVE  LockHeld'
<1> DEFINE recovered == IF th["op"].ok THEN [th["op"].prior EXCEPT !.pending = gov.pending] ELSE gov
<1>1. /\ th["op"].pc = "recover" /\ up # "down" /\ th["op"] \in SoundThreads(Known(registry))
      /\ gov \in SoundGovs(Known(registry)) /\ ~Pending(th["op"].prior)
      /\ th["op"].then # "boot"
  BY OpFacts DEF RollbackRecovered, Stage, MountPoints
<1>2. CASE /\ th["op"].ok /\ gov' = recovered
           /\ mutation' = "idle" /\ deferred' = FALSE /\ Flush
           /\ \/ up = "booting" /\ Halt
              \/ up = "up" /\ Rest("op") /\ UNCHANGED <<up, rt>>
  <2>1. ~Pending(gov')
    <3>1. th["op"].prior \in SoundGovs(Known(registry))
      BY ThreadFacts, OpApart
    <3> QED
      BY <1>1, <1>2, <3>1 DEF Pending, SoundGovs
  <2>2. CASE up = "booting" /\ Halt
    <3>1. th'["op"] = Resting /\ up' = "down"
      BY <2>2, OpApart DEF Halt
    <3>2. Resting.pc = "idle" /\ Resting.then = "none"
      BY DEF Resting
    <3> QED
      BY <1>1, <1>2, <2>1, <3>1, <3>2, Written DEF LockHeld, Holds, Stage, Pending
  <2>3. CASE Rest("op") /\ UNCHANGED up
    BY <1>1, <1>2, <2>1, <2>3, LockGiven, Written DEF Rest
  <2> QED
    BY <1>2, <2>2, <2>3
<1>3. ASSUME NEW reg, ~th["op"].ok, deferred' = FALSE, UNCHANGED <<mutation, up>>,
             FailingClosed("op", th["op"], "shut", reg, recovered, rt)
      PROVE  LockHeld'
  <2>1. recovered = gov
    BY <1>3
  <2>2. /\ th'["op"].pc = "shut" /\ th'["op"].then = th["op"].then
        /\ th'["op"].prior = th["op"].prior /\ gov'.state = "safe-mode"
    BY <1>1, <1>3, <2>1, FailingClosedMoves, OpApart
  <2> QED
    BY <1>1, <1>3, <2>2, LockKept DEF Owes, Stage, Pending
<1> QED
  BY <1>2, <1>3, DieLock, NotLost DEF RollbackRecovered

LEMMA RollbackClosedLock ==
    ASSUME Inductive, LockHeld, RollbackClosed
    PROVE  LockHeld'
<1> DEFINE closed == [gov EXCEPT !.failure = Failure(Blamed(gov), FALSE, TRUE)]
<1>1. /\ th["op"].pc = "shut" /\ up # "down" /\ gov \in SoundGovs(Known(registry))
      /\ ~Pending(gov) /\ deferred' = FALSE /\ approvals' = approvals
  BY OpFacts DEF RollbackClosed, Stage
<1>2. closed \in SoundGovs(Known(registry)) /\ closed.state = gov.state
  BY <1>1, FailureTyped DEF SoundGovs
<1>3. ~Pending(closed)
  BY <1>1, <1>2 DEF Pending
<1> HIDE DEF closed
<1>4. ASSUME NEW r, up = "booting", UNCHANGED <<mutation, up>>,
             Remounting("op", Resting, "boot", registry, closed, r,
                        FileOf(registry, approvals, closed))
      PROVE  LockHeld'
  <2>1. mutation' = "idle" /\ up' = "booting"
    BY <1>4, OpFacts
  <2> QED
    BY <1>1, <1>2, <1>3, <1>4, <2>1, BootRemounts
<1>5. CASE /\ gov' = closed /\ mutation' = "idle" /\ Rest("op")
           /\ UNCHANGED <<registry, up>>
           /\ disk' = FileOf(registry, approvals, closed)
  <2>1. FileFollows'
    BY <1>1, <1>5 DEF FileFollows
  <2>2. ~Pending(gov')
    BY <1>3, <1>5
  <2> QED
    BY <1>1, <1>5, <2>1, <2>2, LockGiven DEF Rest
<1> QED
  BY <1>4, <1>5 DEF RollbackClosed, closed

(* A boot finds the file whole, and writes what it changes.                *)
LEMMA BootLock ==
    ASSUME Inductive, LockHeld, Boot
    PROVE  LockHeld'
<1>1. /\ up = "down" /\ up' = "booting" /\ gov \in SoundGovs(Known(registry))
      /\ UNCHANGED <<approvals, mutation>> /\ mutation = "idle"
      /\ \A t \in Threads : th[t].pc = "idle"
  BY OpFacts DEF Boot, Inductive
<1>2. disk = FileOf(registry, approvals, gov)
  BY <1>1 DEF LockHeld, FileFollows, Owes
<1>3. CASE /\ UNCHANGED <<registry, gov, disk>> /\ StartRollback(gov, [gov EXCEPT !.state = "active"], rt)
  <2>1. PICK prior : prior = [gov EXCEPT !.state = "active"]
    OBVIOUS
  <2>2. prior \in SoundGovs(Known(registry)) /\ ~Pending(prior)
    BY <1>1, <2>1 DEF SoundGovs, ActivationStates, Pending
  <2>3. /\ th'["op"].pc = "restore" /\ th'["op"].ret = "rollback"
        /\ th'["op"].then = "none" /\ th'["op"].prior = prior
    BY <1>1, <1>3, <2>1, <2>2, StartRollbackMoves
  <2>4. FileFollows'
    BY <1>1, <1>2, <1>3 DEF FileFollows
  <2> QED
    BY <1>1, <2>2, <2>3, <2>4 DEF LockHeld, Holds, Stage, Pending
<1>4. CASE gov.state = "rollback-pending"
  <2>1. ~(gov.state \in {"activation-pending", "activating"})
    BY <1>4
  <2> QED
    BY <1>3, <1>4, <2>1 DEF Boot
<1>5. CASE gov.state # "rollback-pending"
  <2>1. PICK g : g = IF gov.state \in {"activation-pending", "activating"}
                     THEN [gov EXCEPT !.state = "activation-failed", !.pending = None,
                                      !.failure = Failure(gov.pending, TRUE, FALSE)]
                     ELSE gov
    OBVIOUS
  <2>2. g \in SoundGovs(Known(registry)) /\ ~Pending(g) /\ g.state # "rollback-pending"
    BY <1>1, <1>5, <2>1 DEF SoundGovs, ActivationStates, Pending, Failure, Failures
  <2>3. [disk EXCEPT !.gov = g, !.store.gov = g] = FileOf(registry, approvals, g)
    <3>1. disk.store = Sections(approvals, gov)
      BY <1>2 DEF FileOf
    <3>2. PICK store : store = Sections(approvals, g)
      OBVIOUS
    <3>3. [disk.store EXCEPT !.gov = g] = store
      BY <3>1, <3>2 DEF Sections
    <3>4. PICK d : d = [disk EXCEPT !.gov = g]
      OBVIOUS
    <3>5. /\ d = [registry |-> registry, approvals |-> approvals, gov |-> g, store |-> d.store]
          /\ d.store = disk.store
      BY <1>2, <3>4 DEF FileOf
    <3>6. [d EXCEPT !.store = store] = FileOf(registry, approvals, g)
      BY <3>2, <3>5 DEF FileOf
    <3> QED
      BY <3>3, <3>4, <3>5, <3>6
  <2>4. UNCHANGED deferred /\ Remounting("op", Resting, "boot", registry, g, rt, [disk EXCEPT !.gov = g, !.store.gov = g])
    BY <2>1, <2>2 DEF Boot
  <2>5. deferred' = FALSE
    BY <1>1, <2>4, OpFacts
  <2> QED
    BY <1>1, <2>2, <2>3, <2>4, <2>5, BootRemounts
<1> QED
  BY <1>4, <1>5

LEMMA BootedLock ==
    ASSUME Inductive, LockHeld, Booted
    PROVE  LockHeld'
<1>1. /\ th["op"].pc = "mounted" /\ th["op"].then = "boot" /\ up # "down"
      /\ deferred = FALSE /\ ~Pending(gov)
  BY OpFacts DEF Booted, Stage
<1>2. /\ th'["op"] = Resting /\ \A t \in Threads : t # "op" => th'[t] = th[t]
  BY Moved, OpApart DEF Booted, Rest
<1>3. Resting.pc = "idle" /\ Resting.then = "none"
  BY DEF Resting
<1>4. FileFollows'
  BY <1>1, <1>2 DEF Booted, LockHeld, FileFollows, Owes
<1>5. mutation = "idle"
  BY <1>1, OpFacts DEF Booted
<1> QED
  BY <1>1, <1>2, <1>3, <1>4, <1>5 DEF Booted, LockHeld, Holds, Stage, Pending

(* The ends of the calls that wait once.                                   *)
LEMMA SafeModeEnteredLock ==
    ASSUME Inductive, LockHeld, SafeModeEntered
    PROVE  LockHeld'
<1>1. ~Pending(gov) /\ deferred' = FALSE
  BY OpFacts DEF SafeModeEntered, Stage
<1> QED
  BY <1>1, LockGiven, Written DEF SafeModeEntered, Rest, Pending

LEMMA RemovedLock ==
    ASSUME Inductive, LockHeld, Removed
    PROVE  LockHeld'
<1>1. /\ th["op"].pc \in {"disable", "uninstall"} /\ up # "down" /\ up' = up
      /\ th["op"] \in SoundThreads(Known(registry)) /\ gov \in SoundGovs(Known(registry))
      /\ ~Pending(gov) /\ th["op"].then # "boot"
      /\ th["op"].then = "rollback" => ~Pending(th["op"].prior)
  BY OpFacts DEF Removed, Stage, MountPoints
<1>2. ~Pending(gov')
  BY <1>1 DEF Removed, SoundGovs, Pending
<1>3. CASE Release /\ Flush
  BY <1>1, <1>2, <1>3, LockGiven, Written DEF Release, Rest
<1>4. ASSUME NEW snap, NEW reg, NEW r, Restoring("op", th["op"], "revert", snap, reg, r),
             UNCHANGED mutation
      PROVE  LockHeld'
  <2>1. /\ th'["op"].pc = "restore" /\ th'["op"].ret = "revert"
        /\ th'["op"].then = th["op"].then /\ th'["op"].prior = th["op"].prior
    BY <1>1, <1>4, RestoringMoves, OpApart
  <2> QED
    BY <1>1, <1>2, <1>4, <2>1, LockKept DEF Owes, Stage
<1> QED
  BY <1>3, <1>4 DEF Removed

LEMMA RemoveRevertedLock ==
    ASSUME Inductive, LockHeld, RemoveReverted, spent'.lost = 0
    PROVE  LockHeld'
<1>1. ~Pending(gov) /\ gov \in SoundGovs(Known(registry))
  BY OpFacts DEF RemoveReverted, Stage
<1>2. ~Pending(gov')
  BY <1>1 DEF RemoveReverted, SoundGovs, Pending
<1>3. Release /\ Flush /\ up' = up
  BY NotLost DEF RemoveReverted
<1> QED
  BY <1>2, <1>3, LockGiven, Written DEF Release, Rest

-----------------------------------------------------------------------------
(* The start of a call, which finds the lock free.                         *)

LEMMA Begun ==
    ASSUME Inductive, LockInv, LifecycleIdle
    PROVE  /\ up = "up" /\ mutation = "idle" /\ th["op"].pc = "idle"
           /\ gov \in SoundGovs(Known(registry)) /\ ~Pending(gov)
           /\ Resting \in SoundThreads(Known(registry))
<1>1. Resting \in SoundThreads(Known(registry))
  BY RestingSound DEF Inductive, SoundRegistries
<1> QED
  BY <1>1 DEF LifecycleIdle, Pending, LockInv, CallInv, Calling, Inductive

LEMMA ApprovalsLock ==
    ASSUME Inductive, LockHeld, Flush, th' = th, UNCHANGED <<mutation, deferred, up>>,
           Pending(gov') => Pending(gov)
    PROVE  LockHeld'
BY Beside, Written

LEMMA ActivateStartLock ==
    ASSUME Inductive, LockHeld, NEW c \in Candidates, ActivateStart(c), spent'.lost = 0
    PROVE  LockHeld'
<1>1. /\ up = "up" /\ Resting \in SoundThreads(Known(registry))
      /\ UNCHANGED <<deferred, up>> /\ mutation' = "activation"
  BY Begun, HeldLocks DEF ActivateStart
<1>2. PICK rec : /\ Goto("op", rec)
                 /\ rec = [Resting EXCEPT !.pc = "prepare", !.cand = c, !.snap = gov.lkg, !.prior = gov,
                                          !.wait = c \notin rt.generated,
                                          !.start = IF c \in rt.generated THEN None ELSE c]
  BY NotLost DEF ActivateStart
<1>3. rec.pc = "prepare" /\ rec.then = "none"
  BY <1>2 DEF Resting
<1>4. th'["op"] = rec
  BY <1>2, Moved, OpApart
<1>5. FileFollows'
  BY <1>3, <1>4, StillOwes, OpApart DEF Owes
<1> QED
  BY <1>1, <1>3, <1>4, <1>5 DEF LockHeld, Holds, Stage

LEMMA EnterSafeModeLock ==
    ASSUME Inductive, LockHeld, EnterSafeMode
    PROVE  LockHeld'
<1>1. /\ up = "up" /\ UNCHANGED <<deferred, up>> /\ deferred = FALSE /\ mutation' = "recovery"
      /\ gov'.state = "safe-mode"
  BY Begun, HeldLocks, OpFacts DEF EnterSafeMode, SoundGovs
<1>2. PICK rec : /\ Goto("op", rec)
                 /\ rec = [Resting EXCEPT !.pc = "safe", !.wait = UnloadWaits(rt, Candidates),
                                          !.drop = rt.generated]
  BY DEF EnterSafeMode
<1>3. rec.pc = "safe" /\ rec.then = "none"
  BY <1>2 DEF Resting
<1>4. th'["op"] = rec
  BY <1>2, Moved, OpApart
<1>5. FileFollows'
  BY <1>3, <1>4, StillOwes, OpApart DEF Owes
<1> QED
  BY <1>1, <1>3, <1>4, <1>5 DEF LockHeld, Holds, Stage, Pending

LEMMA RemoveStartLock ==
    ASSUME Inductive, LockHeld, NEW x \in Rows, NEW kind \in {"disable", "uninstall"},
           RemoveStart(x, kind)
    PROVE  LockHeld'
<1>1. /\ up = "up" /\ UNCHANGED <<deferred, up, gov>> /\ mutation' = kind /\ ~Pending(gov)
  BY Begun, HeldLocks DEF RemoveStart
<1>2. PICK rec : /\ Goto("op", rec)
                 /\ rec = [Resting EXCEPT !.pc = kind, !.wait = UnloadWaits(rt, {x} \cap Candidates),
                                          !.todo = {x},
                                          !.drop = ({x} \cap Candidates) \cap rt.generated,
                                          !.prior = gov]
  BY DEF RemoveStart
<1>3. rec.pc = kind /\ rec.then = "none"
  BY <1>2 DEF Resting
<1>4. th'["op"] = rec
  BY <1>2, Moved, OpApart
<1>5. FileFollows'
  BY <1>3, <1>4, StillOwes, OpApart DEF Owes
<1> QED
  BY <1>1, <1>3, <1>4, <1>5 DEF LockHeld, Holds, Stage

LEMMA RequestLock ==
    ASSUME Inductive, LockHeld, Request, spent'.lost = 0
    PROVE  LockHeld'
<1>1. ASSUME NEW c \in Candidates, NEW decision, RequestApproval(c) \/ RecordApproval(c, decision)
      PROVE  LockHeld'
  BY <1>1, ApprovalsLock DEF RequestApproval, RecordApproval
<1>2. ASSUME NEW c \in Candidates, AbandonFailedActivation(c)
      PROVE  LockHeld'
  <2>1. gov'.state = "rolled-back"
    BY <1>2, Begun, HeldLocks DEF AbandonFailedActivation, SoundGovs
  <2> QED
    BY <1>2, <2>1, ApprovalsLock DEF AbandonFailedActivation, Pending
<1>3. CASE ExitSafeMode
  <2>1. gov'.state = "active"
    BY <1>3, Begun, HeldLocks DEF ExitSafeMode, SoundGovs
  <2> QED
    BY <1>3, <2>1, ApprovalsLock DEF ExitSafeMode, Pending
<1> QED
  BY <1>1, <1>2, <1>3, ActivateStartLock, RollbackLock, EnterSafeModeLock, RemoveStartLock DEF
     Request

-----------------------------------------------------------------------------
(* The failure callback of a child, and the process.                       *)

LEMMA RunnerDiesLock ==
    ASSUME Inductive, LockHeld, NEW c \in Candidates, RunnerDies(c)
    PROVE  LockHeld'
<1>1. [Resting EXCEPT !.cand = c] \in SoundThreads(Known(registry))
  <2>1. Resting \in SoundThreads(Known(registry))
    BY RestingSound DEF Inductive, SoundRegistries
  <2> QED
    BY <2>1 DEF SoundThreads
<1>2. PICK here : here = [Resting EXCEPT !.cand = c]
  OBVIOUS
<1>3. here \in SoundThreads(Known(registry)) /\ here.then = "none"
  <2>1. [Resting EXCEPT !.cand = c].then = "none"
    BY DEF Resting
  <2> QED
    BY <1>1, <1>2, <2>1
<1>4. PICK target, reg, r : Restoring(c, here, "failed", target, reg, r)
  BY <1>2 DEF RunnerDies
<1>5. th'[c].pc = "restore" /\ th'[c].then = "none" /\ th'["op"] = th["op"]
  BY <1>3, <1>4, RestoringMoves, OpApart
<1>6. gov'.state = "activation-failed"
  BY DEF RunnerDies, Inductive, SoundGovs
<1>7. FileFollows'
  BY <1>5, StillOwes, OpApart DEF Owes
<1> QED
  BY <1>5, <1>6, <1>7, Beside DEF RunnerDies, Pending

LEMMA FailureRestoredLock ==
    ASSUME Inductive, LockHeld, NEW c \in Candidates, FailureRestored(c)
    PROVE  LockHeld'
<1> DEFINE now == [gov EXCEPT !.current = Capture(RestoredRegistry(c), rt)]
<1>1. /\ th[c] \in SoundThreads(Known(registry)) /\ gov \in SoundGovs(Known(registry))
      /\ c \in Threads /\ c # "op" /\ UNCHANGED <<mutation, deferred, up>>
  BY ThreadFacts, OpApart DEF Inductive, FailureRestored
<1>2. now \in SoundGovs(Known(registry)) /\ now.state = gov.state
  <2>1. Capture(RestoredRegistry(c), rt) \in SoundSnapshots(Known(registry))
    BY <1>1, RestoredRegistrySound, CaptureSound DEF Inductive
  <2> QED
    BY <1>1, <2>1 DEF SoundGovs
<1> HIDE DEF now
<1>3. CASE Remounting(c, th[c], "failure", RestoredRegistry(c), now, rt, disk)
  <2>1. PICK reg \in Registries : Remounting(c, th[c], "failure", reg, now, rt, disk)
    BY <1>1, <1>3, RestoredRegistrySound DEF SoundRegistries
  <2>2. PICK K : th[c] \in SoundThreads(K) /\ now \in SoundGovs(K)
    BY <1>1, <1>2
  <2>3. /\ th'[c].pc \in {"mounted", "close", "mount"} /\ th'[c].then = "failure"
        /\ gov'.state \in {now.state, "safe-mode"}
        /\ \A u \in Threads : u # c => th'[u] = th[u]
    BY <1>1, <2>1, <2>2, RemountingMoves
  <2>4. th'["op"] = th["op"]
    BY <1>1, <2>3, OpApart
  <2>5. FileFollows'
    BY <1>1, <2>3, <2>4, StillOwes DEF Owes
  <2> QED
    BY <1>1, <1>2, <2>3, <2>4, <2>5, Beside DEF Pending
<1>4. CASE /\ Rest(c) /\ gov' = FailureRecorded(c, now, FALSE, th[c].snap, RestoredRegistry(c))
           /\ Flush
  <2>1. gov'.state = "activation-failed"
    BY <1>2, <1>4 DEF FailureRecorded, SoundGovs
  <2>2. th'["op"] = th["op"]
    BY <1>1, <1>4, Moved, OpApart DEF Rest
  <2> QED
    BY <1>1, <1>4, <2>1, <2>2, Beside, Written DEF Pending
<1> QED
  BY <1>3, <1>4 DEF FailureRestored, now

LEMMA FailureHandledLock ==
    ASSUME Inductive, LockHeld, NEW c \in Candidates, FailureHandled(c)
    PROVE  LockHeld'
<1>1. gov'.state \in {"rolled-back", "activation-failed"}
  BY DEF FailureHandled, FailureRecorded, Inductive, SoundGovs
<1>2. th'["op"] = th["op"]
  BY Moved, OpApart DEF FailureHandled, Rest
<1> QED
  BY <1>1, <1>2, Beside, Written DEF FailureHandled, Pending

LEMMA EnvironmentLock ==
    ASSUME Inductive, LockHeld, Environment
    PROVE  LockHeld'
<1>1. CASE Crash
  BY <1>1, DieLock DEF Crash
<1>2. ASSUME NEW c \in Candidates, Tamper(c) PROVE LockHeld'
  <2>1. FileFollows'
    BY <1>2 DEF Tamper, LockHeld, FileFollows, Owes
  <2> QED
    BY <1>2, <2>1, Beside DEF Tamper
<1> QED
  BY <1>1, <1>2, RunnerDiesLock DEF Environment

-----------------------------------------------------------------------------

(* What is left of the lock, whatever is written.                          *)

(* A call on its way into the remount, for any snapshot.                   *)
LEMMA RemountingThen ==
    ASSUME Inductive, NEW t \in Threads, NEW K, NEW here \in SoundThreads(K), NEW then,
           NEW reg, NEW g, NEW r, NEW d, Remounting(t, here, then, reg, g, r, d)
    PROVE  th'[t].then = then /\ \A u \in Threads : u # t => th'[u] = th[u]
<1> DEFINE held  == ((Committed(g).owners \cap Candidates) \cap Legacy) \cap intact
           go    == [here EXCEPT !.then = then, !.todo = {}, !.held = {}]
           skip  == [go EXCEPT !.pc = "mounted", !.wait = FALSE]
           close == [go EXCEPT !.pc = "close", !.wait = UnloadWaits(r, Candidates), !.drop = r.generated]
           mount == [go EXCEPT !.pc = "mount", !.wait = FALSE, !.todo = Remountable(g), !.held = held]
<1>1. skip.then = then /\ close.then = then /\ mount.then = then
  BY DEF SoundThreads
<1>2. Goto(t, skip) \/ Goto(t, close) \/ Goto(t, mount)
  BY DEF Remounting, FailingClosed
<1> HIDE DEF skip, close, mount
<1> QED
  BY <1>1, <1>2, Moved

(* The call goes on, or is over.                                           *)
LEMMA CallOn ==
    ASSUME Inductive, CallInv, th["op"].pc # "idle", UNCHANGED <<mutation, up>>,
           th'["op"].then = "boot" => up = "booting"
    PROVE  CallInv'
BY DEF CallInv, Calling

LEMMA CallOver ==
    ASSUME Inductive, CallInv, Rest("op"), up' = up, mutation' \in {mutation, "idle"}
    PROVE  CallInv'
<1>1. th'["op"] = Resting /\ Resting.pc = "idle" /\ Resting.then = "none"
  BY Moved, OpApart DEF Rest, Resting
<1> QED
  BY <1>1 DEF CallInv, Calling

(* Another thread's step.                                                  *)
LEMMA CallBeside ==
    ASSUME CallInv, th'["op"] = th["op"], UNCHANGED <<mutation, up>>
    PROVE  CallInv'
BY DEF CallInv, Calling

LEMMA HaltCall ==
    ASSUME Inductive, Halt, mutation' = "idle"
    PROVE  CallInv'
<1>1. th'["op"] = Resting /\ Resting.pc = "idle" /\ Resting.then = "none"
  BY OpApart DEF Halt, Resting
<1> QED
  BY <1>1 DEF Halt, CallInv, Calling

LEMMA ActivationCall ==
    ASSUME Inductive, CallInv,
           \/ ActivatePrepared \/ ActivateHealthy \/ ActivateUnhealthy
           \/ ActivateCommitted \/ ActivateUndone
    PROVE  CallInv'
<1>1. th["op"] \in SoundThreads(Known(registry)) /\ "op" \in Threads
  BY ThreadFacts, OpApart
<1>2. /\ up' = up
      /\ th["op"].pc \in {"prepare", "health", "commit", "undo"}
  BY DEF ActivatePrepared, ActivateHealthy, ActivateUnhealthy, ActivateCommitted, ActivateUndone
<1>3. ASSUME NEW snap, NEW reg, NEW r, Restoring("op", th["op"], "undo", snap, reg, r), mutation' = mutation
      PROVE  CallInv'
  <2>1. th'["op"].then = th["op"].then
    BY <1>1, <1>3, RestoringMoves
  <2> QED
    BY <1>2, <1>3, <2>1, CallOn DEF CallInv, Calling
<1>4. ASSUME NEW rec, Goto("op", rec), rec.then = th["op"].then, mutation' = mutation
      PROVE  CallInv'
  <2>1. th'["op"] = rec
    BY <1>1, <1>4, Moved
  <2> QED
    BY <1>2, <1>4, <2>1, CallOn DEF CallInv, Calling
<1>5. CASE ActivatePrepared
  <2>1. [th["op"] EXCEPT !.pc = "health", !.wait = TRUE, !.start = None].then = th["op"].then
    BY <1>1 DEF SoundThreads
  <2> QED
    BY <1>3, <1>4, <1>5, <2>1 DEF ActivatePrepared
<1>6. CASE ActivateHealthy
  <2>1. \A wait : [th["op"] EXCEPT !.pc = "commit", !.wait = wait].then = th["op"].then
    BY <1>1 DEF SoundThreads
  <2> QED
    BY <1>3, <1>4, <1>6, <2>1 DEF ActivateHealthy
<1>7. CASE ActivateUnhealthy
  BY <1>3, <1>7 DEF ActivateUnhealthy
<1>8. CASE ActivateCommitted
  BY <1>2, <1>3, <1>8, CallOver DEF ActivateCommitted, Release
<1>9. CASE ActivateUndone
  BY <1>2, <1>9, CallOver DEF ActivateUndone, Release, FlushLost
<1> QED
  BY <1>5, <1>6, <1>7, <1>8, <1>9

LEMMA RollbackCall ==
    ASSUME Inductive, CallInv,
           RollbackRestored \/ RollbackMounted \/ RollbackRecovered \/ RollbackClosed
    PROVE  CallInv'
<1>1. /\ th["op"] \in SoundThreads(Known(registry)) /\ "op" \in Threads
      /\ Resting \in SoundThreads(Known(registry))
  BY ThreadFacts, OpApart, RestingSound DEF Inductive, SoundRegistries
<1>2. th["op"].pc \in {"rollback", "mounted", "recover", "shut"}
  BY DEF RollbackRestored, RollbackMounted, RollbackRecovered, RollbackClosed
<1>3. ASSUME NEW g, NEW reg, NEW r, Recovering(th["op"], g, reg, r), UNCHANGED <<mutation, up>>
      PROVE  CallInv'
  <2>1. PICK snap : Restoring("op", th["op"], "recover", snap, reg, r)
    BY <1>3 DEF Recovering
  <2>2. th'["op"].then = th["op"].then
    BY <1>1, <2>1, RestoringMoves
  <2> QED
    BY <1>2, <1>3, <2>2, CallOn DEF CallInv, Calling
<1>4. ASSUME NEW g, NEW reg, NEW r, NEW d, Remounting("op", Resting, "boot", reg, g, r, d),
             up = "booting", UNCHANGED <<mutation, up>>
      PROVE  CallInv'
  BY <1>2, <1>4, CallOn
<1>5. CASE RollbackRestored
  <2>1. ASSUME NEW g, NEW reg, NEW d, Remounting("op", th["op"], "rollback", reg, g, rt, d),
               UNCHANGED <<mutation, up>>
        PROVE  CallInv'
    <3>1. th'["op"].then = "rollback"
      BY <1>1, <2>1, RemountingThen
    <3> QED
      BY <1>2, <2>1, <3>1, CallOn
  <2> QED
    BY <1>3, <1>5, <2>1 DEF RollbackRestored
<1>6. CASE RollbackMounted
  BY <1>3, <1>4, <1>6, CallOver DEF RollbackMounted, Release
<1>7. CASE RollbackRecovered
  <2>1. ASSUME NEW reg, NEW g, FailingClosed("op", th["op"], "shut", reg, g, rt),
               UNCHANGED <<mutation, up>>
        PROVE  CallInv'
    <3>1. PICK rec : /\ Goto("op", rec)
                     /\ rec = [th["op"] EXCEPT !.pc = "shut", !.wait = UnloadWaits(rt, Candidates),
                                               !.drop = rt.generated]
      BY <2>1 DEF FailingClosed
    <3>2. rec.then = th["op"].then
      BY <1>1, <3>1 DEF SoundThreads
    <3>3. th'["op"] = rec
      BY <1>1, <3>1, Moved
    <3> QED
      BY <1>2, <2>1, <3>2, <3>3, CallOn DEF CallInv, Calling
  <2> QED
    BY <1>7, <2>1, HaltCall, CallOver DEF RollbackRecovered, FlushLost, Die
<1>8. CASE RollbackClosed
  BY <1>4, <1>8, CallOver DEF RollbackClosed
<1> QED
  BY <1>5, <1>6, <1>7, <1>8

LEMMA RemovalCall ==
    ASSUME Inductive, CallInv, SafeModeEntered \/ Removed \/ RemoveReverted \/ Booted
    PROVE  CallInv'
<1>1. th["op"] \in SoundThreads(Known(registry)) /\ "op" \in Threads
  BY ThreadFacts, OpApart
<1>2. CASE SafeModeEntered \/ RemoveReverted
  BY <1>2, CallOver DEF SafeModeEntered, RemoveReverted, Release, FlushLost
<1>3. CASE Removed
  <2>1. ASSUME NEW snap, NEW reg, NEW r, Restoring("op", th["op"], "revert", snap, reg, r),
               UNCHANGED <<mutation, up>>
        PROVE  CallInv'
    <3>1. th'["op"].then = th["op"].then
      BY <1>1, <2>1, RestoringMoves
    <3>2. th["op"].pc # "idle"
      BY <1>3 DEF Removed
    <3> QED
      BY <2>1, <3>1, <3>2, CallOn DEF CallInv, Calling
  <2> QED
    BY <1>3, <2>1, CallOver DEF Removed, Release
<1>4. CASE Booted
  <2>1. th'["op"] = Resting /\ Resting.pc = "idle" /\ Resting.then = "none"
    BY <1>1, <1>4, Moved DEF Booted, Rest, Resting
  <2> QED
    BY <1>4, <2>1 DEF Booted, CallInv, Calling
<1> QED
  BY <1>2, <1>3, <1>4

LEMMA RequestCall ==
    ASSUME Inductive, LockInv, Request
    PROVE  CallInv'
<1>1. CallInv
  BY DEF LockInv
<1>2. ASSUME UNCHANGED <<th, mutation, up>> PROVE CallInv'
  BY <1>1, <1>2, CallBeside
<1>3. ASSUME NEW rec, up = "up", up' = up, mutation' # "idle", Goto("op", rec), rec.then = "none"
      PROVE  CallInv'
  <2>1. th'["op"] = rec
    BY <1>3, Moved, OpApart
  <2> QED
    BY <1>3, <2>1 DEF CallInv, Calling
<1>4. /\ Resting.then = "none" /\ Resting \in SoundThreads(Known(registry))
      /\ LifecycleIdle => up = "up"
  BY RestingSound DEF Resting, Inductive, SoundRegistries, LifecycleIdle
<1>5. ASSUME NEW c \in Candidates, ActivateStart(c)
      PROVE  CallInv'
  <2>1. up = "up" /\ up' = up /\ mutation' # "idle"
    BY <1>4, <1>5 DEF ActivateStart
  <2>2. CASE FlushLost
    BY <1>3, <1>4, <2>1, <2>2 DEF FlushLost, Rest
  <2>3. CASE ~FlushLost
    <3>1. PICK rec : /\ Goto("op", rec)
                     /\ rec = [Resting EXCEPT !.pc = "prepare", !.cand = c, !.snap = gov.lkg,
                                              !.prior = gov, !.wait = c \notin rt.generated,
                                              !.start = IF c \in rt.generated THEN None ELSE c]
      BY <1>5, <2>3 DEF ActivateStart
    <3>2. rec.then = "none"
      BY <3>1 DEF Resting
    <3> QED
      BY <1>3, <2>1, <3>1, <3>2
  <2> QED
    BY <2>2, <2>3
<1>6. CASE Rollback
  <2>1. up = "up" /\ up' = up
    BY <1>4, <1>6 DEF Rollback
  <2>2. ASSUME mutation' = "recovery", NEW g, NEW prior, NEW r, StartRollback(g, prior, r)
        PROVE  CallInv'
    <3>1. PICK here : /\ here = [Resting EXCEPT !.prior = prior, !.cand = None]
                      /\ Restoring("op", here, "rollback", Fallback(g), registry, r)
      BY <2>2 DEF StartRollback
    <3>2. PICK rec : /\ Goto("op", rec)
                     /\ rec = [here EXCEPT !.pc = "restore", !.wait = RestoreWaits(r, Fallback(g)),
                                           !.ret = "rollback", !.snap = Fallback(g),
                                           !.owners = Active(registry), !.todo = Fallback(g).mounted,
                                           !.drop = Unwanted(r, Fallback(g))]
      BY <3>1 DEF Restoring
    <3>3. rec.then = "none"
      BY <3>1, <3>2 DEF Resting
    <3> QED
      BY <1>3, <2>1, <2>2, <3>2, <3>3
  <2> QED
    BY <1>1, <1>6, <2>1, <2>2, CallOver DEF Rollback, FlushLost
<1>7. CASE EnterSafeMode
  <2>1. PICK rec : /\ Goto("op", rec)
                   /\ rec = [Resting EXCEPT !.pc = "safe", !.wait = UnloadWaits(rt, Candidates),
                                            !.drop = rt.generated]
    BY <1>7 DEF EnterSafeMode
  <2>2. rec.then = "none"
    BY <2>1 DEF Resting
  <2> QED
    BY <1>3, <1>4, <1>7, <2>1, <2>2 DEF EnterSafeMode
<1>8. ASSUME NEW x, NEW kind \in {"disable", "uninstall"}, RemoveStart(x, kind)
      PROVE  CallInv'
  <2>1. PICK rec : /\ Goto("op", rec)
                   /\ rec = [Resting EXCEPT !.pc = kind, !.wait = UnloadWaits(rt, {x} \cap Candidates),
                                            !.todo = {x},
                                            !.drop = ({x} \cap Candidates) \cap rt.generated,
                                            !.prior = gov]
    BY <1>8 DEF RemoveStart
  <2>2. rec.then = "none"
    BY <2>1 DEF Resting
  <2> QED
    BY <1>3, <1>4, <1>8, <2>1, <2>2 DEF RemoveStart
<1> QED
  BY <1>2, <1>5, <1>6, <1>7, <1>8 DEF Request, RequestApproval, RecordApproval, AbandonFailedActivation,
     ExitSafeMode

LEMMA EnvironmentCall ==
    ASSUME Inductive, CallInv, Environment
    PROVE  CallInv'
<1>1. ASSUME NEW c \in Candidates, RunnerDies(c)
      PROVE  CallInv'
  <2>1. \A u \in Threads : u # c => th'[u] = th[u]
    BY <1>1, Moved, OpApart DEF RunnerDies, Restoring
  <2> QED
    BY <1>1, <2>1, CallBeside, OpApart DEF RunnerDies
<1>2. ASSUME NEW c \in Candidates, Tamper(c)
      PROVE  CallInv'
  BY <1>2, CallBeside DEF Tamper
<1> QED
  BY <1>1, <1>2, HaltCall DEF Environment, Crash, Die

LEMMA BootCall ==
    ASSUME Inductive, CallInv, Boot
    PROVE  CallInv'
BY DEF Boot, CallInv, Calling

LEMMA FailureStepCall ==
    ASSUME Inductive, CallInv, NEW c \in Candidates, FailureStep(c)
    PROVE  CallInv'
<1>1. c \in Threads /\ c # "op" /\ "op" \in Threads /\ th[c] \in SoundThreads(Known(registry))
  BY OpApart, ThreadFacts
<1>2. UNCHANGED <<mutation, up>>
  BY DEF FailureStep, FailureRestored, FailureHandled
<1>3. \A u \in Threads : u # c => th'[u] = th[u]
  BY <1>1, Moved, RemountingThen DEF FailureStep, FailureRestored, FailureHandled, Rest
<1> QED
  BY <1>1, <1>2, <1>3, CallBeside

LEMMA MountStepCall ==
    ASSUME Inductive, CallInv, NEW t \in Threads, MountStep(t)
    PROVE  CallInv'
<1>1. GoesOn(t)
  BY MountStepGoesOn
<1>2. CASE t = "op"
  BY <1>1, <1>2, CallOn DEF GoesOn, CallInv, Calling
<1>3. CASE t # "op"
  BY <1>1, <1>3, CallBeside, OpApart DEF GoesOn
<1> QED
  BY <1>2, <1>3

LEMMA NextCall ==
    ASSUME Inductive, LockInv, [Next]_vars
    PROVE  CallInv'
<1>1. CallInv
  BY DEF LockInv
<1>2. ASSUME NEW t \in Threads, Advance(t)
      PROVE  CallInv'
  BY <1>1, <1>2, ActivationCall, RollbackCall, RemovalCall, FailureStepCall, MountStepCall DEF Advance, OpStep
<1>3. CASE UNCHANGED vars
  BY <1>1, <1>3, CallBeside DEF vars
<1> QED
  BY <1>1, <1>2, <1>3, RequestCall, EnvironmentCall, BootCall DEF Next

-----------------------------------------------------------------------------

(* A kept home is its own file.                                            *)
LEMMA InitLock ==
    ASSUME Init
    PROVE  LockInv
<1>1. /\ \A t \in Threads : th[t] = Resting
      /\ disk = FileOf(registry, approvals, gov)
      /\ mutation = "idle" /\ deferred = FALSE /\ up = "down"
  BY DEF Init
<1>2. Resting.pc = "idle" /\ Resting.then = "none"
  BY DEF Resting
<1>3. LockHeld
  BY <1>1, <1>2, OpApart DEF LockHeld, FileFollows, Holds, Stage
<1> QED
  BY <1>3, HeldLocks

(* Every step keeps what holds as long as no write is lost.                *)
LEMMA NextHeld ==
    ASSUME Inductive, LockHeld, [Next]_vars, spent'.lost = 0
    PROVE  LockHeld'
<1>1. ASSUME NEW t \in Threads, Advance(t)
      PROVE  LockHeld'
  <2>1. CASE OpStep
    BY <2>1, ActivatePreparedLock, ActivateHealthyLock, ActivateUnhealthyLock,
       ActivateCommittedLock,
       ActivateUndoneLock, RollbackRestoredLock, RollbackMountedLock, RollbackRecoveredLock,
       RollbackClosedLock, SafeModeEnteredLock, RemovedLock, RemoveRevertedLock, BootedLock DEF OpStep
  <2>2. CASE t \in Candidates /\ FailureStep(t)
    BY <2>2, FailureRestoredLock, FailureHandledLock DEF FailureStep
  <2>3. CASE MountStep(t)
    BY <2>3, MountStepGoesOn, GoneOn
  <2> QED
    BY <1>1, <2>1, <2>2, <2>3 DEF Advance
<1>2. CASE UNCHANGED vars
  <2>1. FileFollows'
    BY <1>2 DEF vars, LockHeld, FileFollows, Owes
  <2> QED
    BY <1>2, <2>1, Beside DEF vars
<1> QED
  BY <1>1, <1>2, RequestLock, EnvironmentLock, BootLock DEF Next

(* Every step keeps the invariant.                                         *)
LEMMA NextLock ==
    ASSUME Inductive, LockInv, [Next]_vars
    PROVE  LockInv'
<1>1. CallInv'
  BY NextCall
<1>2. spent'.lost = 0 => LockHeld'
  BY SpentGrows, NextHeld, DieLock DEF LockInv, Crash
<1> QED
  BY <1>1, <1>2 DEF LockInv

(* MutationReleased: every call and callback, the boot included, ends the  *)
(* deferral, has written what it changed and gives the lock back, whatever *)
(* fails in it, a write that its handler answers included, and whatever    *)
(* the process died of before: as long as no call of this process ended by *)
(* one of the writes that no handler answers.                              *)
THEOREM LifecycleReleased == Spec => []MutationReleased
<1>1. Init => Inductive /\ LockInv
  BY InitInductive, InitLock
<1>2. (Inductive /\ LockInv) /\ [Next]_vars => (Inductive /\ LockInv)'
  BY NextInductive, NextLock
<1>3. Inductive /\ LockInv => MutationReleased
  <2> SUFFICES ASSUME Inductive, LockInv, up = "up", \A t \in Threads : th[t].pc = "idle",
                      spent.lost = 0
               PROVE  /\ ~deferred /\ disk = FileOf(registry, approvals, gov)
                      /\ mutation = "idle" /\ ~Pending(gov)
    BY DEF MutationReleased, Quiet, Pending
  <2>1. th["op"].pc = "idle" /\ LockHeld
    BY OpApart DEF LockInv
  <2>2. disk = FileOf(registry, approvals, gov)
    BY <2>1 DEF LockHeld, FileFollows, Owes
  <2> QED
    BY <2>1, <2>2, OpFacts DEF Stage
<1> QED
  BY <1>1, <1>2, <1>3, PTL DEF Spec

-----------------------------------------------------------------------------
(* What was sealed before the host contract stays withheld.                *)

(* A snapshot without a row that was sealed before the contract.           *)
Free(s) == s.owners \cap Legacy = {}

(* A home that failed closed before it could withhold its rows: the last   *)
(* known good snapshot names an artifact that was changed, only a rollback *)
(* to the target gets it out of Safe Mode, and a dead child makes the      *)
(* target the last known good one.                                         *)
Spoilt(g, whole) ==
    /\ ~(g.lkg.owners \cap Candidates \subseteq whole)
    /\ g.target # NoSnapshot /\ g.safeMode /\ g.failure.safeRequired /\ ~g.integrity
    /\ g.state \notin {"activation-pending", "activating"}

Withholds(g, whole) ==
    /\ Free(g.current) /\ (g.target # NoSnapshot => Free(g.target))
    /\ Free(g.lkg) \/ Spoilt(g, whole)

Withheld(reg) == Active(reg) \cap Legacy = {}

(* What a call would restore, put back or turn active.                     *)
ThreadFree(rec, whole) ==
    /\ Free(rec.snap) /\ rec.owners \cap Legacy = {} /\ Withholds(rec.prior, whole)
    /\ Stage(rec) # "revert"
    /\ rec.pc = "prepare" /\ rec.start = None => rec.cand \notin Legacy
    /\ rec.pc = "health" => rec.cand \notin Legacy

AllFree(f, whole) == \A t \in Threads : ThreadFree(f[t], whole)

RunFree(r) == r.generated \cap Legacy = {} /\ \A c \in Candidates : r.parked[c] \cap Legacy = {}

(* A call that makes the last known good snapshot the restored one.        *)
Leads(rec) == Stage(rec) \in {"prepare", "health", "commit", "undo"} \/ rec.then = "rollback"

(* A file that withholds the rows, and whose store will write no other section. *)
FileFree(d, whole) == Withholds(d.gov, whole) /\ Withheld(d.registry) /\ d.store.gov = d.gov

(* No boot of the home has ended yet.                                      *)
Unopened(d) ==
    /\ Legacy # {} /\ d.gov = HomeState(Legacy) /\ ActiveGenerated(d.registry) \subseteq Legacy
    /\ d.store.gov = d.gov

(* The first boot has withheld the rows, or failed closed.                 *)
Opening ==
    /\ up = "booting" /\ Unopened(disk) /\ Withheld(registry)
    /\ rt.generated = {} /\ \A c \in Candidates : th[c].pc = "idle"
    /\ th["op"].then = "boot"
    /\ \/ th["op"].pc = "mount" /\ th["op"].todo = {} /\ th["op"].held # {}
       \/ /\ th["op"].pc = "close" /\ Free(gov.current) /\ gov.target = HomeSnapshot
          /\ ~(gov.lkg.owners \cap Candidates \subseteq intact)
          /\ gov.safeMode /\ ~gov.integrity /\ gov.state = "safe-mode"

Opened ==
    /\ Withholds(gov, intact) /\ Withheld(registry)
    /\ FileFree(disk, intact)
    /\ Leads(th["op"]) => Free(gov.lkg)

(* The inductive invariant of this part, as long as no write fails.        *)
FreeInv ==
    /\ RunFree(rt) /\ AllFree(th, intact)
    /\ \/ /\ up = "down" /\ Unopened(disk) /\ gov = disk.gov /\ registry = disk.registry
          /\ rt.generated = {}
       \/ Opening
       \/ Opened

WithheldInv == spent.faults = 0 => FreeInv

-----------------------------------------------------------------------------
(* What each operator keeps out of a runtime, a registry and a snapshot.   *)

LEMMA StartsFree ==
    ASSUME NEW p \in Runtimes, RunFree(p), NEW c \in Candidates
    PROVE  /\ RunFree(Mounted(p, c)) /\ RunFree(Park(p, c, Evolves(c)))
           /\ c \notin Legacy => RunFree(Started(p, c))
<1>1. RunFree(Mounted(p, c)) /\ (c \notin Legacy => RunFree(Started(p, c)))
  BY DEF RunFree, Mounted, Started, Runtimes
<1>2. Displaced(p, c) \subseteq p.generated
  BY DEF Displaced
<1>3. RunFree(Park(p, c, Evolves(c)))
  BY <1>2 DEF RunFree, Park, Runtimes
<1> QED
  BY <1>1, <1>3

LEMMA UnparkedFree ==
    ASSUME NEW p \in Runtimes, RunFree(p), NEW S, S \cap Legacy = {}
    PROVE  RunFree(Unparked(p, S))
BY DEF RunFree, Unparked, Runtimes

LEMMA FailedStartFree ==
    ASSUME NEW p \in Runtimes, RunFree(p), NEW c \in Candidates, NEW clash
    PROVE  RunFree(StartFailed(p, c, clash))
<1>1. ASSUME NEW q \in Runtimes, RunFree(q)
      PROVE  RunFree(Unpark(q, c))
  <2>1. PICK r : r = [q EXCEPT !.generated = @ \ {c}, !.parked[c] = {}, !.swapped = @ \ {c}]
    OBVIOUS
  <2>2. r \in Runtimes /\ RunFree(r)
    BY <1>1, <2>1 DEF RunFree, Runtimes
  <2>3. PICK S : S = q.parked[c]
    OBVIOUS
  <2>4. S \cap Legacy = {}
    BY <1>1, <2>3 DEF RunFree
  <2> QED
    BY <2>1, <2>2, <2>3, <2>4, UnparkedFree DEF Unpark
<1>2. PICK q : q = IF clash THEN [p EXCEPT !.recipes = @ \cup {c}] ELSE p
  OBVIOUS
<1>3. q \in Runtimes /\ RunFree(q)
  BY <1>2 DEF RunFree, Runtimes
<1> QED
  BY <1>1, <1>2, <1>3 DEF StartFailed

LEMMA StopsFree ==
    ASSUME NEW p \in Runtimes, RunFree(p), NEW S
    PROVE  /\ RunFree(DiscardParked(p, S)) /\ RunFree(Dropping(p, S))
           /\ RunFree(Dropped(p, S)) /\ RunFree(Unloading(p, S))
<1>1. ASSUME NEW q \in Runtimes, RunFree(q)
      PROVE  RunFree(DiscardParked(q, S))
  BY <1>1 DEF RunFree, DiscardParked, Runtimes
<1>2. RunFree(Dropping(p, S)) /\ RunFree(Dropped(p, S))
  BY DEF RunFree, Dropping, Dropped, Runtimes
<1>3. PICK q : q = Dropping(p, S \cap p.generated)
  OBVIOUS
<1>4. q \in Runtimes /\ RunFree(q)
  BY <1>3 DEF RunFree, Dropping, Runtimes
<1> QED
  BY <1>1, <1>2, <1>3, <1>4 DEF Unloading

LEMMA RestoresFree ==
    ASSUME NEW p \in Runtimes, RunFree(p), NEW s
    PROVE  RunFree(BeginRestore(p, s)) /\ RunFree(EndRestore(p, s))
<1> DEFINE gone == p.swapped \ s.mounted
           back == UNION {p.parked[c] : c \in gone}
           kept == [Dropping(p, Unwanted(p, s)) EXCEPT !.generated = @ \ gone,
                                              !.parked = NobodyParked, !.swapped = @ \ gone]
<1>1. RunFree(EndRestore(p, s))
  BY DEF RunFree, EndRestore, Runtimes
<1>2. back \cap Legacy = {}
  <2>1. gone \subseteq Candidates
    BY DEF Runtimes
  <2> QED
    BY <2>1 DEF RunFree
<1>3. kept \in Runtimes /\ RunFree(kept)
  <2>1. PICK q : q = Dropping(p, Unwanted(p, s))
    OBVIOUS
  <2>2. q \in Runtimes /\ RunFree(q)
    BY <2>1, StopTypes DEF RunFree, Dropping, Runtimes
  <2> QED
    BY <2>1, <2>2 DEF RunFree, Runtimes, NobodyParked
<1>4. BeginRestore(p, s) = Unparked(kept, back)
  BY DEF BeginRestore
<1> HIDE DEF kept, back
<1> QED
  BY <1>1, <1>2, <1>3, <1>4, UnparkedFree

LEMMA StartableFree ==
    ASSUME NEW c, Startable(c)
    PROVE  c \notin Legacy
BY DEF Startable

(* Only a free snapshot is ever restored. *)
LEMMA FallbackFree ==
    ASSUME NEW g, NEW whole, Withholds(g, whole)
    PROVE  Free(Fallback(g))
BY DEF Withholds, Spoilt, Fallback

(* What the service admits outside Safe Mode finds every snapshot free. *)
LEMMA SoundFree ==
    ASSUME NEW g, NEW whole, Withholds(g, whole),
           ~g.safeMode \/ ~RecoveryRequired(g) \/ g.state \in {"activation-pending", "activating"}
    PROVE  Free(g.current) /\ Free(g.lkg)
BY DEF Withholds, Spoilt, RecoveryRequired

LEMMA RegistryFree ==
    ASSUME NEW reg \in Registries, Withheld(reg)
    PROVE  /\ \A S : Withheld(SetStatus(reg, S, "disabled"))
           /\ Withheld(DisableGenerated(reg))
           /\ \A c \in Rows : c \notin Legacy => Withheld(CommitRow(reg, c))
           /\ \A owners : owners \cap Legacy = {} => Withheld(ApplyOwners(reg, owners))
           /\ \A r : Free(Capture(reg, r))
<1>1. \A S : Withheld(SetStatus(reg, S, "disabled"))
  BY DEF Withheld, SetStatus, Active, Registries
<1>2. Withheld(DisableGenerated(reg))
  BY <1>1 DEF DisableGenerated
<1>3. \A c \in Rows : c \notin Legacy => Withheld(CommitRow(reg, c))
  BY DEF Withheld, SetStatus, Active, Registries, CommitRow
<1>4. \A owners : owners \cap Legacy = {} => Withheld(ApplyOwners(reg, owners))
  BY DEF Withheld, ApplyOwners, Active, Registries
<1>5. \A r : Free(Capture(reg, r))
  BY DEF Withheld, Free, Capture
<1> QED
  BY <1>1, <1>2, <1>3, <1>4, <1>5

(* Fields that a call may change in a home that withholds its rows. *)
LEMMA GovFree ==
    ASSUME NEW K, NEW g \in SoundGovs(K), NEW h \in SoundGovs(K), NEW whole, Withholds(g, whole),
           h.target = g.target, Free(h.current),
           \/ Free(h.lkg)
           \/ /\ h.lkg = g.lkg
              /\ g.safeMode => h.safeMode
              /\ g.failure.safeRequired => h.failure.safeRequired
              /\ g.state \notin {"activation-pending", "activating"} =>
                    h.state \notin {"activation-pending", "activating"}
              /\ ~g.integrity => ~h.integrity
    PROVE  Withholds(h, whole)
BY DEF Withholds, Spoilt

LEMMA HomeFree ==
    /\ Free(HomeSnapshot)
    /\ \A whole : Withholds(HomeState({}), whole)
    /\ Withheld(HomeRegistry({}))
    /\ \A whole : ThreadFree(Resting, whole) /\ ~Leads(Resting)
    /\ RunFree(FreshRuntime) /\ FreshRuntime.generated = {}
<1>1. Legacy \subseteq Candidates
  BY GovernanceAssumption
<1>2. Free(HomeSnapshot)
  BY <1>1 DEF Free, HomeSnapshot
<1>3. \A whole : Withholds(HomeState({}), whole)
  BY <1>1 DEF Withholds, HomeState, Free
<1>4. Withheld(HomeRegistry({}))
  BY <1>1 DEF Withheld, HomeRegistry, Active
<1>5. \A whole : ThreadFree(Resting, whole) /\ ~Leads(Resting)
  BY <1>2, <1>3 DEF ThreadFree, Resting, Stage, Leads
<1>6. RunFree(FreshRuntime) /\ FreshRuntime.generated = {}
  BY DEF RunFree, FreshRuntime, NobodyParked
<1> QED
  BY <1>2, <1>3, <1>4, <1>5, <1>6

-----------------------------------------------------------------------------
(* What the parts of a step keep free.                                     *)

LEMMA GotoFree ==
    ASSUME Inductive, NEW t \in Threads, NEW rec, NEW whole, AllFree(th, whole),
           ThreadFree(rec, whole), Goto(t, rec)
    PROVE  AllFree(th', whole)
<1>1. th'[t] = rec /\ \A u \in Threads : u # t => th'[u] = th[u]
  BY Moved
<1> QED
  BY <1>1 DEF AllFree

LEMMA RestFree ==
    ASSUME Inductive, NEW t \in Threads, NEW whole, AllFree(th, whole), Rest(t)
    PROVE  AllFree(th', whole)
BY GotoFree, HomeFree DEF Rest

(* A restore of a free snapshot. *)
LEMMA RestoringFree ==
    ASSUME Inductive, NEW t \in Threads, NEW K, NEW here \in SoundThreads(K), NEW ret, NEW snap,
           NEW reg, NEW r \in Runtimes, Restoring(t, here, ret, snap, reg, r),
           NEW whole, AllFree(th, whole), Withholds(here.prior, whole), Free(snap), Withheld(reg),
           RunFree(r), ret # "revert"
    PROVE  RunFree(rt') /\ AllFree(th', whole)
<1>1. RunFree(rt')
  BY RestoresFree DEF Restoring
<1>2. PICK rec : rec = [here EXCEPT !.pc = "restore", !.wait = RestoreWaits(r, snap), !.ret = ret,
                                    !.snap = snap, !.owners = Active(reg), !.todo = snap.mounted,
                                    !.drop = Unwanted(r, snap)]
  OBVIOUS
<1>3. /\ rec.pc = "restore" /\ rec.ret = ret /\ rec.snap = snap /\ rec.owners = Active(reg)
      /\ rec.prior = here.prior
  BY <1>2 DEF SoundThreads
<1>4. ThreadFree(rec, whole)
  BY <1>3 DEF ThreadFree, Stage, Withheld
<1>5. Goto(t, rec)
  BY <1>2 DEF Restoring
<1> QED
  BY <1>1, <1>4, <1>5, GotoFree

(* A home that fails closed. *)
LEMMA FailingClosedFree ==
    ASSUME Inductive, NEW t \in Threads, NEW K, NEW here \in SoundThreads(K), NEW pc \in {"close", "shut"},
           NEW reg \in Registries, NEW g \in SoundGovs(K), NEW r \in Runtimes,
           FailingClosed(t, here, pc, reg, g, r),
           NEW whole, AllFree(th, whole), ThreadFree(here, whole), Withholds(g, whole),
           Withheld(reg), RunFree(r)
    PROVE  /\ RunFree(rt') /\ AllFree(th', whole)
           /\ Withheld(registry') /\ Withholds(gov', whole) /\ gov'.lkg = g.lkg
<1>1. Withheld(registry')
  BY RegistryFree DEF FailingClosed
<1>2. RunFree(rt')
  BY StopsFree DEF FailingClosed
<1>3. PICK now : now = Capture(DisableGenerated(reg), r)
  OBVIOUS
<1>4. Free(now)
  <2>1. DisableGenerated(reg) \in Registries /\ Withheld(DisableGenerated(reg))
    BY RegistryFree, DisableGeneratedSound
  <2> QED
    BY <1>3, <2>1 DEF Withheld, Free, Capture
<1>5. Withholds(gov', whole) /\ gov'.lkg = g.lkg
  <2>1. gov' = [g EXCEPT !.safeMode = TRUE, !.state = "safe-mode", !.integrity = FALSE, !.current = now]
    BY <1>3 DEF FailingClosed
  <2>2. /\ gov'.current = now /\ gov'.lkg = g.lkg /\ gov'.target = g.target
        /\ gov'.safeMode /\ ~gov'.integrity /\ gov'.state = "safe-mode" /\ gov'.failure = g.failure
    BY <2>1 DEF SoundGovs
  <2> QED
    BY <1>4, <2>2 DEF Withholds, Spoilt
<1>6. PICK rec : rec = [here EXCEPT !.pc = pc, !.wait = UnloadWaits(r, Candidates), !.drop = r.generated]
  OBVIOUS
<1>7. rec.pc = pc /\ rec.snap = here.snap /\ rec.owners = here.owners /\ rec.prior = here.prior
  BY <1>6 DEF SoundThreads
<1>8. ThreadFree(rec, whole)
  BY <1>7 DEF ThreadFree, Stage
<1>9. AllFree(th', whole)
  BY <1>6, <1>8, GotoFree DEF FailingClosed
<1> QED
  BY <1>1, <1>2, <1>5, <1>9

(* A remount in a home that withholds its rows finds none to withhold. *)
LEMMA RemountingFree ==
    ASSUME Inductive, NEW t \in Threads, NEW K, NEW here \in SoundThreads(K), NEW then,
           NEW reg \in Registries, NEW g \in SoundGovs(K), NEW r \in Runtimes, NEW d,
           Remounting(t, here, then, reg, g, r, d),
           NEW whole, AllFree(th, whole), ThreadFree(here, whole), Withholds(g, whole),
           Withheld(reg), RunFree(r)
    PROVE  /\ RunFree(rt') /\ AllFree(th', whole)
           /\ Withheld(registry') /\ Withholds(gov', whole) /\ gov'.lkg = g.lkg
<1> DEFINE targets  == Committed(g).owners \cap Candidates
           held     == targets \cap Legacy \cap intact
           withheld == SetStatus(reg, held, "disabled")
           go       == [here EXCEPT !.then = then, !.todo = {}, !.held = {}]
<1>1. Withheld(withheld) /\ withheld \in Registries
  <2>1. Withheld(withheld)
    BY RegistryFree
  <2> QED
    BY <2>1 DEF SetStatus, Registries, Statuses
<1>2. CASE registry' = reg /\ gov' = g /\ rt' = r /\ Goto(t, [go EXCEPT !.pc = "mounted", !.wait = FALSE])
  <2>1. PICK rec : rec = [go EXCEPT !.pc = "mounted", !.wait = FALSE]
    OBVIOUS
  <2>2. rec.pc = "mounted" /\ rec.snap = here.snap /\ rec.owners = here.owners /\ rec.prior = here.prior
    BY <2>1 DEF SoundThreads
  <2>3. ThreadFree(rec, whole)
    BY <2>2 DEF ThreadFree, Stage
  <2>4. AllFree(th', whole)
    BY <1>2, <2>1, <2>3, GotoFree
  <2> QED
    BY <1>2, <2>4
<1>3. CASE FailingClosed(t, go, "close", withheld, g, r)
  <2>1. PICK rec : rec = [go EXCEPT !.pc = "close", !.wait = UnloadWaits(r, Candidates), !.drop = r.generated]
    OBVIOUS
  <2>2. rec.pc = "close" /\ rec.snap = here.snap /\ rec.owners = here.owners /\ rec.prior = here.prior
    BY <2>1 DEF SoundThreads
  <2>3. ThreadFree(rec, whole) /\ Goto(t, rec)
    BY <1>3, <2>1, <2>2 DEF ThreadFree, Stage, FailingClosed
  <2>4. AllFree(th', whole)
    BY <2>3, GotoFree
  <2>5. PICK reg2 : reg2 = withheld
    OBVIOUS
  <2>6. Withheld(registry') /\ RunFree(rt') /\ Free(Capture(DisableGenerated(reg2), r))
    <3>1. reg2 \in Registries /\ Withheld(reg2)
      BY <1>1, <2>5
    <3>2. DisableGenerated(reg2) \in Registries /\ Withheld(DisableGenerated(reg2))
      BY <3>1, RegistryFree, DisableGeneratedSound
    <3>3. registry' = DisableGenerated(reg2) /\ rt' = Unloading(r, Candidates)
      BY <1>3, <2>5 DEF FailingClosed
    <3> QED
      BY <3>2, <3>3, StopsFree DEF Withheld, Free, Capture
  <2>7. PICK now : now = Capture(DisableGenerated(reg2), r)
    OBVIOUS
  <2>8. gov' = [g EXCEPT !.safeMode = TRUE, !.state = "safe-mode", !.integrity = FALSE, !.current = now]
    BY <1>3, <2>5, <2>7 DEF FailingClosed
  <2>9. /\ gov'.current = now /\ gov'.lkg = g.lkg /\ gov'.target = g.target
        /\ gov'.safeMode /\ ~gov'.integrity /\ gov'.state = "safe-mode" /\ gov'.failure = g.failure
    BY <2>8 DEF SoundGovs
  <2>10. Withholds(gov', whole)
    BY <2>6, <2>7, <2>9 DEF Withholds, Spoilt
  <2> QED
    BY <2>4, <2>6, <2>9, <2>10
<1>4. CASE /\ ~g.safeMode
           /\ registry' = withheld /\ rt' = r
           /\ gov' = IF held = {} THEN g ELSE [g EXCEPT !.failure = Failure(Blamed(g), FALSE, FALSE)]
           /\ Goto(t, [go EXCEPT !.pc = "mount", !.wait = FALSE, !.todo = Remountable(g), !.held = held])
  <2>1. PICK rec : rec = [go EXCEPT !.pc = "mount", !.wait = FALSE, !.todo = Remountable(g), !.held = held]
    OBVIOUS
  <2>2. rec.pc = "mount" /\ rec.snap = here.snap /\ rec.owners = here.owners /\ rec.prior = here.prior
    BY <2>1 DEF SoundThreads
  <2>3. ThreadFree(rec, whole)
    BY <2>2 DEF ThreadFree, Stage
  <2>4. Goto(t, rec)
    BY <1>4, <2>1
  <2>5. AllFree(th', whole)
    BY <2>3, <2>4, GotoFree
  <2>6. held = {}
    <3>1. Free(g.current) /\ Free(g.lkg)
      BY <1>4, SoundFree
    <3> QED
      BY <3>1 DEF Free, Committed
  <2>7. gov' = g
    BY <1>4, <2>6
  <2> QED
    BY <1>1, <1>4, <2>5, <2>7
<1> QED
  BY <1>2, <1>3, <1>4 DEF Remounting

(* Thread t goes on, and remembers what it remembered. *)
LEMMA GoingOnFree ==
    ASSUME Inductive, NEW t \in Threads, NEW rec, Goto(t, rec), NEW whole, AllFree(th, whole),
           rec.snap = th[t].snap, rec.owners = th[t].owners, rec.prior = th[t].prior,
           Stage(rec) # "revert", rec.pc \notin {"prepare", "health"}
    PROVE  AllFree(th', whole)
<1>1. ThreadFree(rec, whole)
  BY DEF AllFree, ThreadFree
<1> QED
  BY <1>1, GotoFree

LEMMA RestoreEndedFree ==
    ASSUME Inductive, NEW t \in Threads, NEW ok \in BOOLEAN, th[t].pc \in {"restore", "restart"},
           Goto(t, RestoreEnded(th[t], ok)), NEW whole, AllFree(th, whole)
    PROVE  AllFree(th', whole) /\ Stage(th'[t]) = Stage(th[t]) /\ th'[t].then = th[t].then
<1>1. PICK rec : rec = RestoreEnded(th[t], ok)
  OBVIOUS
<1>2. th[t] \in SoundThreads(Known(registry)) /\ th[t].ret \in Returns
  BY ThreadFacts DEF Placed
<1>3. /\ rec.pc = th[t].ret /\ rec.snap = th[t].snap /\ rec.owners = th[t].owners
      /\ rec.prior = th[t].prior /\ rec.then = th[t].then
  BY <1>1, <1>2 DEF RestoreEnded, SoundThreads
<1>4. Stage(rec) = Stage(th[t]) /\ rec.pc \notin {"prepare", "health"}
  BY <1>2, <1>3 DEF Stage, Returns
<1>5. Stage(th[t]) # "revert" /\ Goto(t, rec)
  BY <1>1 DEF AllFree, ThreadFree
<1>6. AllFree(th', whole)
  BY <1>3, <1>4, <1>5, GoingOnFree
<1>7. th'[t] = rec
  BY <1>5, Moved
<1> QED
  BY <1>3, <1>4, <1>6, <1>7

LEMMA RestoreLoopFree ==
    ASSUME Inductive, NEW t \in Threads, th[t].pc \in {"restore", "restart"}, NEW r \in Runtimes,
           RestoreLoop(t, r), RunFree(r), NEW whole, AllFree(th, whole)
    PROVE  RunFree(rt') /\ AllFree(th', whole) /\ Stage(th'[t]) = Stage(th[t]) /\ th'[t].then = th[t].then
<1>1. CASE rt' = EndRestore(r, th[t].snap) /\ Goto(t, RestoreEnded(th[t], TRUE))
  <2>1. PICK s : s = th[t].snap
    OBVIOUS
  <2>2. RunFree(rt')
    BY <1>1, <2>1, RestoresFree
  <2> QED
    BY <1>1, <2>2, RestoreEndedFree
<1>2. ASSUME NEW c \in Restartable(r, th[t].todo), rt' = Park(r, c, Evolves(c)),
             Goto(t, [th[t] EXCEPT !.pc = "restart", !.wait = TRUE, !.drop = {}, !.start = c, !.todo = @ \ {c}])
      PROVE  RunFree(rt') /\ AllFree(th', whole) /\ Stage(th'[t]) = Stage(th[t]) /\ th'[t].then = th[t].then
  <2>1. PICK rec : rec = [th[t] EXCEPT !.pc = "restart", !.wait = TRUE, !.drop = {}, !.start = c,
                                       !.todo = @ \ {c}]
    OBVIOUS
  <2>2. th[t] \in SoundThreads(Known(registry))
    BY ThreadFacts
  <2>3. /\ rec.pc = "restart" /\ rec.ret = th[t].ret /\ rec.snap = th[t].snap /\ rec.owners = th[t].owners
        /\ rec.prior = th[t].prior /\ rec.then = th[t].then
    BY <2>1, <2>2 DEF SoundThreads
  <2>4. Stage(rec) = Stage(th[t]) /\ rec.pc \notin {"prepare", "health"}
    BY <2>3 DEF Stage
  <2>5. Stage(th[t]) # "revert" /\ Goto(t, rec)
    BY <1>2, <2>1 DEF AllFree, ThreadFree
  <2>6. AllFree(th', whole) /\ th'[t] = rec
    BY <2>3, <2>4, <2>5, GoingOnFree, Moved
  <2>7. c \in Candidates
    BY RestartableType
  <2> QED
    BY <1>2, <2>3, <2>4, <2>6, <2>7, StartsFree
<1> QED
  BY <1>1, <1>2 DEF RestoreLoop

(* What a step of a home that withholds its rows may rely on. *)
LEMMA OpenFacts ==
    ASSUME Inductive, FreeInv, Opened
    PROVE  /\ rt \in Runtimes /\ RunFree(rt) /\ AllFree(th, intact)
           /\ registry \in Registries /\ Withheld(registry)
           /\ gov \in SoundGovs(Known(registry)) /\ Withholds(gov, intact) /\ Free(gov.current)
           /\ "op" \in Threads /\ th["op"] \in SoundThreads(Known(registry))
           /\ Resting \in SoundThreads(Known(registry))
           /\ Placed(th["op"], Known(registry), blessed)
           /\ Free(th["op"].snap) /\ th["op"].owners \cap Legacy = {}
           /\ Withholds(th["op"].prior, intact) /\ ThreadFree(th["op"], intact)
           /\ Leads(th["op"]) => Free(gov.lkg)
<1>1. /\ "op" \in Threads /\ th["op"] \in SoundThreads(Known(registry))
      /\ Placed(th["op"], Known(registry), blessed)
  BY OpApart, ThreadFacts
<1>2. rt \in Runtimes /\ registry \in Registries /\ gov \in SoundGovs(Known(registry))
  BY DEF Inductive, SoundRegistries
<1>3. Resting \in SoundThreads(Known(registry))
  BY RestingSound DEF Inductive, SoundRegistries
<1> QED
  BY <1>1, <1>2, <1>3 DEF FreeInv, Opened, AllFree, ThreadFree, Withholds

(* The end of every such step. *)
LEMMA FreeAfter ==
    ASSUME intact' = intact, RunFree(rt'), AllFree(th', intact), Withholds(gov', intact), Withheld(registry'),
           FileFree(disk', intact), Leads(th'["op"]) => Free(gov'.lkg)
    PROVE  FreeInv'
BY DEF FreeInv, Opened

LEMMA FileOfFree ==
    ASSUME NEW reg, NEW a, NEW g, NEW whole, Withholds(g, whole), Withheld(reg)
    PROVE  FileFree(FileOf(reg, a, g), whole)
BY DEF FileFree, FileOf, Sections

(* A change of the registry, saved in a file whose sections are the store's. *)
LEMMA SavedFree ==
    ASSUME NEW reg, NEW a, NEW g, NEW s, s.gov = g,
           NEW d, d = [registry |-> reg, approvals |-> a, gov |-> g, store |-> s],
           SaveRegistry(d), NEW whole, Withholds(g, whole), Withheld(reg), Withheld(registry')
    PROVE  FileFree(disk', whole)
<1>1. CASE disk' = d
  BY <1>1 DEF FileFree
<1>2. CASE disk' = [d EXCEPT !.registry = registry', !.approvals = d.store.approvals, !.gov = d.store.gov]
  <2>1. disk'.registry = registry' /\ disk'.gov = g /\ disk'.store = s
    BY <1>2
  <2> QED
    BY <2>1 DEF FileFree
<1> QED
  BY <1>1, <1>2 DEF SaveRegistry, Saved

LEMMA FileOfSavedFree ==
    ASSUME NEW reg, NEW a, NEW g, SaveRegistry(FileOf(reg, a, g)), NEW whole, Withholds(g, whole),
           Withheld(reg), Withheld(registry')
    PROVE  FileFree(disk', whole)
<1>1. PICK s : s = Sections(a, g)
  OBVIOUS
<1>2. PICK d : d = FileOf(reg, a, g)
  OBVIOUS
<1>3. s.gov = g /\ d = [registry |-> reg, approvals |-> a, gov |-> g, store |-> s] /\ SaveRegistry(d)
  BY <1>1, <1>2 DEF Sections, FileOf
<1> QED
  BY <1>3, SavedFree

LEMMA DiskSavedFree ==
    ASSUME Inductive, SaveRegistry(disk), NEW whole, FileFree(disk, whole), Withheld(registry')
    PROVE  FileFree(disk', whole)
<1>1. PICK reg, a, g, s : disk = [registry |-> reg, approvals |-> a, gov |-> g, store |-> s]
  BY DEF Inductive, Disks
<1>2. PICK d : d = disk
  OBVIOUS
<1>3. d = [registry |-> reg, approvals |-> a, gov |-> g, store |-> s] /\ SaveRegistry(d)
  BY <1>1, <1>2
<1>4. s.gov = g /\ Withholds(g, whole) /\ Withheld(reg)
  BY <1>1 DEF FileFree
<1> QED
  BY <1>3, <1>4, SavedFree

LEMMA StaysFree ==
    ASSUME Inductive, FreeInv, Opened,
           intact' = intact, RunFree(rt'), AllFree(th', intact), Withholds(gov', intact), Withheld(registry'),
           disk' = disk \/ Flush \/ SaveRegistry(disk), Leads(th'["op"]) => Free(gov'.lkg)
    PROVE  FreeInv'
<1>1. CASE disk' = disk
  BY <1>1, FreeAfter DEF Opened
<1>2. CASE Flush
  <2>1. FileFree(disk', intact)
    BY <1>2, FileOfFree DEF Flush
  <2> QED
    BY <2>1, FreeAfter
<1>3. CASE SaveRegistry(disk)
  <2>1. FileFree(disk', intact)
    BY <1>3, DiskSavedFree DEF Opened
  <2> QED
    BY <2>1, FreeAfter
<1> QED
  BY <1>1, <1>2, <1>3

-----------------------------------------------------------------------------
(* One lemma per action.                                                   *)

LEMMA ApprovalsFree ==
    ASSUME Inductive, FreeInv, Opened, NEW c \in Candidates, NEW decision,
           RequestApproval(c) \/ RecordApproval(c, decision)
    PROVE  FreeInv'
BY OpenFacts, StaysFree DEF RequestApproval, RecordApproval

LEMMA AbandonFree ==
    ASSUME Inductive, FreeInv, Opened, NEW c \in Candidates, AbandonFailedActivation(c)
    PROVE  FreeInv'
<1>1. /\ gov' = [gov EXCEPT !.state = "rolled-back", !.pending = None] /\ ~gov.safeMode
      /\ UNCHANGED <<registry, rt, th, intact>> /\ Flush
  BY DEF AbandonFailedActivation
<1>2. /\ gov'.current = gov.current /\ gov'.lkg = gov.lkg /\ gov'.target = gov.target
  BY <1>1, OpenFacts DEF SoundGovs
<1>3. Free(gov.lkg)
  BY <1>1, OpenFacts, SoundFree
<1>4. Withholds(gov', intact)
  BY <1>2, <1>3, OpenFacts DEF Withholds
<1> QED
  BY <1>1, <1>2, <1>3, <1>4, OpenFacts, StaysFree

LEMMA ActivateStartFree ==
    ASSUME Inductive, FreeInv, Opened, NEW c \in Candidates, ActivateStart(c), ~FlushLost
    PROVE  FreeInv'
<1>1. PICK pending : pending = [gov EXCEPT !.state = "activation-pending", !.pending = c, !.target = gov.lkg]
  OBVIOUS
<1>2. /\ ~gov.safeMode /\ UNCHANGED <<registry, intact>>
      /\ disk' = FileOf(registry, approvals, pending)
      /\ gov' = [pending EXCEPT !.state = "activating"] /\ rt' = Park(rt, c, Evolves(c))
  BY <1>1 DEF ActivateStart, Eligible
<1>3. PICK rec : rec = [Resting EXCEPT !.pc = "prepare", !.cand = c, !.snap = gov.lkg, !.prior = gov,
                                       !.wait = c \notin rt.generated,
                                       !.start = IF c \in rt.generated THEN None ELSE c]
  OBVIOUS
<1>4. /\ rec.pc = "prepare" /\ rec.cand = c /\ rec.snap = gov.lkg /\ rec.prior = gov
      /\ rec.owners = Resting.owners
      /\ rec.start = (IF c \in rt.generated THEN None ELSE c)
  BY <1>3, OpenFacts DEF SoundThreads
<1>5. Free(gov.lkg) /\ c # None
  BY <1>2, OpenFacts, SoundFree, GovernanceAssumption, RowsAssumption
<1>6. rec.start = None => c \notin Legacy
  BY <1>4, <1>5, OpenFacts DEF RunFree
<1>7. ThreadFree(rec, intact)
  BY <1>4, <1>5, <1>6, OpenFacts DEF ThreadFree, Stage, Resting
<1>8. AllFree(th', intact)
  BY <1>3, <1>7, OpenFacts, GotoFree DEF ActivateStart
<1>9. RunFree(rt')
  BY <1>2, OpenFacts, StartsFree
<1>10. /\ pending.current = gov.current /\ pending.lkg = gov.lkg /\ pending.target = gov.lkg
       /\ gov'.current = gov.current /\ gov'.lkg = gov.lkg /\ gov'.target = gov.lkg
  BY <1>1, <1>2, OpenFacts DEF SoundGovs
<1>11. Withholds(pending, intact) /\ Withholds(gov', intact)
  BY <1>5, <1>10, OpenFacts DEF Withholds
<1>12. FileFree(disk', intact)
  BY <1>2, <1>11, OpenFacts, FileOfFree
<1> QED
  BY <1>2, <1>5, <1>8, <1>9, <1>10, <1>11, <1>12, OpenFacts, FreeAfter

LEMMA ActivatePreparedFree ==
    ASSUME Inductive, FreeInv, Opened, ActivatePrepared, \A g : ~FlushAnswered(g)
    PROVE  FreeInv'
<1> DEFINE c == th["op"].cand
<1>1. th["op"].pc = "prepare" /\ UNCHANGED <<registry, gov, intact>> /\ c \in Candidates
  BY OpenFacts DEF ActivatePrepared, Placed, Inductive
<1>2. Free(gov.lkg)
  BY <1>1, OpenFacts DEF Leads, Stage
<1>3. CASE /\ \/ th["op"].start = None /\ rt' = rt
              \/ Startable(c) /\ rt' = Started(rt, c)
           /\ Goto("op", [th["op"] EXCEPT !.pc = "health", !.wait = TRUE, !.start = None])
           /\ Flush
  <2>1. PICK rec : rec = [th["op"] EXCEPT !.pc = "health", !.wait = TRUE, !.start = None]
    OBVIOUS
  <2>2. /\ rec.pc = "health" /\ rec.snap = th["op"].snap /\ rec.owners = th["op"].owners
        /\ rec.prior = th["op"].prior /\ rec.cand = c
    BY <2>1, OpenFacts DEF SoundThreads
  <2>3. c \notin Legacy
    BY <1>1, <1>3, OpenFacts, StartableFree DEF ThreadFree
  <2>4. ThreadFree(rec, intact)
    BY <2>2, <2>3, OpenFacts DEF ThreadFree, Stage
  <2>5. AllFree(th', intact)
    BY <1>3, <2>1, <2>4, OpenFacts, GotoFree
  <2>6. RunFree(rt')
    BY <1>1, <1>3, <2>3, OpenFacts, StartsFree
  <2> QED
    BY <1>1, <1>2, <1>3, <2>5, <2>6, OpenFacts, StaysFree
<1>4. ASSUME NEW clash \in BOOLEAN, UNCHANGED disk,
             Restoring("op", th["op"], "undo", th["op"].snap, registry, StartFailed(rt, c, clash))
      PROVE  FreeInv'
  <2>1. PICK r : r = StartFailed(rt, c, clash)
    OBVIOUS
  <2>2. r \in Runtimes /\ RunFree(r)
    BY <1>1, <2>1, OpenFacts, StartFailedType, FailedStartFree
  <2>3. PICK s : s = th["op"].snap
    OBVIOUS
  <2>4. RunFree(rt') /\ AllFree(th', intact)
    BY <1>4, <2>1, <2>2, <2>3, OpenFacts, RestoringFree
  <2> QED
    BY <1>1, <1>2, <1>4, <2>4, OpenFacts, StaysFree
<1>5. CASE \E r \in Prepared(c) :
              /\ rt' = r
              /\ Goto("op", [th["op"] EXCEPT !.pc = "health", !.wait = TRUE, !.start = None])
              /\ Flush
  BY <1>3, <1>5 DEF Prepared
<1> QED
  BY <1>4, <1>5 DEF ActivatePrepared, Clashes

LEMMA ActivateHealthyFree ==
    ASSUME Inductive, FreeInv, Opened, ActivateHealthy
    PROVE  FreeInv'
<1> DEFINE c == th["op"].cand
<1>1. /\ th["op"].pc = "health" /\ UNCHANGED <<gov, intact, disk>> /\ c \in Candidates /\ c \in Rows
      /\ c \notin Legacy
  BY OpenFacts, RowsAssumption DEF ActivateHealthy, Placed, Inductive, ThreadFree
<1>2. Free(gov.lkg)
  BY <1>1, OpenFacts DEF Leads, Stage
<1>3. CASE /\ registry' = CommitRow(registry, c) /\ rt' = DiscardParked(rt, {c})
           /\ Goto("op", [th["op"] EXCEPT !.pc = "commit", !.wait = rt.parked[c] # {}])
  <2>1. PICK rec : rec = [th["op"] EXCEPT !.pc = "commit", !.wait = rt.parked[c] # {}]
    OBVIOUS
  <2>2. /\ rec.pc = "commit" /\ rec.snap = th["op"].snap /\ rec.owners = th["op"].owners
        /\ rec.prior = th["op"].prior
    BY <2>1, OpenFacts DEF SoundThreads
  <2>3. Goto("op", rec) /\ Stage(rec) # "revert"
    BY <1>3, <2>1, <2>2 DEF Stage
  <2>4. AllFree(th', intact)
    BY <2>2, <2>3, OpenFacts, GoingOnFree
  <2>5. RunFree(rt') /\ Withheld(registry')
    BY <1>1, <1>3, OpenFacts, StopsFree, RegistryFree
  <2> QED
    BY <1>1, <1>2, <2>4, <2>5, OpenFacts, StaysFree
<1>4. CASE /\ registry' = SetStatus(registry, Outgoing(registry, c), "disabled")
           /\ Restoring("op", th["op"], "undo", th["op"].snap, registry', rt)
  <2>1. Withheld(registry')
    BY <1>4, OpenFacts, RegistryFree
  <2>2. PICK s, reg : s = th["op"].snap /\ reg = registry'
    OBVIOUS
  <2>3. RunFree(rt') /\ AllFree(th', intact)
    BY <1>4, <2>1, <2>2, OpenFacts, RestoringFree
  <2> QED
    BY <1>1, <1>2, <2>1, <2>3, OpenFacts, StaysFree
<1> QED
  BY <1>3, <1>4 DEF ActivateHealthy

LEMMA ActivateUnhealthyFree ==
    ASSUME Inductive, FreeInv, Opened, ActivateUnhealthy
    PROVE  FreeInv'
<1>1. PICK s : s = th["op"].snap
  OBVIOUS
<1>2. RunFree(rt') /\ AllFree(th', intact)
  BY <1>1, OpenFacts, RestoringFree DEF ActivateUnhealthy
<1>3. Free(gov.lkg)
  BY OpenFacts DEF Leads, Stage, ActivateUnhealthy
<1> QED
  BY <1>2, <1>3, OpenFacts, StaysFree DEF ActivateUnhealthy

LEMMA ActivateCommittedFree ==
    ASSUME Inductive, FreeInv, Opened, ActivateCommitted, \A g : ~FlushAnswered(g)
    PROVE  FreeInv'
<1>1. PICK c : c = th["op"].cand
  OBVIOUS
<1>2. PICK done : done = Capture(registry, Mounted(rt, c))
  OBVIOUS
<1>5. /\ gov' = [gov EXCEPT !.current = done, !.lkg = done, !.state = "active", !.pending = None,
                            !.failure = NoFailure, !.integrity = TRUE]
      /\ UNCHANGED <<registry, intact>> /\ rt' = Mounted(rt, c) /\ Rest("op") /\ Flush /\ c \in Candidates
  BY <1>1, <1>2, OpenFacts DEF ActivateCommitted, Release, Placed
<1>6. Free(done)
  BY <1>2, OpenFacts DEF Withheld, Free, Capture
<1>7. gov'.current = done /\ gov'.lkg = done /\ gov'.target = gov.target
  BY <1>5, OpenFacts DEF SoundGovs
<1>8. Withholds(gov', intact)
  BY <1>6, <1>7, OpenFacts DEF Withholds
<1>9. RunFree(rt') /\ AllFree(th', intact)
  BY <1>5, OpenFacts, StartsFree, RestFree
<1> QED
  BY <1>5, <1>6, <1>7, <1>8, <1>9, OpenFacts, StaysFree

LEMMA ActivateUndoneFree ==
    ASSUME Inductive, FreeInv, Opened, ActivateUndone, ~FlushLost
    PROVE  FreeInv'
<1>1. Withheld(registry')
  BY OpenFacts, RegistryFree DEF ActivateUndone, RestoredRegistry, Free
<1>2. PICK now : now = Capture(registry', rt)
  OBVIOUS
<1>3. Free(now)
  BY <1>1, <1>2 DEF Withheld, Free, Capture
<1>4. gov'.current = now /\ gov'.lkg = th["op"].snap /\ gov'.target = gov.target
  BY <1>2, OpenFacts DEF ActivateUndone, SoundGovs
<1>5. Withholds(gov', intact) /\ Free(gov'.lkg)
  BY <1>3, <1>4, OpenFacts DEF Withholds
<1>6. rt' = rt /\ intact' = intact /\ Rest("op") /\ Flush
  BY DEF ActivateUndone, Release
<1>7. AllFree(th', intact)
  BY <1>6, OpenFacts, RestFree
<1> QED
  BY <1>1, <1>5, <1>6, <1>7, OpenFacts, StaysFree

LEMMA StartRollbackFree ==
    ASSUME Inductive, NEW whole, AllFree(th, whole), NEW K, NEW g \in SoundGovs(K), NEW prior \in SoundGovs(K),
           NEW r \in Runtimes, StartRollback(g, prior, r), Withholds(g, whole), Withholds(prior, whole),
           RunFree(r), Withheld(registry)
    PROVE  /\ RunFree(rt') /\ AllFree(th', whole)
           /\ th'["op"].then = "none" /\ Stage(th'["op"]) = "rollback"
<1>1. PICK here, s : here = [Resting EXCEPT !.prior = prior, !.cand = None] /\ s = Fallback(g)
  OBVIOUS
<1>2. Resting \in SoundThreads(Rows)
  BY RestingSound
<1>3. prior \in SoundGovs(K \cup Rows) /\ Resting \in SoundThreads(K \cup Rows)
  BY <1>2, SoundMonotone
<1>4. here \in SoundThreads(K \cup Rows) /\ here.prior = prior /\ here.then = "none"
  BY <1>1, <1>3 DEF SoundThreads, Resting
<1>5. Free(s)
  BY <1>1, FallbackFree
<1>6. Restoring("op", here, "rollback", s, registry, r)
  BY <1>1 DEF StartRollback
<1>7. RunFree(rt') /\ AllFree(th', whole)
  BY <1>4, <1>5, <1>6, OpApart, RestoringFree
<1>8. th'["op"].pc = "restore" /\ th'["op"].ret = "rollback" /\ th'["op"].then = "none"
  BY <1>4, <1>6, OpApart, RestoringMoves
<1> QED
  BY <1>7, <1>8 DEF Stage

LEMMA RollbackFree ==
    ASSUME Inductive, FreeInv, Opened, Rollback, ~FlushLost
    PROVE  FreeInv'
<1>1. PICK pending : pending = [gov EXCEPT !.state = "rollback-pending"]
  OBVIOUS
<1>2. /\ gov' = pending /\ UNCHANGED <<registry, intact>> /\ Flush /\ StartRollback(pending, gov, rt)
  BY <1>1 DEF Rollback
<1>3. /\ pending.current = gov.current /\ pending.lkg = gov.lkg /\ pending.target = gov.target
      /\ pending.safeMode = gov.safeMode /\ pending.failure = gov.failure /\ pending.integrity = gov.integrity
      /\ pending.state = "rollback-pending" /\ pending \in SoundGovs(Known(registry))
  BY <1>1, OpenFacts DEF SoundGovs, ActivationStates
<1>4. Withholds(pending, intact)
  BY <1>3, OpenFacts DEF Withholds, Spoilt
<1>5. RunFree(rt') /\ AllFree(th', intact) /\ th'["op"].then = "none" /\ Stage(th'["op"]) = "rollback"
  BY <1>2, <1>3, <1>4, OpenFacts, StartRollbackFree
<1> QED
  BY <1>2, <1>4, <1>5, OpenFacts, StaysFree DEF Leads

(* A failed rollback on its way back: what it was before is free. *)
LEMMA RecoveringFree ==
    ASSUME Inductive, FreeInv, Opened, NEW g, NEW reg \in Registries, Recovering(th["op"], g, reg, rt),
           SaveRegistry(disk), Withholds(g, intact), Withheld(reg), intact' = intact, g.lkg = gov.lkg,
           Stage(th["op"]) \notin {"prepare", "health", "commit", "undo"}
    PROVE  FreeInv'
<1>1. PICK here, s : here = th["op"] /\ s = here.prior.current
  OBVIOUS
<1>2. Free(s) /\ Withholds(here.prior, intact) /\ here \in SoundThreads(Known(registry))
  BY <1>1, OpenFacts DEF Withholds
<1>3. /\ gov' = g /\ registry' = reg /\ Restoring("op", here, "recover", s, reg, rt)
  BY <1>1 DEF Recovering
<1>4. RunFree(rt') /\ AllFree(th', intact)
  BY <1>2, <1>3, OpenFacts, RestoringFree
<1>5. th'["op"].pc = "restore" /\ th'["op"].ret = "recover" /\ th'["op"].then = th["op"].then
  BY <1>1, <1>2, <1>3, OpenFacts, RestoringMoves
<1>6. Leads(th'["op"]) => Free(gov'.lkg)
  BY <1>3, <1>5, OpenFacts DEF Leads, Stage
<1> QED
  BY <1>3, <1>4, <1>6, OpenFacts, StaysFree

LEMMA RestoredFree ==
    ASSUME Inductive, FreeInv, Opened, NEW t \in Threads
    PROVE  /\ RestoredRegistry(t) \in Registries /\ Withheld(RestoredRegistry(t))
           /\ Free(Capture(RestoredRegistry(t), rt))
<1>1. RestoredRegistry(t) \in Registries
  BY RestoredRegistrySound DEF SoundRegistries
<1>2. PICK owners : owners = (IF th[t].ok THEN th[t].snap.owners ELSE th[t].owners)
  OBVIOUS
<1>3. owners \cap Legacy = {}
  BY <1>2, OpenFacts DEF AllFree, ThreadFree, Free
<1>4. Withheld(RestoredRegistry(t))
  BY <1>2, <1>3, OpenFacts, RegistryFree DEF RestoredRegistry
<1> QED
  BY <1>1, <1>4 DEF Withheld, Free, Capture

LEMMA RollbackRestoredFree ==
    ASSUME Inductive, FreeInv, Opened, RollbackRestored
    PROVE  FreeInv'
<1>1. PICK here, reg : here = th["op"] /\ reg = RestoredRegistry("op")
  OBVIOUS
<1>2. reg \in Registries /\ Withheld(reg)
  BY <1>1, OpenFacts, RestoredFree
<1>3. PICK back : back = [gov EXCEPT !.lkg = here.snap, !.current = here.snap, !.state = "rolled-back",
                                     !.pending = None]
  OBVIOUS
<1>4. CASE Remounting("op", here, "rollback", reg, back, rt, disk)
  <2>1. back.current = here.snap /\ back.lkg = here.snap /\ back.target = gov.target
    BY <1>3, OpenFacts DEF SoundGovs
  <2>2. Withholds(back, intact) /\ Free(back.lkg)
    BY <1>1, <2>1, OpenFacts DEF Withholds
  <2>3. back \in SoundGovs(Known(registry))
    BY <1>1, <1>3, OpenFacts, ThreadFacts DEF SoundGovs, ActivationStates
  <2>4. /\ RunFree(rt') /\ AllFree(th', intact) /\ Withheld(registry') /\ Withholds(gov', intact)
        /\ gov'.lkg = back.lkg
    BY <1>1, <1>2, <1>4, <2>2, <2>3, OpenFacts, RemountingFree
  <2>5. SaveRegistry(disk) /\ intact' = intact
    BY <1>4 DEF Remounting, RollbackRestored
  <2> QED
    BY <2>2, <2>4, <2>5, OpenFacts, StaysFree
<1>5. CASE Recovering(here, gov, reg, rt) /\ SaveRegistry(disk)
  BY <1>1, <1>2, <1>5, OpenFacts, RecoveringFree DEF Stage, RollbackRestored
<1> QED
  BY <1>1, <1>3, <1>4, <1>5 DEF RollbackRestored

LEMMA RollbackMountedFree ==
    ASSUME Inductive, FreeInv, Opened, RollbackMounted, \A g : ~FlushAnswered(g)
    PROVE  FreeInv'
<1>1. PICK ok : ok = Restored(registry, th["op"].snap) /\ ok \in BOOLEAN
  BY DEF Restored
<1>2. PICK now : now = Capture(registry, rt)
  OBVIOUS
<1>3. PICK done : done = [gov EXCEPT !.current = now, !.integrity = ok]
  OBVIOUS
<1>4. /\ done.current = now /\ done.lkg = gov.lkg /\ done.target = gov.target
      /\ Free(now) /\ Free(gov.lkg)
  BY <1>2, <1>3, OpenFacts DEF SoundGovs, Leads, RollbackMounted, Withheld, Free, Capture
<1>5. Withholds(done, intact) /\ Free(done.lkg)
  BY <1>4, OpenFacts DEF Withholds
<1>6. done \in SoundGovs(Known(registry))
  <2>1. now \in SoundSnapshots(Known(registry))
    BY <1>2, CaptureSound DEF Inductive
  <2> QED
    BY <1>1, <1>3, <2>1, OpenFacts DEF SoundGovs
<1>7. intact' = intact
  BY DEF RollbackMounted
<1>8. ASSUME NEW d, d = FileOf(registry, approvals, done),
             Remounting("op", Resting, "boot", registry, done, rt, d)
      PROVE  FreeInv'
  <2>1. ThreadFree(Resting, intact)
    BY HomeFree
  <2>2. /\ RunFree(rt') /\ AllFree(th', intact) /\ Withheld(registry') /\ Withholds(gov', intact)
        /\ gov'.lkg = done.lkg
    BY <1>5, <1>6, <1>8, <2>1, OpenFacts, RemountingFree
  <2>3. SaveRegistry(d)
    BY <1>8 DEF Remounting
  <2>4. FileFree(disk', intact)
    BY <1>5, <1>8, <2>2, <2>3, OpenFacts, FileOfSavedFree
  <2> QED
    BY <1>5, <1>7, <2>2, <2>4, FreeAfter
<1>9. CASE gov' = done /\ UNCHANGED <<registry, rt>> /\ Release /\ Flush
  <2>1. AllFree(th', intact)
    BY <1>9, OpenFacts, RestFree DEF Release
  <2> QED
    BY <1>5, <1>7, <1>9, <2>1, OpenFacts, StaysFree
<1>10. CASE Recovering(th["op"], done, registry, rt) /\ SaveRegistry(disk)
  BY <1>4, <1>5, <1>7, <1>10, OpenFacts, RecoveringFree DEF Stage, RollbackMounted
<1> QED
  BY <1>1, <1>2, <1>3, <1>8, <1>9, <1>10 DEF RollbackMounted

LEMMA HaltFree ==
    ASSUME Halt, NEW whole
    PROVE  RunFree(rt') /\ rt'.generated = {} /\ AllFree(th', whole) /\ ~Leads(th'["op"])
<1>1. rt' = FreshRuntime /\ \A t \in Threads : th'[t] = Resting
  BY DEF Halt
<1> QED
  BY <1>1, HomeFree, OpApart DEF AllFree

LEMMA RollbackRecoveredFree ==
    ASSUME Inductive, FreeInv, Opened, RollbackRecovered, ~FlushLost,
           spent' # [spent EXCEPT !.faults = @ + 1]
    PROVE  FreeInv'
<1>1. PICK here, reg : here = th["op"] /\ reg = RestoredRegistry("op")
  OBVIOUS
<1>2. reg \in Registries /\ Withheld(reg)
  BY <1>1, OpenFacts, RestoredFree
<1>3. CASE /\ registry' = reg /\ gov' = [here.prior EXCEPT !.pending = gov.pending] /\ Flush
           /\ Halt \/ (Rest("op") /\ UNCHANGED rt)
  <2>1. /\ gov'.current = here.prior.current /\ gov'.lkg = here.prior.lkg /\ gov'.target = here.prior.target
        /\ gov'.safeMode = here.prior.safeMode /\ gov'.failure = here.prior.failure
        /\ gov'.integrity = here.prior.integrity /\ gov'.state = here.prior.state
    BY <1>1, <1>3, OpenFacts, ThreadFacts DEF SoundGovs
  <2>2. Withholds(gov', intact)
    BY <1>1, <2>1, OpenFacts DEF Withholds, Spoilt
  <2>3. RunFree(rt') /\ AllFree(th', intact) /\ ~Leads(th'["op"])
    <3>1. CASE Halt
      BY <3>1, HaltFree
    <3>2. CASE Rest("op") /\ UNCHANGED rt
      BY <3>2, OpenFacts, RestFree, HomeFree, Moved DEF Rest
    <3> QED
      BY <1>3, <3>1, <3>2
  <2> QED
    BY <1>2, <1>3, <2>2, <2>3, StaysFree DEF RollbackRecovered
<1>4. CASE /\ FailingClosed("op", here, "shut", reg, gov, rt)
           /\ disk' = FileOf(registry', approvals, gov)
  <2>1. /\ RunFree(rt') /\ AllFree(th', intact) /\ Withheld(registry') /\ Withholds(gov', intact)
        /\ gov'.lkg = gov.lkg
    BY <1>1, <1>2, <1>4, OpenFacts, FailingClosedFree
  <2>2. th'["op"].pc = "shut" /\ th'["op"].then = th["op"].then
    BY <1>1, <1>4, OpenFacts, FailingClosedMoves
  <2>3. Leads(th'["op"]) => Free(gov'.lkg)
    BY <2>1, <2>2, OpenFacts DEF Leads, Stage
  <2>4. FileFree(disk', intact)
    BY <1>4, <2>1, OpenFacts, FileOfFree
  <2> QED
    BY <2>1, <2>3, <2>4, OpenFacts, FreeAfter DEF RollbackRecovered
<1> QED
  BY <1>1, <1>3, <1>4 DEF RollbackRecovered

LEMMA RollbackClosedFree ==
    ASSUME Inductive, FreeInv, Opened, RollbackClosed
    PROVE  FreeInv'
<1>1. PICK failure : failure = Failure(Blamed(gov), FALSE, TRUE)
  OBVIOUS
<1>2. PICK closed : closed = [gov EXCEPT !.failure = failure]
  OBVIOUS
<1>3. PICK drop : drop = th["op"].drop
  OBVIOUS
<1>4. PICK r : r = Dropped(rt, drop)
  OBVIOUS
<1>5. failure \in Failures /\ failure.safeRequired
  BY <1>1, OpenFacts, FailureTyped DEF Failure
<1>6. /\ closed.current = gov.current /\ closed.lkg = gov.lkg /\ closed.target = gov.target
      /\ closed.safeMode = gov.safeMode /\ closed.failure = failure /\ closed.integrity = gov.integrity
      /\ closed.state = gov.state /\ closed \in SoundGovs(Known(registry))
  BY <1>2, <1>5, OpenFacts DEF SoundGovs
<1>7. Withholds(closed, intact)
  BY <1>5, <1>6, OpenFacts DEF Withholds, Spoilt
<1>8. r \in Runtimes /\ RunFree(r)
  BY <1>4, OpenFacts, StopTypes, StopsFree
<1>9. ThreadFree(Resting, intact) /\ ~Leads(Resting)
  BY HomeFree
<1>10. ASSUME NEW d, d = FileOf(registry, approvals, closed),
              Remounting("op", Resting, "boot", registry, closed, r, d)
       PROVE  FreeInv'
  <2>1. /\ RunFree(rt') /\ AllFree(th', intact) /\ Withheld(registry') /\ Withholds(gov', intact)
    BY <1>6, <1>7, <1>8, <1>9, <1>10, OpenFacts, RemountingFree
  <2>2. th'["op"].pc \in {"mounted", "close", "mount"} /\ th'["op"].then = "boot"
    BY <1>6, <1>10, OpenFacts, RemountingMoves
  <2>3. SaveRegistry(d)
    BY <1>10 DEF Remounting
  <2>4. FileFree(disk', intact)
    BY <1>7, <1>10, <2>1, <2>3, OpenFacts, FileOfSavedFree
  <2>5. ~Leads(th'["op"])
    BY <2>2 DEF Leads, Stage
  <2> QED
    BY <2>1, <2>4, <2>5, FreeAfter DEF RollbackClosed
<1>11. CASE /\ gov' = closed /\ rt' = r /\ Rest("op") /\ UNCHANGED registry
            /\ disk' = FileOf(registry, approvals, closed)
  <2>1. AllFree(th', intact) /\ th'["op"] = Resting
    BY <1>11, OpenFacts, RestFree, Moved DEF Rest
  <2>2. FileFree(disk', intact)
    BY <1>7, <1>11, OpenFacts, FileOfFree
  <2> QED
    BY <1>7, <1>8, <1>9, <1>11, <2>1, <2>2, OpenFacts, FreeAfter DEF RollbackClosed
<1> QED
  BY <1>1, <1>2, <1>3, <1>4, <1>10, <1>11 DEF RollbackClosed

LEMMA RestoreDroppedFree ==
    ASSUME Inductive, FreeInv, Opened, NEW t \in Threads, RestoreDropped(t)
    PROVE  FreeInv'
<1>1. PICK drop : drop = th[t].drop
  OBVIOUS
<1>2. PICK r : r = Dropped(rt, drop)
  OBVIOUS
<1>3. r \in Runtimes /\ RunFree(r) /\ RestoreLoop(t, r) /\ UNCHANGED <<registry, gov, disk, intact>>
  BY <1>1, <1>2, OpenFacts, StopTypes, StopsFree DEF RestoreDropped
<1>4. RunFree(rt') /\ AllFree(th', intact) /\ Stage(th'[t]) = Stage(th[t]) /\ th'[t].then = th[t].then
  BY <1>3, OpenFacts, RestoreLoopFree DEF RestoreDropped
<1>5. \A u \in Threads : u # t => th'[u] = th[u]
  BY <1>3, Moved DEF RestoreLoop
<1>6. Leads(th'["op"]) => Free(gov'.lkg)
  BY <1>3, <1>4, <1>5, OpenFacts DEF Leads
<1> QED
  BY <1>3, <1>4, <1>6, OpenFacts, StaysFree

LEMMA RestoreStartedFree ==
    ASSUME Inductive, FreeInv, Opened, NEW t \in Threads, RestoreStarted(t)
    PROVE  FreeInv'
<1>1. PICK c : c = th[t].start
  OBVIOUS
<1>2. c \in Candidates /\ UNCHANGED <<registry, gov, disk, intact>>
  BY <1>1, ThreadFacts DEF RestoreStarted, Placed
<1>3. CASE Startable(c) /\ RestoreLoop(t, Mounted(DiscardParked(Started(rt, c), {c}), c))
  <2>1. PICK p : p = Started(rt, c)
    OBVIOUS
  <2>2. PICK q : q = DiscardParked(p, {c})
    OBVIOUS
  <2>3. PICK r : r = Mounted(q, c)
    OBVIOUS
  <2>4. p \in Runtimes /\ RunFree(p)
    <3>1. p \in Runtimes
      BY <1>2, <2>1, OpenFacts DEF Started, Runtimes
    <3> QED
      BY <1>2, <1>3, <2>1, <3>1, OpenFacts, StartsFree, StartableFree
  <2>5. q \in Runtimes /\ RunFree(q)
    BY <2>2, <2>4, StopTypes, StopsFree
  <2>6. r \in Runtimes /\ RunFree(r)
    <3>1. r \in Runtimes
      BY <1>2, <2>3, <2>5 DEF Mounted, Runtimes
    <3> QED
      BY <1>2, <2>3, <2>5, <3>1, StartsFree
  <2>7. RestoreLoop(t, r)
    BY <1>3, <2>1, <2>2, <2>3
  <2>8. RunFree(rt') /\ AllFree(th', intact) /\ Stage(th'[t]) = Stage(th[t]) /\ th'[t].then = th[t].then
    BY <2>6, <2>7, OpenFacts, RestoreLoopFree DEF RestoreStarted
  <2>9. \A u \in Threads : u # t => th'[u] = th[u]
    BY <2>7, Moved DEF RestoreLoop
  <2>10. Leads(th'["op"]) => Free(gov'.lkg)
    BY <1>2, <2>8, <2>9, OpenFacts DEF Leads
  <2> QED
    BY <1>2, <2>8, <2>10, OpenFacts, StaysFree
<1>4. CASE rt' = StartFailed(rt, c, FALSE) /\ Goto(t, RestoreEnded(th[t], FALSE))
  <2>1. RunFree(rt')
    BY <1>2, <1>4, OpenFacts, FailedStartFree
  <2>2. AllFree(th', intact) /\ Stage(th'[t]) = Stage(th[t]) /\ th'[t].then = th[t].then
    BY <1>4, OpenFacts, RestoreEndedFree DEF RestoreStarted
  <2>3. \A u \in Threads : u # t => th'[u] = th[u]
    BY <1>4, Moved
  <2>4. Leads(th'["op"]) => Free(gov'.lkg)
    BY <1>2, <2>2, <2>3, OpenFacts DEF Leads
  <2> QED
    BY <1>2, <2>1, <2>2, <2>4, OpenFacts, StaysFree
<1> QED
  BY <1>1, <1>3, <1>4 DEF RestoreStarted

(* A step within the remount. *)
LEMMA MountMoves ==
    ASSUME Inductive, FreeInv, Opened, NEW t \in Threads, NEW rec, Goto(t, rec),
           rec.snap = th[t].snap, rec.owners = th[t].owners, rec.prior = th[t].prior, rec.then = th[t].then,
           rec.pc \in MountPoints
    PROVE  AllFree(th', intact) /\ (Leads(th'["op"]) => Free(gov.lkg))
<1>1. Stage(rec) # "revert" /\ rec.pc \notin {"prepare", "health"}
  BY DEF Stage, MountPoints
<1>2. AllFree(th', intact)
  BY <1>1, OpenFacts, GoingOnFree
<1>3. th'[t] = rec /\ \A u \in Threads : u # t => th'[u] = th[u]
  BY Moved
<1>4. Leads(th'["op"]) => Leads(th["op"])
  BY <1>3, OpenFacts DEF Leads, Stage, MountPoints
<1> QED
  BY <1>2, <1>4, OpenFacts

LEMMA MountNextFree ==
    ASSUME Inductive, FreeInv, Opened, NEW t \in Threads, MountNext(t)
    PROVE  FreeInv'
<1>1. PICK c \in th[t].todo :
         \/ rt' = Mounted(DiscardParked(rt, {c}), c) /\ Goto(t, [th[t] EXCEPT !.todo = @ \ {c}])
         \/ /\ rt' = Park(rt, c, Evolves(c))
            /\ Goto(t, [th[t] EXCEPT !.pc = "mounting", !.wait = TRUE, !.todo = @ \ {c}, !.start = c])
  BY DEF MountNext
<1>2. UNCHANGED <<registry, gov, disk, intact>> /\ th[t].pc = "mount" /\ c \in Candidates
  BY <1>1, ThreadFacts DEF MountNext, Placed
<1>3. th[t] \in SoundThreads(Known(registry))
  BY ThreadFacts
<1>4. CASE rt' = Mounted(DiscardParked(rt, {c}), c) /\ Goto(t, [th[t] EXCEPT !.todo = @ \ {c}])
  <2>1. PICK q : q = DiscardParked(rt, {c})
    OBVIOUS
  <2>2. q \in Runtimes /\ RunFree(q)
    BY <2>1, OpenFacts, StopTypes, StopsFree
  <2>3. RunFree(rt')
    BY <1>2, <1>4, <2>1, <2>2, StartsFree
  <2>4. PICK rec : rec = [th[t] EXCEPT !.todo = @ \ {c}]
    OBVIOUS
  <2>5. /\ rec.pc = "mount" /\ rec.snap = th[t].snap /\ rec.owners = th[t].owners
        /\ rec.prior = th[t].prior /\ rec.then = th[t].then
    BY <1>2, <1>3, <2>4 DEF SoundThreads
  <2>6. AllFree(th', intact) /\ (Leads(th'["op"]) => Free(gov.lkg))
    BY <1>4, <2>4, <2>5, MountMoves DEF MountPoints
  <2> QED
    BY <1>2, <2>3, <2>6, OpenFacts, StaysFree
<1>5. CASE /\ rt' = Park(rt, c, Evolves(c))
           /\ Goto(t, [th[t] EXCEPT !.pc = "mounting", !.wait = TRUE, !.todo = @ \ {c}, !.start = c])
  <2>1. RunFree(rt')
    BY <1>2, <1>5, OpenFacts, StartsFree
  <2>2. PICK rec : rec = [th[t] EXCEPT !.pc = "mounting", !.wait = TRUE, !.todo = @ \ {c}, !.start = c]
    OBVIOUS
  <2>3. /\ rec.pc = "mounting" /\ rec.snap = th[t].snap /\ rec.owners = th[t].owners
        /\ rec.prior = th[t].prior /\ rec.then = th[t].then
    BY <1>3, <2>2 DEF SoundThreads
  <2>4. AllFree(th', intact) /\ (Leads(th'["op"]) => Free(gov.lkg))
    BY <1>5, <2>2, <2>3, MountMoves DEF MountPoints
  <2> QED
    BY <1>2, <2>1, <2>4, OpenFacts, StaysFree
<1> QED
  BY <1>1, <1>4, <1>5

LEMMA MountStartedFree ==
    ASSUME Inductive, FreeInv, Opened, NEW t \in Threads, MountStarted(t)
    PROVE  FreeInv'
<1>1. PICK c : c = th[t].start
  OBVIOUS
<1>2. UNCHANGED <<registry, gov, disk, intact>> /\ th[t].pc = "mounting" /\ c \in Candidates
  BY <1>1, ThreadFacts DEF MountStarted, Placed
<1>3. th[t] \in SoundThreads(Known(registry)) /\ th[t].snap \in SoundSnapshots(Known(registry))
  BY ThreadFacts
<1>4. CASE /\ Startable(c) /\ rt' = Mounted(DiscardParked(Started(rt, c), {c}), c)
           /\ Goto(t, [th[t] EXCEPT !.pc = "mount", !.wait = FALSE, !.start = None])
  <2>1. PICK p : p = Started(rt, c)
    OBVIOUS
  <2>2. PICK q : q = DiscardParked(p, {c})
    OBVIOUS
  <2>3. p \in Runtimes /\ RunFree(p)
    <3>1. p \in Runtimes
      BY <1>2, <2>1, OpenFacts DEF Started, Runtimes
    <3> QED
      BY <1>2, <1>4, <2>1, <3>1, OpenFacts, StartsFree, StartableFree
  <2>4. q \in Runtimes /\ RunFree(q)
    BY <2>2, <2>3, StopTypes, StopsFree
  <2>5. RunFree(rt')
    BY <1>2, <1>4, <2>1, <2>2, <2>4, StartsFree
  <2>6. PICK rec : rec = [th[t] EXCEPT !.pc = "mount", !.wait = FALSE, !.start = None]
    OBVIOUS
  <2>7. /\ rec.pc = "mount" /\ rec.snap = th[t].snap /\ rec.owners = th[t].owners
        /\ rec.prior = th[t].prior /\ rec.then = th[t].then
    BY <1>3, <2>6 DEF SoundThreads
  <2>8. AllFree(th', intact) /\ (Leads(th'["op"]) => Free(gov.lkg))
    BY <1>4, <2>6, <2>7, MountMoves DEF MountPoints
  <2> QED
    BY <1>2, <2>5, <2>8, OpenFacts, StaysFree
<1>5. ASSUME NEW clash \in BOOLEAN,
             Restoring(t, th[t], "clear", [owners |-> th[t].snap.owners, mounted |-> {}], registry,
                       StartFailed(rt, c, clash))
      PROVE  FreeInv'
  <2>1. PICK here, r, s : /\ here = th[t] /\ r = StartFailed(rt, c, clash)
                          /\ s = [owners |-> th[t].snap.owners, mounted |-> {}]
    OBVIOUS
  <2>2. r \in Runtimes /\ RunFree(r)
    BY <1>2, <2>1, OpenFacts, StartFailedType, FailedStartFree
  <2>3. Free(s) /\ Withholds(here.prior, intact)
    BY <2>1, OpenFacts DEF AllFree, ThreadFree, Free
  <2>4. Restoring(t, here, "clear", s, registry, r)
    BY <1>5, <2>1
  <2>5. RunFree(rt') /\ AllFree(th', intact)
    BY <1>3, <2>1, <2>2, <2>3, <2>4, OpenFacts, RestoringFree
  <2>6. /\ th'[t].pc = "restore" /\ th'[t].ret = "clear" /\ th'[t].then = th[t].then
        /\ \A u \in Threads : u # t => th'[u] = th[u]
    BY <1>3, <2>1, <2>4, RestoringMoves
  <2>7. Leads(th'["op"]) => Leads(th["op"])
    BY <2>6, OpenFacts DEF Leads, Stage
  <2> QED
    BY <1>2, <2>5, <2>7, OpenFacts, StaysFree
<1> QED
  BY <1>1, <1>4, <1>5 DEF MountStarted, Clashes

LEMMA MountsDoneFree ==
    ASSUME Inductive, FreeInv, Opened, NEW t \in Threads, MountsDone(t)
    PROVE  FreeInv'
<1>1. PICK rec : rec = [th[t] EXCEPT !.pc = "mounted", !.wait = FALSE]
  OBVIOUS
<1>2. /\ rec.pc = "mounted" /\ rec.snap = th[t].snap /\ rec.owners = th[t].owners
      /\ rec.prior = th[t].prior /\ rec.then = th[t].then
  BY <1>1, ThreadFacts DEF SoundThreads
<1>3. Goto(t, rec) /\ UNCHANGED <<registry, rt, intact>>
  BY <1>1 DEF MountsDone
<1>4. AllFree(th', intact) /\ (Leads(th'["op"]) => Free(gov.lkg))
  BY <1>2, <1>3, MountMoves DEF MountPoints
<1>5. CASE UNCHANGED <<gov, disk>>
  BY <1>3, <1>4, <1>5, OpenFacts, StaysFree
<1>6. CASE gov' = Adopted(gov, Capture(registry, rt)) /\ Flush
  <2>1. PICK now : now = Capture(registry, rt)
    OBVIOUS
  <2>2. Free(now)
    BY <2>1, OpenFacts DEF Withheld, Free, Capture
  <2>3. gov'.current = now /\ gov'.lkg = now /\ gov'.target = now
    BY <1>6, <2>1, OpenFacts DEF Adopted, SoundGovs
  <2>4. Withholds(gov', intact)
    BY <2>2, <2>3 DEF Withholds
  <2> QED
    BY <1>3, <1>4, <1>6, <2>2, <2>3, <2>4, OpenFacts, StaysFree
<1> QED
  BY <1>5, <1>6 DEF MountsDone

LEMMA MountsClearedFree ==
    ASSUME Inductive, FreeInv, Opened, NEW t \in Threads, MountsCleared(t)
    PROVE  FreeInv'
<1>1. PICK here : here = th[t]
  OBVIOUS
<1>2. here \in SoundThreads(Known(registry)) /\ ThreadFree(here, intact)
  BY <1>1, OpenFacts, ThreadFacts DEF AllFree
<1>3. /\ RunFree(rt') /\ AllFree(th', intact) /\ Withheld(registry') /\ Withholds(gov', intact)
      /\ gov'.lkg = gov.lkg
  BY <1>1, <1>2, OpenFacts, FailingClosedFree DEF MountsCleared
<1>4. th'[t].pc = "close" /\ th'[t].then = th[t].then /\ \A u \in Threads : u # t => th'[u] = th[u]
  BY <1>1, <1>2, OpenFacts, FailingClosedMoves DEF MountsCleared
<1>5. Leads(th'["op"]) => Leads(th["op"])
  BY <1>4, OpenFacts DEF Leads, Stage
<1> QED
  BY <1>3, <1>5, OpenFacts, StaysFree DEF MountsCleared

LEMMA ClosedFree ==
    ASSUME Inductive, FreeInv, Opened, NEW t \in Threads, Closed(t)
    PROVE  FreeInv'
<1>1. PICK rec : rec = [th[t] EXCEPT !.pc = "mounted", !.wait = FALSE, !.drop = {}]
  OBVIOUS
<1>2. /\ rec.pc = "mounted" /\ rec.snap = th[t].snap /\ rec.owners = th[t].owners
      /\ rec.prior = th[t].prior /\ rec.then = th[t].then
  BY <1>1, ThreadFacts DEF SoundThreads
<1>3. AllFree(th', intact) /\ (Leads(th'["op"]) => Free(gov.lkg))
  BY <1>1, <1>2, MountMoves DEF MountPoints, Closed
<1>4. PICK failure : failure = Failure(Blamed(gov), FALSE, TRUE)
  OBVIOUS
<1>5. failure.safeRequired /\ gov' = [gov EXCEPT !.failure = failure]
  BY <1>4 DEF Failure, Closed
<1>6. /\ gov'.current = gov.current /\ gov'.lkg = gov.lkg /\ gov'.target = gov.target
      /\ gov'.safeMode = gov.safeMode /\ gov'.failure = failure /\ gov'.integrity = gov.integrity
      /\ gov'.state = gov.state
  BY <1>5, OpenFacts DEF SoundGovs
<1>7. Withholds(gov', intact)
  BY <1>5, <1>6, OpenFacts DEF Withholds, Spoilt
<1>8. PICK drop : drop = th[t].drop
  OBVIOUS
<1>9. RunFree(rt')
  BY <1>8, OpenFacts, StopsFree DEF Closed
<1> QED
  BY <1>3, <1>6, <1>7, <1>9, OpenFacts, StaysFree DEF Closed

LEMMA EnterSafeModeFree ==
    ASSUME Inductive, FreeInv, Opened, EnterSafeMode
    PROVE  FreeInv'
<1>1. Withheld(registry') /\ RunFree(rt')
  BY OpenFacts, RegistryFree, StopsFree DEF EnterSafeMode
<1>2. PICK now : now = Capture(registry', rt)
  OBVIOUS
<1>3. Free(now)
  BY <1>1, <1>2 DEF Withheld, Free, Capture
<1>4. /\ gov'.current = now /\ gov'.lkg = gov.lkg /\ gov'.target = gov.target
      /\ gov'.safeMode /\ gov'.failure = gov.failure /\ gov'.integrity = gov.integrity
      /\ gov'.state = "safe-mode"
  BY <1>2, OpenFacts DEF SoundGovs, EnterSafeMode
<1>5. Withholds(gov', intact)
  BY <1>3, <1>4, OpenFacts DEF Withholds, Spoilt
<1>6. PICK wait, drop : wait = UnloadWaits(rt, Candidates) /\ drop = rt.generated
  OBVIOUS
<1>7. PICK rec : rec = [Resting EXCEPT !.pc = "safe", !.wait = wait, !.drop = drop]
  OBVIOUS
<1>8. /\ rec.pc = "safe" /\ rec.snap = Resting.snap /\ rec.owners = Resting.owners
      /\ rec.prior = Resting.prior /\ rec.then = "none"
  BY <1>7 DEF Resting
<1>9. ThreadFree(rec, intact) /\ ~Leads(rec)
  BY <1>8, HomeFree DEF ThreadFree, Stage, Leads
<1>10. Goto("op", rec)
  BY <1>6, <1>7 DEF EnterSafeMode
<1>11. AllFree(th', intact) /\ ~Leads(th'["op"])
  BY <1>9, <1>10, OpenFacts, GotoFree, Moved
<1> QED
  BY <1>1, <1>5, <1>11, StaysFree DEF EnterSafeMode

LEMMA SafeModeEnteredFree ==
    ASSUME Inductive, FreeInv, Opened, SafeModeEntered
    PROVE  FreeInv'
<1>1. PICK drop : drop = th["op"].drop
  OBVIOUS
<1>2. RunFree(rt')
  BY <1>1, OpenFacts, StopsFree DEF SafeModeEntered
<1>3. AllFree(th', intact) /\ ~Leads(th'["op"])
  BY OpenFacts, RestFree, HomeFree, Moved DEF SafeModeEntered, Rest
<1> QED
  BY <1>2, <1>3, OpenFacts, StaysFree DEF SafeModeEntered

LEMMA ExitSafeModeFree ==
    ASSUME Inductive, FreeInv, Opened, ExitSafeMode
    PROVE  FreeInv'
<1>1. PICK now : now = Capture(registry, rt)
  OBVIOUS
<1>2. Free(now) /\ Free(gov.lkg)
  BY <1>1, OpenFacts, SoundFree DEF Withheld, Free, Capture, ExitSafeMode
<1>3. gov'.current = now /\ gov'.lkg = gov.lkg /\ gov'.target = gov.target
  BY <1>1, OpenFacts DEF SoundGovs, ExitSafeMode
<1>4. Withholds(gov', intact)
  BY <1>2, <1>3, OpenFacts DEF Withholds
<1> QED
  BY <1>2, <1>3, <1>4, OpenFacts, StaysFree DEF ExitSafeMode

LEMMA RemoveStartFree ==
    ASSUME Inductive, FreeInv, Opened, NEW x \in Rows, NEW kind \in {"disable", "uninstall"},
           RemoveStart(x, kind)
    PROVE  FreeInv'
<1>1. PICK unload : unload = {x} \cap Candidates
  OBVIOUS
<1>2. PICK wait, drop : wait = UnloadWaits(rt, unload) /\ drop = unload \cap rt.generated
  OBVIOUS
<1>3. PICK rec : rec = [Resting EXCEPT !.pc = kind, !.wait = wait, !.todo = {x}, !.drop = drop, !.prior = gov]
  OBVIOUS
<1>4. /\ rec.pc = kind /\ rec.snap = Resting.snap /\ rec.owners = Resting.owners
      /\ rec.prior = gov /\ rec.then = "none"
  BY <1>3 DEF Resting
<1>5. ThreadFree(rec, intact) /\ ~Leads(rec)
  BY <1>4, HomeFree, OpenFacts DEF ThreadFree, Stage, Leads
<1>6. Goto("op", rec) /\ rt' = Unloading(rt, unload) /\ UNCHANGED <<registry, gov, disk, intact>>
  BY <1>1, <1>2, <1>3 DEF RemoveStart
<1>7. AllFree(th', intact) /\ ~Leads(th'["op"])
  BY <1>5, <1>6, OpenFacts, GotoFree, Moved
<1>8. RunFree(rt')
  BY <1>6, OpenFacts, StopsFree
<1> QED
  BY <1>6, <1>7, <1>8, OpenFacts, StaysFree

LEMMA RemovedFree ==
    ASSUME Inductive, FreeInv, Opened, Removed, \A g : ~FlushAnswered(g)
    PROVE  FreeInv'
<1>3. PICK row, drop : row = th["op"].todo /\ drop = th["op"].drop
  OBVIOUS
<1>4. PICK reg, r : reg = SetStatus(registry, row, "disabled") /\ r = Dropped(rt, drop)
  OBVIOUS
<1>5. PICK snap : snap = Capture(reg, r)
  OBVIOUS
<1>6. PICK left : left = IF th["op"].pc = "uninstall" THEN snap ELSE gov.lkg
  OBVIOUS
<1>7. /\ registry' = reg /\ rt' = r /\ Release /\ Flush /\ intact' = intact
      /\ gov' = [gov EXCEPT !.current = snap, !.lkg = left]
  BY <1>3, <1>4, <1>5, <1>6 DEF Removed
<1>8. Withheld(reg) /\ RunFree(r)
  BY <1>4, OpenFacts, RegistryFree, StopsFree
<1>9. Free(snap)
  BY <1>5, <1>8 DEF Withheld, Free, Capture
<1>10. /\ gov'.current = snap /\ gov'.lkg = left /\ gov'.target = gov.target
       /\ gov'.safeMode = gov.safeMode /\ gov'.failure = gov.failure /\ gov'.integrity = gov.integrity
       /\ gov'.state = gov.state
  BY <1>7, OpenFacts DEF SoundGovs
<1>11. Withholds(gov', intact)
  BY <1>6, <1>9, <1>10, OpenFacts DEF Withholds, Spoilt
<1>12. AllFree(th', intact) /\ ~Leads(th'["op"])
  BY <1>7, OpenFacts, RestFree, HomeFree, Moved DEF Release, Rest
<1> QED
  BY <1>7, <1>8, <1>11, <1>12, StaysFree

LEMMA RemoveRevertedFree ==
    ASSUME Inductive, FreeInv, Opened, RemoveReverted
    PROVE  FALSE
BY OpenFacts DEF ThreadFree, Stage, RemoveReverted

LEMMA RunnerDiesFree ==
    ASSUME Inductive, FreeInv, Opened, NEW c \in Candidates, RunnerDies(c)
    PROVE  FreeInv'
<1>1. PICK target, reg : /\ target = Fallback(gov)
                         /\ reg = (IF registry[c] = "active" THEN SetStatus(registry, {c}, "disabled")
                                   ELSE registry)
  OBVIOUS
<1>2. PICK p : p = Dropping(rt, {c})
  OBVIOUS
<1>3. PICK r : r = Dropped(p, {c})
  OBVIOUS
<1>4. PICK here : here = [Resting EXCEPT !.cand = c]
  OBVIOUS
<1>5. /\ registry' = reg /\ SaveRegistry(disk) /\ intact' = intact
      /\ gov' = [gov EXCEPT !.state = "activation-failed", !.failure = Failure(c, FALSE, FALSE), !.lkg = target]
      /\ Restoring(c, here, "failed", target, reg, r)
  BY <1>1, <1>2, <1>3, <1>4 DEF RunnerDies
<1>6. Free(target) /\ Withheld(reg)
  BY <1>1, OpenFacts, FallbackFree, RegistryFree
<1>7. r \in Runtimes /\ RunFree(r)
  <2>1. p \in Runtimes /\ RunFree(p)
    BY <1>2, OpenFacts, StopTypes, StopsFree
  <2> QED
    BY <1>3, <2>1, StopTypes, StopsFree
<1>8. gov'.current = gov.current /\ gov'.lkg = target /\ gov'.target = gov.target
  BY <1>5, OpenFacts DEF SoundGovs
<1>9. Withholds(gov', intact)
  BY <1>6, <1>8, OpenFacts DEF Withholds
<1>10. here \in SoundThreads(Known(registry)) /\ here.prior = Resting.prior
  BY <1>4, OpenFacts DEF SoundThreads
<1>11. Withholds(here.prior, intact)
  BY <1>10, HomeFree DEF ThreadFree
<1>12. RunFree(rt') /\ AllFree(th', intact)
  BY <1>5, <1>6, <1>7, <1>10, <1>11, OpenFacts, OpApart, RestoringFree
<1> QED
  BY <1>5, <1>6, <1>8, <1>9, <1>12, StaysFree

LEMMA RecordedFree ==
    ASSUME NEW g \in SoundGovs(Known(registry)), NEW c, NEW ok \in BOOLEAN, NEW s, NEW reg, NEW h,
           h = FailureRecorded(c, g, ok, s, reg), NEW whole, Withholds(g, whole), ok => ~g.safeMode
    PROVE  Withholds(h, whole) /\ h.lkg = g.lkg
<1>1. PICK failure : failure = Failure(IF g.failure = NoFailure THEN c ELSE g.failure.cand, ok, ~ok)
  OBVIOUS
<1>2. PICK whether \in BOOLEAN : whether = (ok /\ Restored(reg, s))
  BY DEF Restored
<1>4. /\ h.current = g.current /\ h.lkg = g.lkg /\ h.target = g.target /\ h.failure = failure
      /\ h.state = (IF ok THEN "rolled-back" ELSE "activation-failed")
      /\ h.integrity = whether /\ h.safeMode = (g.safeMode \/ ~ok)
  BY <1>1, <1>2 DEF FailureRecorded, SoundGovs
<1>5. failure.safeRequired = ~ok
  BY <1>1 DEF Failure
<1>6. CASE ok
  <2>1. Free(g.lkg)
    BY <1>6 DEF Withholds, Spoilt
  <2> QED
    BY <1>4, <2>1 DEF Withholds
<1>7. CASE ~ok
  BY <1>2, <1>4, <1>5, <1>7 DEF Withholds, Spoilt
<1> QED
  BY <1>6, <1>7

LEMMA FailureRestoredFree ==
    ASSUME Inductive, FreeInv, Opened, NEW c \in Candidates, FailureRestored(c)
    PROVE  FreeInv'
<1>1. PICK here, reg : here = th[c] /\ reg = RestoredRegistry(c)
  OBVIOUS
<1>2. PICK snap : snap = Capture(reg, rt)
  OBVIOUS
<1>3. PICK now : now = [gov EXCEPT !.current = snap]
  OBVIOUS
<1>4. c \in Threads /\ c # "op"
  BY OpApart
<1>5. reg \in Registries /\ Withheld(reg) /\ Free(snap)
  BY <1>1, <1>2, <1>4, RestoredFree
<1>6. here \in SoundThreads(Known(registry)) /\ ThreadFree(here, intact)
  BY <1>1, <1>4, OpenFacts, ThreadFacts DEF AllFree
<1>7. now \in SoundGovs(Known(registry))
  <2>1. reg \in SoundRegistries(blessed) /\ Known(reg) = Known(registry)
    BY <1>1, <1>4, RestoredRegistrySound
  <2>2. snap \in SoundSnapshots(Known(registry))
    BY <1>2, <2>1, OpenFacts, CaptureSound
  <2> QED
    BY <1>3, <2>2, OpenFacts DEF SoundGovs
<1>8. /\ now.current = snap /\ now.lkg = gov.lkg /\ now.target = gov.target
      /\ now.safeMode = gov.safeMode /\ now.failure = gov.failure /\ now.integrity = gov.integrity
      /\ now.state = gov.state
  BY <1>3, OpenFacts DEF SoundGovs
<1>9. Withholds(now, intact)
  BY <1>5, <1>8, OpenFacts DEF Withholds, Spoilt
<1>10. intact' = intact
  BY DEF FailureRestored
<1>11. CASE Remounting(c, here, "failure", reg, now, rt, disk)
  <2>1. /\ RunFree(rt') /\ AllFree(th', intact) /\ Withheld(registry') /\ Withholds(gov', intact)
        /\ gov'.lkg = now.lkg
    BY <1>4, <1>5, <1>6, <1>7, <1>9, <1>11, OpenFacts, RemountingFree
  <2>2. SaveRegistry(disk)
    BY <1>11 DEF Remounting
  <2>3. th'["op"] = th["op"]
    BY <1>4, <1>5, <1>6, <1>7, <1>11, OpApart, RemountingMoves
  <2> QED
    BY <1>8, <1>10, <2>1, <2>2, <2>3, OpenFacts, StaysFree
<1>12. CASE /\ registry' = reg /\ rt' = rt /\ Rest(c) /\ Flush
            /\ gov' = FailureRecorded(c, now, FALSE, here.snap, reg)
  <2>1. PICK s, h, ok : s = here.snap /\ h = gov' /\ ok = FALSE
    OBVIOUS
  <2>2. h = FailureRecorded(c, now, ok, s, reg)
    BY <1>12, <2>1
  <2>3. ok \in BOOLEAN /\ (ok => ~now.safeMode)
    BY <2>1
  <2>4. Withholds(h, intact) /\ h.lkg = now.lkg
    BY <1>7, <1>9, <2>2, <2>3, RecordedFree
  <2>5. Withholds(gov', intact) /\ gov'.lkg = gov.lkg
    BY <1>8, <2>1, <2>4
  <2>6. AllFree(th', intact) /\ th'["op"] = th["op"]
    BY <1>4, <1>12, OpenFacts, RestFree, Moved DEF Rest
  <2> QED
    BY <1>5, <1>10, <1>12, <2>5, <2>6, OpenFacts, StaysFree
<1> QED
  BY <1>1, <1>2, <1>3, <1>11, <1>12 DEF FailureRestored

LEMMA FailureHandledFree ==
    ASSUME Inductive, FreeInv, Opened, NEW c \in Candidates, FailureHandled(c)
    PROVE  FreeInv'
<1>1. PICK s : s = th[c].snap
  OBVIOUS
<1>2. PICK ok \in BOOLEAN : ok = ~gov.safeMode /\ (ok => ~gov.safeMode)
  BY OpenFacts DEF SoundGovs
<1>3. PICK h : h = gov'
  OBVIOUS
<1>4. Withholds(gov', intact) /\ gov'.lkg = gov.lkg
  <2>1. h = FailureRecorded(c, gov, ok, s, registry)
    BY <1>1, <1>2, <1>3 DEF FailureHandled
  <2>2. gov \in SoundGovs(Known(registry)) /\ Withholds(gov, intact)
    BY OpenFacts
  <2>3. ok \in BOOLEAN /\ (ok => ~gov.safeMode)
    BY <1>2
  <2>4. Withholds(h, intact) /\ h.lkg = gov.lkg
    BY <2>1, <2>2, <2>3, RecordedFree
  <2> QED
    BY <1>3, <2>4
<1>5. AllFree(th', intact) /\ th'["op"] = th["op"]
  BY OpenFacts, OpApart, RestFree, Moved DEF FailureHandled, Rest
<1> QED
  BY <1>4, <1>5, OpenFacts, StaysFree DEF FailureHandled

(* A crash brings back what the file holds. *)
LEMMA CrashFree ==
    ASSUME Inductive, FreeInv, Opened \/ Opening, Crash
    PROVE  FreeInv'
<1>1. /\ registry' = disk.registry /\ gov' = disk.gov /\ intact' = intact /\ up' = "down"
      /\ RunFree(rt') /\ rt'.generated = {} /\ AllFree(th', intact) /\ ~Leads(th'["op"])
  BY HaltFree DEF Crash, Die, Halt
<1>4. disk'.registry = disk.registry /\ disk'.gov = disk.gov /\ disk'.store.gov = disk.gov
  BY DEF Crash, Die, Sections, Inductive, Disks
<1>2. CASE Opened
  BY <1>1, <1>2, <1>4, FreeAfter DEF Opened, FileFree
<1>3. CASE Opening
  BY <1>1, <1>3, <1>4 DEF Opening, Unopened, FreeInv
<1> QED
  BY <1>2, <1>3

LEMMA BootedFree ==
    ASSUME Inductive, FreeInv, Opened, Booted
    PROVE  FreeInv'
<1>1. AllFree(th', intact) /\ ~Leads(th'["op"])
  BY OpenFacts, RestFree, HomeFree, Moved DEF Booted, Rest
<1> QED
  BY <1>1, OpenFacts, StaysFree DEF Booted

(* A changed artifact makes no snapshot restorable. *)
LEMMA TamperFree ==
    ASSUME FreeInv, NEW c, Tamper(c)
    PROVE  FreeInv'
<1>1. /\ intact' \subseteq intact
      /\ UNCHANGED <<registry, gov, rt, disk, up, th>>
  BY DEF Tamper
<1>2. ASSUME NEW g, Withholds(g, intact)
      PROVE  Withholds(g, intact')
  BY <1>1, <1>2 DEF Withholds, Spoilt
<1>3. AllFree(th', intact')
  BY <1>1, <1>2 DEF FreeInv, AllFree, ThreadFree
<1>4. CASE Opened
  <2>1. Opened'
    BY <1>1, <1>2, <1>4 DEF Opened, FileFree
  <2> QED
    BY <1>1, <1>3, <2>1 DEF FreeInv
<1>5. CASE Opening
  <2>1. Opening'
    BY <1>1, <1>5 DEF Opening
  <2> QED
    BY <1>1, <1>3, <2>1 DEF FreeInv
<1>6. CASE ~Opened /\ ~Opening
  BY <1>1, <1>3, <1>6 DEF FreeInv
<1> QED
  BY <1>4, <1>5, <1>6

(* A boot of a home that withholds its rows. *)
LEMMA BootFree ==
    ASSUME Inductive, FreeInv, Opened, Boot
    PROVE  FreeInv'
<1> DEFINE broken == gov.state \in {"activation-pending", "activating"}
<1>1. PICK failure : failure = Failure(gov.pending, TRUE, FALSE)
  OBVIOUS
<1>2. PICK g : g = IF broken THEN [gov EXCEPT !.state = "activation-failed", !.pending = None,
                                             !.failure = failure]
                             ELSE gov
  OBVIOUS
<1>3. PICK d : d = [disk EXCEPT !.gov = g, !.store.gov = g]
  OBVIOUS
<1>4. g \in SoundGovs(Known(registry)) /\ Withholds(g, intact)
  <2>1. CASE broken
    <3>1. g.current = gov.current /\ g.lkg = gov.lkg /\ g.target = gov.target
      BY <1>2, <2>1, OpenFacts DEF SoundGovs
    <3>2. Free(gov.lkg)
      BY <2>1, OpenFacts, SoundFree
    <3>3. failure \in Failures
      BY <1>1, OpenFacts DEF Failure, Failures, SoundGovs
    <3>4. g \in SoundGovs(Known(registry))
      BY <1>2, <2>1, <3>3, OpenFacts DEF SoundGovs, ActivationStates
    <3> QED
      BY <3>1, <3>2, <3>4, OpenFacts DEF Withholds
  <2> QED
    BY <1>2, <2>1, OpenFacts
<1>5. PICK reg, a, s : s.gov = g /\ reg = disk.registry /\ d = [registry |-> reg, approvals |-> a, gov |-> g, store |-> s]
  <2>1. PICK reg, a, h, s : disk = [registry |-> reg, approvals |-> a, gov |-> h, store |-> s]
    BY DEF Inductive, Disks
  <2>2. disk.store \in [approvals : SoundApprovals(blessed), gov : SoundGovs(Known(registry))]
    BY DEF Inductive, Disks
  <2>3. PICK s2 : s2 = [disk.store EXCEPT !.gov = g]
    OBVIOUS
  <2>4. s2.gov = g
    BY <2>2, <2>3
  <2>5. d = [registry |-> reg, approvals |-> a, gov |-> g, store |-> s2]
    BY <1>3, <2>1, <2>3
  <2> QED
    BY <2>1, <2>4, <2>5
<1>6. intact' = intact
  BY DEF Boot
<1>7. CASE UNCHANGED <<registry, gov, disk>> /\ StartRollback(g, [g EXCEPT !.state = "active"], rt)
  <2>1. PICK prior : prior = [g EXCEPT !.state = "active"]
    OBVIOUS
  <2>2. /\ prior.current = g.current /\ prior.lkg = g.lkg /\ prior.target = g.target
        /\ prior.safeMode = g.safeMode /\ prior.failure = g.failure /\ prior.integrity = g.integrity
        /\ prior.state = "active" /\ prior \in SoundGovs(Known(registry))
    BY <1>4, <2>1 DEF SoundGovs, ActivationStates
  <2>3. Withholds(prior, intact)
    BY <1>4, <2>2 DEF Withholds, Spoilt
  <2>4. RunFree(rt') /\ AllFree(th', intact) /\ th'["op"].then = "none" /\ Stage(th'["op"]) = "rollback"
    BY <1>4, <1>7, <2>1, <2>2, <2>3, OpenFacts, StartRollbackFree
  <2> QED
    BY <1>6, <1>7, <2>4, OpenFacts, StaysFree DEF Leads
<1>8. CASE Remounting("op", Resting, "boot", registry, g, rt, d)
  <2>1. ThreadFree(Resting, intact)
    BY HomeFree
  <2>2. /\ RunFree(rt') /\ AllFree(th', intact) /\ Withheld(registry') /\ Withholds(gov', intact)
    BY <1>4, <1>8, <2>1, OpenFacts, RemountingFree
  <2>3. th'["op"].pc \in {"mounted", "close", "mount"} /\ th'["op"].then = "boot"
    BY <1>4, <1>8, OpenFacts, RemountingMoves
  <2>4. FileFree(disk', intact)
    <3>1. SaveRegistry(d)
      BY <1>8 DEF Remounting
    <3>2. Withheld(reg)
      BY <1>5 DEF Opened, FileFree
    <3> QED
      BY <1>4, <1>5, <2>2, <3>1, <3>2, SavedFree
  <2> QED
    BY <1>6, <2>2, <2>3, <2>4, FreeAfter DEF Leads, Stage
<1> QED
  BY <1>1, <1>2, <1>3, <1>7, <1>8 DEF Boot

(* The first boot of a home with rows to withhold. *)
LEMMA FirstBootOpens ==
    ASSUME Inductive, FreeInv, Boot, Unopened(disk), gov = disk.gov, registry = disk.registry, rt.generated = {}
    PROVE  FreeInv'
<1> DEFINE held     == Legacy \cap intact
           withheld == SetStatus(registry, held, "disabled")
<1>1. /\ gov.state = "active" /\ ~gov.safeMode /\ gov.target = HomeSnapshot
      /\ gov.lkg.owners = (Rows \ Candidates) \cup Legacy /\ gov.current = gov.lkg
  BY DEF Unopened, HomeState
<1>2. Legacy \subseteq Candidates
  BY GovernanceAssumption
<1>3. Committed(gov).owners \cap Candidates = Legacy /\ gov.lkg.owners \cap Candidates = Legacy
  BY <1>1, <1>2 DEF Committed
<1>4. PICK d : d = [disk EXCEPT !.gov = gov, !.store.gov = gov]
  OBVIOUS
<1>5. d = disk
  <2>1. PICK reg, a, g, b, h :
           disk = [registry |-> reg, approvals |-> a, gov |-> g, store |-> [approvals |-> b, gov |-> h]]
    BY DEF Inductive, Disks
  <2>2. g = gov /\ h = gov
    BY <2>1 DEF Unopened
  <2>3. PICK s : s = [approvals |-> b, gov |-> gov]
    OBVIOUS
  <2>4. disk = [registry |-> reg, approvals |-> a, gov |-> gov, store |-> s]
    BY <2>1, <2>2, <2>3
  <2>5. [disk EXCEPT !.gov = gov] = disk
    BY <2>4
  <2>6. [disk.store EXCEPT !.gov = gov] = s
    BY <2>3, <2>4
  <2>7. [disk EXCEPT !.store = s] = disk
    BY <2>4
  <2> QED
    BY <1>4, <2>5, <2>6, <2>7
<1>6. Remounting("op", Resting, "boot", registry, gov, rt, disk)
  BY <1>1, <1>4, <1>5 DEF Boot
<1>7. registry \in Registries /\ gov \in SoundGovs(Known(registry)) /\ rt \in Runtimes
      /\ Resting \in SoundThreads(Known(registry))
  BY RestingSound DEF Inductive, SoundRegistries
<1>8. ActiveGenerated(registry) \subseteq Legacy
  BY DEF Unopened
<1>9. intact' = intact /\ up' = "booting" /\ SaveRegistry(disk) /\ up = "down"
  BY <1>6 DEF Boot, Remounting
<1>10. PICK go : go = [Resting EXCEPT !.then = "boot", !.todo = {}, !.held = {}]
  OBVIOUS
<1>11. /\ go.snap = Resting.snap /\ go.owners = Resting.owners /\ go.prior = Resting.prior
       /\ go.then = "boot" /\ go \in SoundThreads(Known(registry))
  BY <1>7, <1>10 DEF SoundThreads
<1>12. \A c \in Candidates : th'[c].pc = "idle"
  BY <1>6, <1>7, <1>9, OpApart, RemountingMoves DEF Inductive
<1>13. withheld \in Registries /\ Active(withheld) = Active(registry) \ held
  BY <1>7 DEF SetStatus, Registries, Statuses, Active
<1>14. ASSUME ActiveGenerated(registry') \subseteq Legacy
       PROVE  Unopened(disk')
  <2>1. CASE disk' = disk
    BY <2>1
  <2>2. CASE disk' = [disk EXCEPT !.registry = registry', !.approvals = disk.store.approvals,
                                  !.gov = disk.store.gov]
    <3>1. disk'.gov = disk.store.gov /\ disk'.registry = registry' /\ disk'.store = disk.store
      BY <2>2 DEF Inductive, Disks
    <3> QED
      BY <1>14, <3>1 DEF Unopened
  <2> QED
    BY <1>9, <2>1, <2>2 DEF SaveRegistry, Saved
<1>15. CASE /\ Legacy \subseteq intact
            /\ registry' = withheld /\ rt' = rt
            /\ Goto("op", [go EXCEPT !.pc = "mount", !.wait = FALSE, !.todo = Remountable(gov), !.held = held])
  <2>1. PICK rec : rec = [go EXCEPT !.pc = "mount", !.wait = FALSE, !.todo = Remountable(gov), !.held = held]
    OBVIOUS
  <2>2. /\ rec.pc = "mount" /\ rec.todo = Remountable(gov) /\ rec.held = held /\ rec.then = "boot"
        /\ rec.snap = Resting.snap /\ rec.owners = Resting.owners /\ rec.prior = Resting.prior
    BY <1>11, <2>1 DEF SoundThreads
  <2>3. rec.todo = {} /\ rec.held # {}
    BY <1>3, <1>15, <2>2 DEF Remountable, Unopened
  <2>4. th'["op"] = rec
    BY <1>15, <2>1, OpApart, Moved
  <2>5. ThreadFree(rec, intact)
    BY <2>2, HomeFree DEF ThreadFree, Stage
  <2>6. AllFree(th', intact)
    BY <1>15, <2>1, <2>5, OpApart, GotoFree DEF FreeInv
  <2>7. Withheld(registry') /\ ActiveGenerated(registry') \subseteq Legacy
    BY <1>8, <1>13, <1>15 DEF Withheld, ActiveGenerated
  <2>8. Opening'
    BY <1>9, <1>12, <1>14, <1>15, <2>2, <2>3, <2>4, <2>7 DEF Opening
  <2> QED
    BY <1>9, <1>15, <2>6, <2>8 DEF FreeInv
<1>16. CASE ~(Legacy \subseteq intact) /\ FailingClosed("op", go, "close", withheld, gov, rt)
  <2>1. PICK reg : reg = withheld
    OBVIOUS
  <2>2. /\ registry' = DisableGenerated(reg) /\ rt' = Unloading(rt, Candidates)
        /\ FailingClosed("op", go, "close", reg, gov, rt)
    BY <1>16, <2>1 DEF FailingClosed
  <2>3. Active(registry') = Active(reg) \ Candidates
    BY <1>13, <2>1, <2>2, DisableGeneratedSound
  <2>4. Withheld(registry') /\ ActiveGenerated(registry') = {}
    BY <1>2, <2>3 DEF Withheld, ActiveGenerated
  <2>5. PICK now : now = Capture(DisableGenerated(reg), rt)
    OBVIOUS
  <2>6. Free(now)
    BY <2>2, <2>4, <2>5 DEF Withheld, Free, Capture
  <2>7. /\ gov'.current = now /\ gov'.lkg = gov.lkg /\ gov'.target = gov.target
        /\ gov'.safeMode /\ ~gov'.integrity /\ gov'.state = "safe-mode"
    BY <1>7, <2>2, <2>5 DEF FailingClosed, SoundGovs
  <2>8. PICK rec : rec = [go EXCEPT !.pc = "close", !.wait = UnloadWaits(rt, Candidates), !.drop = rt.generated]
    OBVIOUS
  <2>9. /\ rec.pc = "close" /\ rec.then = "boot"
        /\ rec.snap = Resting.snap /\ rec.owners = Resting.owners /\ rec.prior = Resting.prior
    BY <1>11, <2>8 DEF SoundThreads
  <2>10. th'["op"] = rec
    BY <2>2, <2>8, OpApart, Moved DEF FailingClosed
  <2>11. ThreadFree(rec, intact)
    BY <2>9, HomeFree DEF ThreadFree, Stage
  <2>12. AllFree(th', intact)
    BY <2>2, <2>8, <2>11, OpApart, GotoFree DEF FreeInv, FailingClosed
  <2>13. RunFree(rt') /\ rt'.generated = {}
    <3>1. RunFree(rt')
      BY <1>7, <2>2, StopsFree DEF FreeInv
    <3> QED
      BY <1>7, <2>2, <3>1 DEF Unloading, DiscardParked, Dropping, Runtimes
  <2>14. Opening'
    BY <1>1, <1>3, <1>9, <1>12, <1>14, <1>16, <2>4, <2>6, <2>7, <2>9, <2>10, <2>13 DEF Opening
  <2> QED
    BY <1>9, <2>12, <2>13, <2>14 DEF FreeInv
<1> QED
  BY <1>1, <1>3, <1>6, <1>8, <1>10, <1>15, <1>16 DEF Remounting

(* The first boot adopts the withheld rows, or records why it failed. *)
LEMMA OpeningOpens ==
    ASSUME Inductive, FreeInv, Opening, MountsDone("op") \/ Closed("op")
    PROVE  FreeInv'
<1>1. /\ rt \in Runtimes /\ RunFree(rt) /\ AllFree(th, intact) /\ Withheld(registry) /\ "op" \in Threads
      /\ gov \in SoundGovs(Known(registry)) /\ th["op"] \in SoundThreads(Known(registry))
      /\ th["op"].then = "boot"
  BY OpApart, ThreadFacts DEF Inductive, FreeInv, Opening
<1>2. CASE MountsDone("op")
  <2>1. PICK rec : rec = [th["op"] EXCEPT !.pc = "mounted", !.wait = FALSE]
    OBVIOUS
  <2>2. /\ rec.pc = "mounted" /\ rec.snap = th["op"].snap /\ rec.owners = th["op"].owners
        /\ rec.prior = th["op"].prior /\ rec.then = "boot"
    BY <1>1, <2>1 DEF SoundThreads
  <2>3. Goto("op", rec) /\ UNCHANGED <<registry, rt, intact>>
    BY <1>2, <2>1 DEF MountsDone
  <2>4. Stage(rec) # "revert" /\ rec.pc \notin {"prepare", "health"} /\ ~Leads(rec)
    BY <2>2 DEF Stage, Leads
  <2>5. AllFree(th', intact) /\ th'["op"] = rec
    BY <1>1, <2>2, <2>3, <2>4, GoingOnFree, Moved
  <2>6. PICK now : now = Capture(registry, rt)
    OBVIOUS
  <2>7. gov' = Adopted(gov, now) /\ Flush
    BY <1>2, <2>6 DEF Opening, MountsDone
  <2>8. gov'.current = now /\ gov'.lkg = now /\ gov'.target = now
    BY <1>1, <2>7 DEF Adopted, SoundGovs
  <2>9. Withholds(gov', intact)
    BY <1>1, <2>6, <2>8 DEF Withholds, Withheld, Free, Capture
  <2>10. FileFree(disk', intact)
    BY <1>1, <2>3, <2>7, <2>9, FileOfFree DEF Flush
  <2> QED
    BY <1>1, <2>3, <2>4, <2>5, <2>9, <2>10, FreeAfter
<1>3. CASE Closed("op")
  <2>1. PICK rec : rec = [th["op"] EXCEPT !.pc = "mounted", !.wait = FALSE, !.drop = {}]
    OBVIOUS
  <2>2. /\ rec.pc = "mounted" /\ rec.snap = th["op"].snap /\ rec.owners = th["op"].owners
        /\ rec.prior = th["op"].prior /\ rec.then = "boot"
    BY <1>1, <2>1 DEF SoundThreads
  <2>3. Goto("op", rec) /\ UNCHANGED <<registry, intact>> /\ Flush
    BY <1>3, <2>1 DEF Closed
  <2>4. Stage(rec) # "revert" /\ rec.pc \notin {"prepare", "health"} /\ ~Leads(rec)
    BY <2>2 DEF Stage, Leads
  <2>5. AllFree(th', intact) /\ th'["op"] = rec
    BY <1>1, <2>2, <2>3, <2>4, GoingOnFree, Moved
  <2>6. PICK failure : failure = Failure(Blamed(gov), FALSE, TRUE)
    OBVIOUS
  <2>7. failure.safeRequired /\ gov' = [gov EXCEPT !.failure = failure]
    BY <1>3, <2>6 DEF Failure, Closed
  <2>8. /\ gov'.current = gov.current /\ gov'.lkg = gov.lkg /\ gov'.target = gov.target
        /\ gov'.safeMode = gov.safeMode /\ gov'.failure = failure /\ gov'.integrity = gov.integrity
        /\ gov'.state = gov.state
    BY <1>1, <2>7 DEF SoundGovs
  <2>9. /\ Free(gov.current) /\ gov.target = HomeSnapshot /\ ~(gov.lkg.owners \cap Candidates \subseteq intact)
        /\ gov.safeMode /\ ~gov.integrity /\ gov.state = "safe-mode"
    BY <1>3 DEF Opening, Closed
  <2>10. HomeSnapshot # NoSnapshot
    BY SnapshotAssumption DEF HomeSnapshot, Snapshots
  <2>11. Withholds(gov', intact)
    BY <2>7, <2>8, <2>9, <2>10, HomeFree DEF Withholds, Spoilt
  <2>12. PICK drop : drop = th["op"].drop
    OBVIOUS
  <2>13. RunFree(rt')
    BY <1>1, <1>3, <2>12, StopsFree DEF Closed
  <2>14. FileFree(disk', intact)
    BY <1>1, <2>3, <2>11, FileOfFree DEF Flush
  <2> QED
    BY <1>1, <2>3, <2>4, <2>5, <2>11, <2>13, <2>14, FreeAfter
<1> QED
  BY <1>2, <1>3

(* No failed write is forgotten. *)
LEMMA FaultsCount ==
    ASSUME Inductive, [Next]_vars, spent'.faults = 0
    PROVE  /\ spent.faults = 0 /\ spent' # [spent EXCEPT !.faults = @ + 1]
           /\ ~FlushLost /\ \A g : ~FlushAnswered(g)
<1>1. spent' = [spent EXCEPT !.faults = @ + 1] \/ FlushLost \/ (\E g : FlushAnswered(g)) => spent'.faults = spent.faults + 1
  BY DEF Inductive, Spendings, FlushLost, FlushAnswered
<1>2. spent.faults \in Nat /\ spent.faults <= spent'.faults
  BY SpentGrows
<1> QED
  BY <1>1, <1>2

LEMMA OpenCallFree ==
    ASSUME Inductive, FreeInv, Opened, OpStep,
           spent' # [spent EXCEPT !.faults = @ + 1], ~FlushLost, \A g : ~FlushAnswered(g)
    PROVE  FreeInv'
BY ActivatePreparedFree, ActivateHealthyFree, ActivateUnhealthyFree, ActivateCommittedFree,
     ActivateUndoneFree, RollbackRestoredFree, RollbackMountedFree, RollbackRecoveredFree,
     RollbackClosedFree, SafeModeEnteredFree, RemovedFree, RemoveRevertedFree, BootedFree DEF OpStep

LEMMA OpenRequestFree ==
    ASSUME Inductive, FreeInv, Opened, Request, ~FlushLost
    PROVE  FreeInv'
<1>1. CASE \E c \in Candidates : \/ RequestApproval(c)
                                 \/ RecordApproval(c, "approved-for-exact-diff")
                                 \/ RecordApproval(c, "rejected")
                                 \/ AbandonFailedActivation(c)
                                 \/ ActivateStart(c)
  BY <1>1, ApprovalsFree, AbandonFree, ActivateStartFree
<1>2. CASE Rollback \/ EnterSafeMode \/ ExitSafeMode
  BY <1>2, RollbackFree, EnterSafeModeFree, ExitSafeModeFree
<1>3. CASE \E x \in Rows : RemoveStart(x, "disable") \/ RemoveStart(x, "uninstall")
  BY <1>3, RemoveStartFree
<1> QED
  BY <1>1, <1>2, <1>3 DEF Request

(* A home that withholds its rows goes on to. *)
LEMMA OpenFree ==
    ASSUME Inductive, FreeInv, Opened, Next,
           spent' # [spent EXCEPT !.faults = @ + 1], ~FlushLost, \A g : ~FlushAnswered(g)
    PROVE  FreeInv'
<1>1. ASSUME NEW t \in Threads, Advance(t)
      PROVE  FreeInv'
  <2>1. CASE OpStep
    BY <2>1, OpenCallFree
  <2>2. CASE t \in Candidates /\ FailureStep(t)
    BY <2>2, FailureRestoredFree, FailureHandledFree DEF FailureStep
  <2>3. CASE MountStep(t)
    BY <2>3, RestoreDroppedFree, RestoreStartedFree, MountNextFree, MountStartedFree, MountsDoneFree,
       MountsClearedFree, ClosedFree DEF MountStep
  <2> QED
    BY <1>1, <2>1, <2>2, <2>3 DEF Advance
<1>2. CASE Environment
  BY <1>2, CrashFree, RunnerDiesFree, TamperFree DEF Environment
<1> QED
  BY <1>1, <1>2, OpenRequestFree, BootFree DEF Next

(* Nothing but the first boot moves while it runs. *)
LEMMA OpeningFree ==
    ASSUME Inductive, FreeInv, Opening, Next
    PROVE  FreeInv'
<1>1. /\ up = "booting" /\ rt.generated = {} /\ \A c \in Candidates : th[c].pc = "idle"
      /\ th["op"].pc \in {"mount", "close"} /\ (th["op"].pc = "mount" => th["op"].todo = {})
  BY DEF Opening
<1>2. ASSUME NEW t \in Threads, Advance(t)
      PROVE  FreeInv'
  <2>1. CASE t \in Candidates
    BY <1>1, <1>2, <2>1, OpApart DEF Advance, FailureStep, FailureRestored, FailureHandled, MountStep,
       RestoreDropped, RestoreStarted, MountNext, MountStarted, MountsDone, MountsCleared, Closed
  <2>2. CASE t = "op"
    <3>1. ~OpStep
      BY <1>1 DEF OpStep, ActivatePrepared, ActivateHealthy, ActivateUnhealthy,
         ActivateCommitted, ActivateUndone, RollbackRestored, RollbackMounted, RollbackRecovered,
         RollbackClosed, SafeModeEntered, Removed, RemoveReverted, Booted
    <3>2. MountStep("op") => MountsDone("op") \/ Closed("op")
      BY <1>1 DEF MountStep, RestoreDropped, RestoreStarted, MountNext, MountStarted, MountsCleared
    <3> QED
      BY <1>2, <2>2, <3>1, <3>2, OpApart, OpeningOpens DEF Advance
  <2> QED
    BY <2>1, <2>2 DEF Threads
<1>3. ~Request
  BY <1>1 DEF Request, RequestApproval, RecordApproval, AbandonFailedActivation, ActivateStart,
     Rollback, EnterSafeMode, ExitSafeMode, RemoveStart, LifecycleIdle
<1>4. CASE Environment
  BY <1>1, <1>4, CrashFree, TamperFree DEF Environment, RunnerDies
<1>5. ~Boot
  BY <1>1 DEF Boot
<1> QED
  BY <1>2, <1>3, <1>4, <1>5 DEF Next

(* A home that was never opened waits for its first boot. *)
LEMMA UnopenedFree ==
    ASSUME Inductive, FreeInv, ~Opened, ~Opening, Next
    PROVE  FreeInv'
<1>1. /\ up = "down" /\ Unopened(disk) /\ gov = disk.gov /\ registry = disk.registry /\ rt.generated = {}
      /\ \A t \in Threads : th[t].pc = "idle"
  BY DEF FreeInv, Inductive
<1>2. ~(\E t \in Threads : Advance(t))
  BY <1>1, OpApart DEF Advance, FailureStep, FailureRestored, FailureHandled, MountStep, RestoreDropped,
     RestoreStarted, MountNext, MountStarted, MountsDone, MountsCleared, Closed, OpStep, ActivatePrepared,
     ActivateHealthy, ActivateUnhealthy, ActivateCommitted, ActivateUndone, RollbackRestored, RollbackMounted,
     RollbackRecovered, RollbackClosed, SafeModeEntered, Removed, RemoveReverted, Booted
<1>3. ~Request
  BY <1>1 DEF Request, RequestApproval, RecordApproval, AbandonFailedActivation, ActivateStart,
     Rollback, EnterSafeMode, ExitSafeMode, RemoveStart, LifecycleIdle
<1>4. CASE Environment
  BY <1>1, <1>4, TamperFree DEF Environment, Crash, RunnerDies
<1>5. CASE Boot
  BY <1>1, <1>5, FirstBootOpens
<1> QED
  BY <1>2, <1>3, <1>4, <1>5 DEF Next

(* Every step keeps the invariant. *)
LEMMA NextWithheld ==
    ASSUME Inductive, WithheldInv, [Next]_vars
    PROVE  WithheldInv'
<1> SUFFICES ASSUME spent'.faults = 0
             PROVE  FreeInv'
  BY DEF WithheldInv
<1>1. spent' # [spent EXCEPT !.faults = @ + 1] /\ ~FlushLost /\ (\A g : ~FlushAnswered(g)) /\ FreeInv
  BY FaultsCount DEF WithheldInv
<1>2. CASE UNCHANGED vars
  BY <1>1, <1>2 DEF vars, FreeInv, Opened, Opening
<1>3. CASE Next
  BY <1>1, <1>3, OpenFree, OpeningFree, UnopenedFree
<1> QED
  BY <1>2, <1>3

(* The invariant holds at first. *)
LEMMA InitWithheld ==
    ASSUME Init
    PROVE  WithheldInv
<1>1. PICK kept \in {{}, Legacy} :
         /\ registry = HomeRegistry(kept) /\ gov = HomeState(kept)
         /\ disk = FileOf(HomeRegistry(kept), HomeApprovals(kept), HomeState(kept))
  BY DEF Init
<1>2. rt = FreshRuntime /\ up = "down" /\ \A t \in Threads : th[t] = Resting
  BY DEF Init
<1>3. RunFree(rt) /\ rt.generated = {} /\ AllFree(th, intact) /\ ~Leads(th["op"])
  BY <1>2, HomeFree, OpApart DEF AllFree
<1>4. CASE kept = {}
  <2>1. Opened
    BY <1>1, <1>3, <1>4, HomeFree, FileOfFree DEF Opened
  <2> QED
    BY <1>3, <2>1 DEF WithheldInv, FreeInv
<1>5. CASE kept # {}
  <2>1. kept = Legacy
    BY <1>1, <1>5
  <2>2. ActiveGenerated(HomeRegistry(kept)) \subseteq kept
    BY DEF ActiveGenerated, Active, HomeRegistry
  <2>3. Unopened(disk)
    BY <1>1, <1>5, <2>1, <2>2 DEF Unopened, FileOf, Sections
  <2> QED
    BY <1>1, <1>2, <1>3, <2>3 DEF WithheldInv, FreeInv, FileOf
<1> QED
  BY <1>4, <1>5

(* LegacyWithheld: reconstructCommittedExtensions withholds the rows sealed *)
(* before the host contract at the first boot, and no activation, undo,     *)
(* rollback, recovery, callback of a dead child or later boot restores one, *)
(* as long as no write fails.                                              *)
THEOREM LegacyStaysOut == Spec => []LegacyWithheld
<1>1. Init => Inductive /\ WithheldInv
  BY InitInductive, InitWithheld
<1>2. (Inductive /\ WithheldInv) /\ [Next]_vars => (Inductive /\ WithheldInv)'
  BY NextInductive, NextWithheld
<1>3. Inductive /\ WithheldInv => LegacyWithheld
  <2> SUFFICES ASSUME Inductive, WithheldInv, up = "up", spent.faults = 0,
                      NEW s \in SnapshotsOf(gov) \cup {Capture(registry, rt)},
                      s.owners \cap Candidates \subseteq intact
               PROVE  s.owners \cap Legacy = {}
    BY DEF LegacyWithheld, Quiet
  <2>1. Opened
    BY DEF WithheldInv, FreeInv, Opening
  <2>2. CASE s = Capture(registry, rt)
    BY <2>1, <2>2 DEF Opened, Withheld, Capture
  <2>3. CASE s \in SnapshotsOf(gov)
    <3>1. s = gov.current \/ s = gov.lkg \/ (s = gov.target /\ gov.target # NoSnapshot)
      BY <2>3 DEF SnapshotsOf
    <3> QED
      BY <2>1, <3>1 DEF Opened, Withholds, Spoilt, Free
  <2> QED
    BY <2>2, <2>3
<1> QED
  BY <1>1, <1>2, <1>3, PTL DEF Spec
=============================================================================
