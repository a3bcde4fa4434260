-------------------------- MODULE GovernanceInvariant --------------------------
(***************************************************************************)
(* The inductive invariant behind the safety theorems of the governance.   *)
(*                                                                         *)
(* An active row comes from a commit, from a failed removal that is taken  *)
(* back, or from a snapshot.  So every snapshot any field, thread or       *)
(* section of the authority file holds must be free of conflicts and made  *)
(* of registered rows, and every registered extension must be approved.    *)
(***************************************************************************)
EXTENDS GovernanceProperties

SoundSets(K) == {S \in SUBSET Rows : S \subseteq K /\ ConflictFree(S)}

SoundSnapshots(K) == [owners : SoundSets(K), mounted : SUBSET Candidates]

SoundGovs(K) ==
    [state : ActivationStates, pending : Candidates \cup {None}, current : SoundSnapshots(K),
     lkg : SoundSnapshots(K), target : SoundSnapshots(K) \cup {NoSnapshot},
     failure : Failures, safeMode : BOOLEAN, integrity : BOOLEAN]

SoundThreads(K) ==
    [pc : Points, wait : BOOLEAN, ok : BOOLEAN, cand : Candidates \cup {None},
     snap : SoundSnapshots(K), owners : SoundSets(K), prior : SoundGovs(K), todo : SUBSET Rows,
     drop : SUBSET Candidates, start : Candidates \cup {None}, held : SUBSET Candidates,
     ret : Returns \cup {"none"}, then : {"none", "boot", "rollback", "failure"}]

(* What a thread at a given point of its call may rely on. *)
Placed(rec, K, b) ==
    /\ rec.pc \in {"prepare", "health"} => rec.cand \in b
    /\ rec.pc = "commit" => rec.cand \in Candidates
    /\ rec.pc \in {"restart", "mounting"} => rec.start \in Candidates
    /\ rec.pc \in {"restore", "restart"} => rec.ret \in Returns
    /\ rec.pc \in {"mount", "mounting"} => rec.todo \subseteq Candidates
    /\ rec.pc \in {"disable", "uninstall"} => \E x \in K : rec.todo = {x}

ThreadsSound(f, K, b) ==
    f \in [Threads -> SoundThreads(K)] /\ \A t \in Threads : Placed(f[t], K, b)

SoundRegistries(b) ==
    {reg \in Registries : /\ Rows \ Candidates \subseteq Known(reg)
                          /\ Known(reg) \cap Candidates \subseteq b
                          /\ ConflictFree(Active(reg))}

SoundApprovals(b) ==
    {a \in Approvals : \A c \in Candidates : a[c].decision = "approved-for-exact-diff" => c \in b}

(* Files that hold no row outside K, and a store that will write none.     *)
Disks(b, K) ==
    {d \in [registry : SoundRegistries(b), approvals : SoundApprovals(b), gov : Govs,
            store : [approvals : SoundApprovals(b), gov : SoundGovs(K)]] :
        Known(d.registry) \subseteq K /\ d.gov \in SoundGovs(Known(d.registry))}

(* Every registry, snapshot and approval the service could act on, now or  *)
(* after a crash, is free of conflicts, registered and approved.           *)
Inductive ==
    /\ registry \in SoundRegistries(blessed)
    /\ approvals \in SoundApprovals(blessed)
    /\ gov \in SoundGovs(Known(registry))
    /\ ThreadsSound(th, Known(registry), blessed)
    /\ disk \in Disks(blessed, Known(registry))
    /\ up = "down" => registry = disk.registry /\ \A t \in Threads : th[t].pc = "idle"
    /\ rt \in Runtimes
    /\ mutation \in Mutations /\ deferred \in BOOLEAN /\ up \in {"down", "booting", "up"}
    /\ intact \subseteq Candidates /\ blessed \subseteq Candidates
    /\ spent \in Spendings
=============================================================================
