------------------------------- MODULE SkillStore -------------------------------
(***************************************************************************)
(* SkillService over its directories: candidates/<id>, and of each skill   *)
(* staging/incoming-<name>, active/<name> and history/outgoing-<name>.     *)
(* Its operations are synchronous, but for the wait of validate, and make  *)
(* one call to the disk after another; a call may fail, the process may    *)
(* be killed between two of them or in one, and the constructor of the     *)
(* next one recovers what it finds and checks the active catalogue.        *)
(***************************************************************************)
EXTENDS SkillIndex

CONSTANTS
    Torn,        \* a directory left half way: it is not what any digest says
    Faults,      \* the kinds of call that may fail
    MaxFaults,   \* bound on the calls that fail
    MaxDetours,  \* bound on the calls that do not take a revision onward
    MaxKills     \* bound on the ends of the process

ASSUME StoreAssumption ==
    /\ Torn \notin Bytes \cup {None}
    /\ Faults \subseteq {"directory", "cleanup", "index", "sync"}
    /\ {MaxFaults, MaxDetours, MaxKills} \subseteq Nat

VARIABLES
    index,        \* index.json
    candidates,   \* candidates/<id>
    incoming,     \* staging/incoming-<name>
    active,       \* active/<name>, what the DSH catalogue serves
    outgoing,     \* history/outgoing-<name>
    pc,           \* the next call of the operation under way
    op,           \* that operation
    loading,      \* a validate that waits for the parser, with what was read
    cut,          \* what a process before was taking back, until one is open again
    broken,       \* whether a call on the directories has failed
    faults, detours, kills

directories == <<candidates, incoming, active, outgoing>>
ends == <<cut, faults, broken, kills>>
counts == <<ends, detours>>
vars == <<index, directories, pc, op, loading, counts>>

NoOp == [kind |-> "none"]

Init ==
    /\ index = EmptyIndex
    /\ candidates = [id \in Ids |-> None]
    /\ incoming = [n \in Names |-> None]
    /\ active = [n \in Names |-> None]
    /\ outgoing = [n \in Names |-> None]
    /\ pc = "idle" /\ op = NoOp /\ loading = NoOp
    /\ cut = "nothing" /\ broken = FALSE /\ faults = 0 /\ detours = 0 /\ kills = 0

Goto(next) == pc' = next
Finish == Goto("idle") /\ op' = NoOp
Succeeds == UNCHANGED counts

Fails(kind) ==
    /\ kind \in Faults /\ faults < MaxFaults
    /\ faults' = faults + 1
    /\ broken' = (broken \/ kind = "directory")
    /\ UNCHANGED <<cut, detours, kills>>

Record(id) == index.records[id]

(* A call that would leave the revision at this point of its life. *)
Takes(id, life) ==
    IF Rank[life] > Rank[Record(id).life]
    THEN UNCHANGED detours
    ELSE detours < MaxDetours /\ detours' = detours + 1

Known(id) == Record(id).life # "none"

(* readAllowlistedSkillFiles succeeds. *)
Readable(dir) == dir \in Bytes

-----------------------------------------------------------------------------
(* Candidates                                                              *)

(* create, importLocal, and the fork of a sealed or active revision by     *)
(* writeFile and declareDependencies.  The directory a killed process left *)
(* without a record makes one call fail, which removes it.                 *)
Publish(id, b) ==
    /\ pc = "idle" /\ ~Known(id)
    /\ IF candidates[id] # None
       THEN candidates' = [candidates EXCEPT ![id] = None] /\ UNCHANGED <<pc, op>>
       ELSE /\ candidates' = [candidates EXCEPT ![id] = b]
            /\ op' = [kind |-> "publish", id |-> id, bytes |-> b]
            /\ Goto("record")
    /\ UNCHANGED <<index, incoming, active, outgoing, loading, counts>>

RecordCandidate ==
    /\ pc = "record"
    /\ \/ /\ index' = Update(index, op.id, Draft(op.bytes))
          /\ Succeeds /\ UNCHANGED candidates
       \/ /\ Fails("index")
          /\ candidates' = [candidates EXCEPT ![op.id] = None] /\ UNCHANGED index
    /\ Finish
    /\ UNCHANGED <<incoming, active, outgoing, loading>>

(* The revisions writeFile changes in place. *)
Editable(rec) == ~rec.sealed /\ rec.life # "active"

WriteFile(id, b) ==
    /\ pc = "idle" /\ Known(id) /\ Readable(candidates[id]) /\ Editable(Record(id))
    /\ candidates' = [candidates EXCEPT ![id] = b]
    /\ op' = [kind |-> "write", id |-> id, bytes |-> b]
    /\ Goto("digest") /\ Takes(id, Record(id).life)
    /\ UNCHANGED <<index, incoming, active, outgoing, loading, ends>>

(* The digest follows in a write of its own. *)
RecordDigest ==
    /\ pc = "digest"
    /\ \/ /\ index' = [index EXCEPT !.records[op.id].digest = op.bytes]
          /\ Succeeds
       \/ Fails("index") /\ UNCHANGED index
    /\ Finish
    /\ UNCHANGED <<directories, loading>>

(* An operation on a record that is one write of the index. *)
Judge(id, rec) ==
    /\ pc = "idle"
    /\ index' = Update(index, id, rec) /\ Takes(id, rec.life)
    /\ UNCHANGED <<directories, pc, op, loading, ends>>

(* validate waits for the parser, and then writes what it found whatever   *)
(* was done to the revision meanwhile.                                     *)
Load(id) ==
    /\ pc = "idle" /\ loading = NoOp
    /\ Known(id) /\ Readable(candidates[id])
    /\ loading' = [kind |-> "validate", id |-> id, bytes |-> candidates[id]]
    /\ Takes(id, "validated")
    /\ UNCHANGED <<index, directories, pc, op, ends>>

Validate ==
    /\ pc = "idle" /\ loading # NoOp
    /\ index' = Update(index, loading.id, Validated(Record(loading.id), loading.bytes))
    /\ loading' = NoOp
    /\ UNCHANGED <<directories, pc, op, counts>>

Seal(id) ==
    /\ Known(id) /\ Record(id).validated /\ Readable(candidates[id])
    /\ Judge(id, Sealed(Record(id), candidates[id]))

(* requestReview writes the record and then the review. *)
Review(id) ==
    /\ Known(id) /\ Record(id).sealed
    /\ pc = "idle"
    /\ index' = Update(index, id, Reviewed(Record(id))) /\ Takes(id, Reviewed(Record(id)).life)
    /\ op' = [kind |-> "review", id |-> id]
    /\ Goto("review")
    /\ UNCHANGED <<directories, loading, ends>>

RecordReview ==
    /\ pc = "review"
    /\ \/ /\ index' = IF Record(op.id).digest \in Passing
                      THEN [index EXCEPT !.reviews = @ \cup {<<op.id, Record(op.id).digest>>}]
                      ELSE index
          /\ Succeeds
       \/ Fails("index") /\ UNCHANGED index
    /\ Finish
    /\ UNCHANGED <<directories, loading>>

(* Fault: a review of any bytes will do. *)
MayRequestUnreviewed(id) == Record(id).sealed

(* Independent review completed for these very bytes. *)
MayRequest(id) == Record(id).sealed /\ <<id, Record(id).digest>> \in index.reviews

RequestApproval(id) ==
    /\ Known(id) /\ MayRequest(id)
    /\ Judge(id, Requested(Record(id)))

(* A person approves the fingerprint a request returned, whenever. *)
Approve(id) ==
    /\ Known(id) /\ Record(id).fingerprint = Fingerprint(Record(id))
    /\ pc = "idle"
    /\ index' = [Update(index, id, Approved(Record(id))) EXCEPT
                    !.approvals = @ \cup {<<id, Record(id).digest>>}]
    /\ Takes(id, "approved")
    /\ UNCHANGED <<directories, pc, op, loading, ends>>

Reject(id) ==
    /\ Known(id) /\ Record(id).life = "requested"
    /\ Record(id).fingerprint = Fingerprint(Record(id))
    /\ Judge(id, Rejected(Record(id)))

-----------------------------------------------------------------------------
(* The catalogue                                                           *)

(* activate, reactivate and rollback; rollback names index.last. *)
MayActivate(id) ==
    /\ Known(id) /\ ~index.degraded
    /\ Authorised(Record(id)) /\ candidates[id] = Record(id).digest

Activate(id) ==
    /\ pc = "idle" /\ MayActivate(id)
    /\ op' = [kind |-> "activate", id |-> id, before |-> index, cause |-> "none"]
    /\ Goto("publish")
    /\ UNCHANGED <<index, directories, loading, counts>>

(* disable and uninstall of the active revision. *)
Retire(id, life) ==
    /\ pc = "idle" /\ index.active[Name(id)] = id /\ ~index.degraded
    /\ op' = [kind |-> "retire", id |-> id, life |-> life, before |-> index,
              cause |-> "none"]
    /\ Goto("discard")
    /\ UNCHANGED <<index, directories, loading, counts>>

(* uninstall of another revision. *)
Uninstall(id) ==
    /\ Known(id) /\ index.active[Name(id)] # id
    /\ Judge(id, [Record(id) EXCEPT !.life = "uninstalled"])

Skill == Name(op.id)

TakeBack(cause) == Goto("undo") /\ op' = [op EXCEPT !.cause = cause]

(* A directory call that fails leaves the rest of the change undone and    *)
(* takes back what it finds.                                               *)
Abandon ==
    /\ Fails("directory")
    /\ incoming' = [incoming EXCEPT ![Skill] = IF op.kind = "activate" THEN None ELSE @]
    /\ TakeBack("directory")

PublishIncoming ==
    /\ pc = "publish"
    /\ \/ /\ incoming' = [incoming EXCEPT ![Skill] = candidates[op.id]]
          /\ Succeeds /\ Goto("discard") /\ UNCHANGED op
       \/ Abandon
    /\ UNCHANGED <<index, candidates, active, outgoing, loading>>

(* replaceActiveDirectory and retireActiveDirectory. *)
DiscardOutgoing ==
    /\ pc = "discard"
    /\ \/ /\ outgoing' = [outgoing EXCEPT ![Skill] = None]
          /\ Succeeds /\ Goto("park") /\ UNCHANGED <<incoming, op>>
       \/ Abandon /\ UNCHANGED outgoing
    /\ UNCHANGED <<index, candidates, active, loading>>

Park ==
    /\ pc = "park"
    /\ \/ /\ outgoing' = [outgoing EXCEPT ![Skill] = active[Skill]]
          /\ active' = [active EXCEPT ![Skill] = None]
          /\ Succeeds /\ UNCHANGED <<incoming, op>>
          /\ Goto(IF op.kind = "activate" THEN "place" ELSE "commit")
       \/ Abandon /\ active[Skill] # None /\ UNCHANGED <<active, outgoing>>
    /\ UNCHANGED <<index, candidates, loading>>

(* When the second rename fails, the first is taken back at once. *)
Place ==
    /\ pc = "place"
    /\ \/ /\ active' = [active EXCEPT ![Skill] = incoming[Skill]]
          /\ incoming' = [incoming EXCEPT ![Skill] = None]
          /\ Succeeds /\ Goto("commit") /\ UNCHANGED <<outgoing, op>>
       \/ /\ Abandon
          /\ active' = [active EXCEPT ![Skill] = outgoing[Skill]]
          /\ outgoing' = [outgoing EXCEPT ![Skill] = None]
    /\ UNCHANGED <<index, candidates, loading>>

(* finishCatalogCommit *)
Commit ==
    /\ pc = "commit"
    /\ \/ /\ index' = IF op.kind = "activate" THEN Activated(index, op.id)
                                              ELSE Retired(index, op.id, op.life)
          /\ Succeeds /\ Goto("sync") /\ UNCHANGED op
       \/ Fails("index") /\ TakeBack("index") /\ UNCHANGED index
    /\ UNCHANGED <<directories, loading>>

(* The provider of DSH is told; if it cannot follow, all is taken back. *)
SyncCatalog ==
    /\ pc = "sync"
    /\ \/ Succeeds /\ Goto("cleanup") /\ UNCHANGED op
       \/ Fails("sync") /\ TakeBack("sync")
    /\ UNCHANGED <<index, directories, loading>>

(* What is left of the outgoing revision does not fail the operation. *)
Cleanup ==
    /\ pc = "cleanup"
    /\ \/ outgoing' = [outgoing EXCEPT ![Skill] = None] /\ Succeeds
       \/ Fails("cleanup") /\ UNCHANGED outgoing
    /\ Finish
    /\ UNCHANGED <<index, candidates, incoming, active, loading>>

-----------------------------------------------------------------------------
(* Taking a change back                                                    *)

(* Fault: the index keeps the change the directories lost. *)
UndoneAtOnce == Finish

(* Only a change that was committed has its index to take back. *)
Undone == IF op.cause = "sync" THEN Goto("revert") /\ UNCHANGED op ELSE Finish

(* A way back that fails is marked, or thrown on from a catch branch. *)
Stranded ==
    /\ Fails("directory")
    /\ IF op.cause = "directory" THEN Finish ELSE Goto("degrade") /\ UNCHANGED op

(* rollbackActiveDirectory: the new directory goes, the old one returns. *)
Undo ==
    /\ pc = "undo"
    /\ \/ /\ active' = [active EXCEPT ![Skill] = None]
          /\ IF outgoing[Skill] # None THEN Goto("restore") /\ UNCHANGED op ELSE Undone
          /\ Succeeds
       \/ Stranded /\ UNCHANGED active
    /\ UNCHANGED <<index, candidates, incoming, outgoing, loading>>

Restore ==
    /\ pc = "restore"
    /\ \/ /\ active' = [active EXCEPT ![Skill] = outgoing[Skill]]
          /\ outgoing' = [outgoing EXCEPT ![Skill] = None]
          /\ Undone /\ Succeeds
       \/ Stranded /\ UNCHANGED <<active, outgoing>>
    /\ UNCHANGED <<index, candidates, incoming, loading>>

(* rollbackCatalogMutation writes the index of before and tells DSH again. *)
Revert ==
    /\ pc = "revert"
    /\ \/ index' = op.before /\ Goto("resync") /\ Succeeds
       \/ Fails("index") /\ Goto("degrade") /\ UNCHANGED index
    /\ UNCHANGED <<directories, op, loading>>

Resync ==
    /\ pc = "resync"
    /\ \/ Finish /\ Succeeds
       \/ Fails("sync") /\ Goto("degrade") /\ UNCHANGED op
    /\ UNCHANGED <<index, directories, loading>>

MarkDegraded ==
    /\ pc = "degrade"
    /\ \/ index' = [index EXCEPT !.degraded = TRUE] /\ Succeeds
       \/ Fails("index") /\ UNCHANGED index
    /\ Finish
    /\ UNCHANGED <<directories, loading>>

-----------------------------------------------------------------------------
(* The end of a process and the next one                                   *)

(* A directory that is being removed or copied may be left half way.  A    *)
(* candidate that is written in place may be left with any content.        *)
Tear(dir, key, going) ==
    \/ dir' = dir
    \/ going /\ dir' = [dir EXCEPT ![key] = Torn]

Mix ==
    \/ UNCHANGED candidates
    \/ pc = "digest" /\ \E left \in Bytes \cup {Torn} :
                            candidates' = [candidates EXCEPT ![op.id] = left]

(* Fault: what was put in place is always kept. *)
DiffersNever(n) == FALSE

(* The directory of the active revision is not what the index says. *)
Differs(n) == index.active[n] # None /\ active[n] # Record(index.active[n]).digest

(* What recoverInterrupted removes next.                                   *)
DropsIncoming(n) == active[n] # None /\ incoming[n] # None

DropsActive(n) ==
    /\ active[n] # None /\ incoming[n] = None
    /\ IF outgoing[n] # None THEN Differs(n) ELSE index.active[n] = None

DropsOutgoing(n) ==
    /\ active[n] # None /\ incoming[n] = None /\ outgoing[n] # None
    /\ ~Differs(n)

(* recoverInterrupted, one call at a time. *)
RestoreParked(n) ==
    /\ active[n] = None /\ outgoing[n] # None
    /\ active' = [active EXCEPT ![n] = outgoing[n]]
    /\ outgoing' = [outgoing EXCEPT ![n] = None]
    /\ UNCHANGED incoming

Drop(n) ==
    \/ /\ DropsIncoming(n) /\ incoming' = [incoming EXCEPT ![n] = None]
       /\ UNCHANGED <<active, outgoing>>
    \/ /\ DropsActive(n) /\ active' = [active EXCEPT ![n] = None]
       /\ UNCHANGED <<incoming, outgoing>>
    \/ /\ DropsOutgoing(n) /\ outgoing' = [outgoing EXCEPT ![n] = None]
       /\ UNCHANGED <<incoming, active>>

Recover(n) ==
    /\ pc = "opening"
    /\ RestoreParked(n) \/ Drop(n)
    /\ UNCHANGED <<index, candidates, pc, op, loading, counts>>

(* The digest of a directory removed half way may not be taken at all. *)
Unreadable(n) ==
    /\ pc = "opening" /\ index.active[n] # None
    /\ active[n] = Torn /\ incoming[n] = None /\ outgoing[n] # None
    /\ Goto("refused")
    /\ UNCHANGED <<index, directories, op, loading, counts>>

Recovered(n) ==
    /\ outgoing[n] = None
    /\ active[n] # None => incoming[n] = None /\ index.active[n] # None

(* preflightActiveCatalog *)
Whole(n) ==
    index.active[n] # None =>
        Authorised(Record(index.active[n])) /\ active[n] = Record(index.active[n]).digest

Preflight ==
    /\ pc = "opening" /\ \A n \in Names : Recovered(n)
    /\ Goto(IF \A n \in Names : Whole(n) THEN "attach" ELSE "refused")
    /\ UNCHANGED <<index, directories, op, loading, counts>>

Opened ==
    /\ Goto("idle") /\ cut' = "nothing"
    /\ UNCHANGED <<faults, broken, detours, kills>>

(* attachInvalidation, which a start in Safe Mode leaves out. *)
Attach ==
    /\ pc = "attach"
    /\ \/ index' = [index EXCEPT !.degraded = FALSE] /\ Opened
       \/ UNCHANGED index /\ Opened
       \/ index.degraded /\ Fails("index") /\ Goto("opening") /\ UNCHANGED index
    /\ UNCHANGED <<directories, op, loading>>

(* The process is killed at any call, a call of a start included: the next *)
(* one finds what was being removed or copied half way.                    *)
Kill ==
    /\ pc # "refused" /\ kills < MaxKills
    /\ \/ pc = "opening" /\ UNCHANGED candidates
          /\ \E n \in Names : /\ Tear(incoming, n, DropsIncoming(n))
                              /\ Tear(active, n, DropsActive(n))
                              /\ Tear(outgoing, n, DropsOutgoing(n))
       \/ pc # "opening" /\ op = NoOp /\ UNCHANGED directories
       \/ /\ pc # "opening" /\ op # NoOp
          /\ Mix
          /\ Tear(incoming, Skill, pc = "publish")
          /\ Tear(active, Skill, pc = "undo" /\ active[Skill] # None)
          /\ Tear(outgoing, Skill, pc \in {"discard", "cleanup"} /\ outgoing[Skill] # None)
    /\ Goto("opening") /\ op' = NoOp /\ loading' = NoOp
    /\ cut' = CASE pc \in {"undo", "restore", "revert", "degrade"} -> op.cause
               [] pc \in {"opening", "attach"} ->
                     IF cut # "sync" /\ active' # active THEN "recovery" ELSE cut
               [] OTHER -> "nothing"
    /\ kills' = kills + 1
    /\ UNCHANGED <<index, faults, broken, detours>>

-----------------------------------------------------------------------------
Editing(id) ==
    \/ \E b \in Bytes : Publish(id, b) \/ WriteFile(id, b)
    \/ Load(id) \/ Seal(id) \/ Review(id) \/ RequestApproval(id)

Trusted(id) ==
    \/ Approve(id) \/ Reject(id) \/ Activate(id) \/ Uninstall(id)
    \/ \E life \in {"disabled", "uninstalled"} : Retire(id, life)

Step ==
    \/ RecordCandidate \/ RecordDigest \/ Validate \/ RecordReview
    \/ PublishIncoming \/ DiscardOutgoing \/ Park \/ Place \/ Commit \/ SyncCatalog \/ Cleanup
    \/ Undo \/ Restore \/ Revert \/ Resync \/ MarkDegraded

Start == Preflight \/ Attach \/ \E n \in Names : Recover(n) \/ Unreadable(n)

Next == (\E id \in Ids : Editing(id) \/ Trusted(id)) \/ Step \/ Start \/ Kill

Spec == Init /\ [][Next]_vars
=============================================================================
