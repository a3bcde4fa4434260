---------------------------- MODULE SkillProperties ----------------------------
(***************************************************************************)
(* What the skill store owes to its skills.                                *)
(***************************************************************************)
EXTENDS SkillStore

Lives == {"drafted", "validated", "sealed", "review", "requested",
          "approved", "active", "disabled", "uninstalled"}

Records ==
    {NoRecord} \cup
    [life : Lives, sealed : BOOLEAN, digest : Bytes, validated : BOOLEAN,
     policy : Policies, decision : {"none", "requested", "approved", "rejected"},
     fingerprint : {None} \cup (Bytes \X Policies)]

Directories == Bytes \cup {None, Torn}

(* The values of the index and of the directories. *)
SkillTypeOK ==
    /\ \A id \in Ids : Record(id) \in Records /\ candidates[id] \in Directories
    /\ \A n \in Names :
          /\ {active[n], outgoing[n], incoming[n]} \subseteq Directories
          /\ index.active[n] # None => index.active[n] \in Ids /\ Name(index.active[n]) = n
    /\ index.last \in Ids \cup {None} /\ index.degraded \in BOOLEAN
    /\ index.reviews \cup index.approvals \subseteq Ids \X Bytes
    /\ pc \in {"idle", "record", "digest", "review", "publish", "discard", "park", "place",
               "commit", "sync", "cleanup", "undo", "restore", "revert", "resync", "degrade",
               "opening", "attach", "refused"}

(* Between operations the directory DSH serves holds what the index says   *)
(* is active, or the catalogue is marked as degraded: unless a call on the *)
(* directories failed, whose catch branch removes the live directory.      *)
Serves(n) ==
    active[n] = IF index.active[n] = None THEN None ELSE Record(index.active[n]).digest

ServedIsCommitted ==
    pc = "idle" /\ ~broken =>
        index.degraded \/ \A n \in Names : Serves(n)

(* The approval of the active revision was withdrawn by a request. *)
Withdrawn == \E n \in Names : index.active[n] # None /\ ~Authorised(Record(index.active[n]))

(* A process was killed half way through the removal of a live directory   *)
(* that is to give way to the revision the index names, which is parked    *)
(* beside it, whole: in the way back of a change that could not be         *)
(* committed, or in the recovery of a start (skill/service.ts:655).        *)
HalfRemoved(n) ==
    /\ cut \in {"index", "recovery"}
    /\ index.active[n] # None /\ active[n] = Torn /\ outgoing[n] = Record(index.active[n]).digest

(* A start is refused only over an approval that a request withdrew, a     *)
(* catalogue marked as degraded, a directory call that failed, a process   *)
(* killed while it took back a change it had committed, or a directory it  *)
(* was killed in the middle of removing, and then the revision the index   *)
(* names is still there.  A process killed at any other call, of an        *)
(* operation or of an earlier start, leaves a catalogue that opens.        *)
StartsAgain ==
    pc = "refused" =>
        \/ Withdrawn \/ index.degraded \/ broken \/ cut = "sync"
        \/ \E n \in Names : HalfRemoved(n)

(* "is missing committed authority", "artifact is missing": the catalogue  *)
(* of a home that only its own calls changed is never refused at a start.  *)
StartPasses == pc # "refused"

(* The bytes DSH serves were approved by a person as they are, for a       *)
(* revision of that skill whose review was completed for the same bytes;   *)
(* and so were those a rollback would bring back.                          *)
ServedWasApproved ==
    /\ \A n \in Names : active[n] \in Bytes =>
          \E id \in Ids : Name(id) = n /\ <<id, active[n]>> \in index.approvals \cap index.reviews
    /\ index.last # None => <<index.last, Record(index.last).digest>> \in index.approvals

(* A sealed revision keeps its bytes and is what its digest says. *)
SealedKept == \A id \in Ids : Record(id).life # "none" /\ Record(id).sealed =>
                  candidates[id] = Record(id).digest
=============================================================================
