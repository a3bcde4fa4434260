------------------------------- MODULE SkillIndex -------------------------------
(***************************************************************************)
(* index.json of the skill store: the record of every revision, the        *)
(* revision of each skill that is active, the last one that was, and the   *)
(* reviews and approvals given.  Every change is one atomic write.         *)
(***************************************************************************)
EXTENDS Naturals

CONSTANTS
    Names,           \* skills
    Ids,             \* their revisions, <<name, version>>
    Bytes,           \* contents of a bundle; the digest tells them apart
    Passing,         \* the contents independent review completes
    Policies,        \* invocation policies
    PolicyOf,        \* the policy the frontmatter of each content states
    DefaultPolicy,   \* of a draft nobody has validated
    None

ASSUME IndexAssumption ==
    /\ Ids \subseteq Names \X Nat
    /\ Passing \subseteq Bytes /\ DefaultPolicy \in Policies
    /\ PolicyOf \in [Bytes -> Policies]
    /\ None \notin Names \cup Nat \cup Ids \cup Bytes \cup (Bytes \X Policies)

Name(id) == id[1]

NoRecord == [life |-> "none"]

Draft(b) ==
    [life |-> "drafted", sealed |-> FALSE, digest |-> b, validated |-> FALSE,
     policy |-> DefaultPolicy, decision |-> "none", fingerprint |-> None]

(* What an approval is bound to. *)
Fingerprint(rec) == <<rec.digest, rec.policy>>

(* A record whose approval is for what it is now. *)
Authorised(rec) ==
    /\ rec.life # "none"
    /\ rec.decision = "approved"
    /\ rec.fingerprint = Fingerprint(rec)

EmptyIndex ==
    [records |-> [id \in Ids |-> NoRecord], active |-> [n \in Names |-> None],
     last |-> None, reviews |-> {}, approvals |-> {}, degraded |-> FALSE]

Update(index, id, rec) == [index EXCEPT !.records[id] = rec]

(* The order in which a revision goes through its life. *)
Rank ==
    [none |-> 0, drafted |-> 1, validated |-> 2, sealed |-> 3, review |-> 4,
     requested |-> 5, approved |-> 6, active |-> 7, disabled |-> 8, uninstalled |-> 9]

-----------------------------------------------------------------------------
(* Editing and judging a revision                                          *)

Validated(rec, b) ==
    [rec EXCEPT !.life = "validated", !.validated = TRUE, !.policy = PolicyOf[b]]

Sealed(rec, b) == [rec EXCEPT !.life = "sealed", !.sealed = TRUE, !.digest = b]

Reviewed(rec) ==
    [rec EXCEPT !.life = IF rec.digest \in Passing THEN "review" ELSE @]

Requested(rec) ==
    [rec EXCEPT !.life = "requested", !.decision = "requested",
                !.fingerprint = Fingerprint(rec)]

Approved(rec) ==
    [rec EXCEPT !.life = "approved", !.decision = "approved",
                !.fingerprint = Fingerprint(rec)]

Rejected(rec) == [rec EXCEPT !.life = "review", !.decision = "rejected"]

-----------------------------------------------------------------------------
(* The catalogue                                                           *)

(* The revision becomes the active one of its skill. *)
Activated(index, id) ==
    LET prior == index.active[Name(id)] IN
    [index EXCEPT
        !.records = [x \in Ids |->
            IF x = id THEN [index.records[x] EXCEPT !.life = "active"]
            ELSE IF Name(x) = Name(id) /\ index.records[x].life = "active"
                 THEN [index.records[x] EXCEPT !.life = "disabled"]
                 ELSE index.records[x]],
        !.active[Name(id)] = id,
        !.last = IF prior # None THEN prior ELSE @]

(* The active revision leaves the catalogue, disabled or uninstalled. *)
Retired(index, id, life) ==
    [index EXCEPT
        !.records = [x \in Ids |->
            IF x = id \/ (Name(x) = Name(id) /\ index.records[x].life = "active")
            THEN [index.records[x] EXCEPT !.life = life]
            ELSE index.records[x]],
        !.active[Name(id)] = None,
        !.last = id]
=============================================================================
