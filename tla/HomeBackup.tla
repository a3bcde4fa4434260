------------------------------ MODULE HomeBackup ------------------------------
(***************************************************************************)
(* backup and restore of the durable self-extension tree: the authority,   *)
(* the sealed candidates it depends on and the skills.  Both copy file by  *)
(* file and may stop after any of them: by an error, or because the        *)
(* process died.  Between two operations the home goes on, and a disk may  *)
(* damage what a directory holds.                                          *)
(***************************************************************************)
EXTENDS Naturals, FiniteSets

CONSTANTS
    MaxAuthority,    \* bound on the generations of the authority
    MaxDamage        \* bound on the damaged parts

ASSUME BackupAssumption == MaxAuthority \in Nat /\ MaxDamage \in Nat

SealedRows == 1 .. MaxAuthority

VARIABLES
    home,       \* the durable tree
    copy,       \* the directory of the backup
    staging,    \* <root>.restore-<pid>
    manifest,   \* the backup has its manifest.json
    doing,      \* the operation and the step it is at
    damage      \* how much was damaged

backupVars == <<home, copy, staging, manifest, doing, damage>>

(* Its parts: the sealed candidates by their generation, and the skills.   *)
Skills == 0

(* A tree: which authority it holds, and its parts: as sealed, or not.      *)
Tree(generation, parts) == [authority |-> generation, good |-> parts, bad |-> {}]

NoTree == Tree(0, {})

PartsIn(tree) == tree.good \cup tree.bad

(* requiredBackupRows: what the authority of a generation depends on. *)
RequiredRows(generation) == {c \in SealedRows : c <= generation}

(* Everything the authority depends on is there as it was sealed. *)
Whole(tree) == tree.authority > 0 /\ RequiredRows(tree.authority) \cup {Skills} \subseteq tree.good

BackupInit ==
    /\ home = Tree(1, {1, Skills}) /\ copy = NoTree /\ staging = NoTree
    /\ manifest = FALSE /\ doing = "nothing" /\ damage = 0

Doing(step) == doing = step

(* An error: the finally of a restore removes the staged tree. *)
BackupFails ==
    /\ doing # "nothing" /\ doing' = "nothing"
    /\ staging' = IF doing \in {"stage", "remove", "rename"} THEN NoTree ELSE staging
    /\ UNCHANGED <<home, copy, manifest, damage>>

(* The process dies: what is on the disk stays there. *)
BackupDies ==
    /\ doing # "nothing" /\ doing' = "nothing"
    /\ UNCHANGED <<home, copy, staging, manifest, damage>>

(* The program between two commands: a new generation, one more candidate; *)
(* a home without a tree starts again from nothing.                        *)
HomeGoesOn ==
    /\ Doing("nothing") /\ home.authority < MaxAuthority
    /\ home' = [home EXCEPT !.authority = @ + 1,
                            !.good = (@ \cup {home.authority + 1, Skills}) \ home.bad]
    /\ UNCHANGED <<copy, staging, manifest, doing, damage>>

Spoiled(tree, part) == [tree EXCEPT !.good = @ \ {part}, !.bad = @ \cup {part}]

DamagePart ==
    /\ damage < MaxDamage /\ damage' = damage + 1
    /\ \/ \E part \in home.good : home' = Spoiled(home, part) /\ UNCHANGED copy
       \/ \E part \in copy.good : copy' = Spoiled(copy, part) /\ UNCHANGED home
    /\ UNCHANGED <<staging, manifest, doing>>

-----------------------------------------------------------------------------
(* backupSelfExtension                                                     *)

(* verifyCandidateDigest for every required row. *)
RowsHold(tree) == RequiredRows(tree.authority) \subseteq tree.good

BackupStarts ==
    /\ Doing("nothing") /\ home.authority > 0 /\ RowsHold(home)
    /\ doing' = "copy"
    /\ copy' = Tree(home.authority, {}) /\ manifest' = FALSE
    /\ UNCHANGED <<home, staging, damage>>

(* copyRequiredArtifacts: each row is verified again before it is copied.  *)
CopyRow(c) ==
    /\ Doing("copy") /\ c \in RequiredRows(copy.authority) \ PartsIn(copy)
    /\ \A d \in RequiredRows(copy.authority) \ PartsIn(copy) : c <= d
    /\ c \in home.good
    /\ copy' = [copy EXCEPT !.good = @ \cup {c}]
    /\ UNCHANGED <<home, staging, manifest, doing, damage>>

(* copySkillAuthority, then the manifest. *)
CopySkills ==
    /\ Doing("copy") /\ RequiredRows(copy.authority) \subseteq PartsIn(copy)
    /\ Skills \in home.good
    /\ copy' = [copy EXCEPT !.good = @ \cup {Skills}]
    /\ doing' = "manifest"
    /\ UNCHANGED <<home, staging, manifest, damage>>

WriteManifest ==
    /\ Doing("manifest") /\ manifest' = TRUE /\ doing' = "nothing"
    /\ UNCHANGED <<home, copy, staging, damage>>

-----------------------------------------------------------------------------
(* restoreSelfExtension                                                    *)

RestoreStarts ==
    /\ Doing("nothing") /\ manifest /\ copy.authority > 0 /\ RowsHold(copy)
    /\ doing' = "stage" /\ staging' = Tree(copy.authority, {})
    /\ UNCHANGED <<home, copy, manifest, damage>>

(* Fault: what the check before the restore saw is copied without a second *)
(* look.                                                                   *)
StagedRowUnchecked(c) ==
    staging' = IF c \in copy.good THEN [staging EXCEPT !.good = @ \cup {c}]
                                  ELSE [staging EXCEPT !.bad = @ \cup {c}]

StagedRow(c) == c \in copy.good /\ staging' = [staging EXCEPT !.good = @ \cup {c}]

StageRow(c) ==
    /\ Doing("stage") /\ c \in RequiredRows(staging.authority) \ PartsIn(staging)
    /\ \A d \in RequiredRows(staging.authority) \ PartsIn(staging) : c <= d
    /\ StagedRow(c)
    /\ UNCHANGED <<home, copy, manifest, doing, damage>>

(* copySkillAuthorityFromBackup: the profiles are verified, then copied.   *)
StageSkills ==
    /\ Doing("stage") /\ RequiredRows(staging.authority) \subseteq PartsIn(staging)
    /\ Skills \in copy.good
    /\ staging' = [staging EXCEPT !.good = @ \cup {Skills}]
    /\ doing' = "remove"
    /\ UNCHANGED <<home, copy, manifest, damage>>

RemoveHome ==
    /\ Doing("remove") /\ doing' = "rename"
    /\ home' = NoTree
    /\ UNCHANGED <<copy, staging, manifest, damage>>

RenameStaged ==
    /\ Doing("rename") /\ doing' = "nothing"
    /\ home' = staging /\ staging' = NoTree
    /\ UNCHANGED <<copy, manifest, damage>>

BackupNext ==
    \/ BackupFails \/ BackupDies \/ HomeGoesOn \/ DamagePart
    \/ BackupStarts \/ CopySkills \/ WriteManifest
    \/ RestoreStarts \/ StageSkills \/ RemoveHome \/ RenameStaged
    \/ \E c \in SealedRows : CopyRow(c) \/ StageRow(c)

BackupSpec == BackupInit /\ [][BackupNext]_backupVars
-----------------------------------------------------------------------------
(* A restore gives the home a whole tree or leaves it as it was: the old   *)
(* tree goes only when a verified one is ready to take its place, nothing  *)
(* but that tree takes it, and a backup touches neither.                   *)
RestoreWhole ==
    [][home' # home /\ doing # "nothing" /\ damage' = damage =>
          /\ Whole(staging)
          /\ home' = NoTree \/ (home = NoTree /\ home' = staging)]_backupVars
=============================================================================
