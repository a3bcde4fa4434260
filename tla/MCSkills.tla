-------------------------------- MODULE MCSkills --------------------------------
(***************************************************************************)
(* The store of one skill, with one or two revisions and as many contents, *)
(* or the console over two skills, of which one requires the other.  The   *)
(* two share no state: a behaviour is of the one that part names.          *)
(***************************************************************************)
EXTENDS SkillProperties, SkillDesk

CONSTANTS
    n1, b1, b2,    \* a skill and its contents
    sa, sb,        \* the skills of the console
    SkillParts,
    MaxTrouble     \* bound on what goes wrong in the store, together

TwoRevisions == {<<n1, 1>>, <<n1, 2>>}
OneRevision == {<<n1, 1>>}

(* The frontmatter of the second content differs from what a draft has. *)
PolicyOfBytes == [b \in Bytes |-> IF b = b1 THEN DefaultPolicy ELSE "user"]

DeskRevisions == {<<sa, 1>>, <<sb, 1>>, <<sb, 2>>}
FirstRevisions == {<<sa, 1>>, <<sb, 1>>}
DeskRequirements == [r \in DeskRevisions |-> IF r = <<sb, 1>> THEN {<<sa, 1>>} ELSE {}]

(* A long life with one post at a time, a short one with two, and one with *)
(* a step of the workbench on a revision that is further.                  *)
Room(writes, posts, steps) == [writes |-> writes, letters |-> posts, detours |-> steps]
DeskRooms == {Room(5, 1, 0), Room(2, 2, 0), Room(3, 1, 1)}

Trouble == faults + detours + kills

VARIABLE part

skillVars == <<part, vars, deskVars>>

SkillsInit ==
    /\ part \in SkillParts
    /\ Init
    /\ IF part = "desk" THEN DeskInit
                        ELSE /\ shelf = None /\ desk = None /\ tab = None
                             /\ letters = <<>> /\ room = None

SkillsNext ==
    /\ UNCHANGED part
    /\ \/ part = "store" /\ Next /\ Trouble' <= MaxTrouble /\ UNCHANGED deskVars
       \/ part = "desk" /\ SkillDeskNext /\ UNCHANGED vars

SkillsSpec == SkillsInit /\ [][SkillsNext]_skillVars
=============================================================================
