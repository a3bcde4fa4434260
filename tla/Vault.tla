---------------------------------- MODULE Vault ----------------------------------
(***************************************************************************)
(* The Obsidian vault: notes the assistant creates and appends to after a  *)
(* proposal its user approved, while Obsidian itself, another process,     *)
(* edits them.  A note is the set of the passages it holds.  The knowledge *)
(* index keeps what it was last given of each note.                        *)
(***************************************************************************)
EXTENDS Naturals

CONSTANTS
    Notes,
    FirstNotes,   \* those there at the start
    Proposals,
    MaxEdits      \* bound on the edits made in Obsidian

ASSUME VaultAssumption == MaxEdits \in Nat /\ Proposals \cap (0 .. MaxEdits) = {}

VARIABLES
    note,         \* the files: there, and their passages
    indexed,      \* the knowledge of each note
    proposal,     \* what was proposed, over which text, and how far it is
    edits

vaultVars == <<note, indexed, proposal, edits>>

NoNote == [there |-> FALSE, text |-> {}]
NoProposal == [action |-> "none", on |-> "none", base |-> {}, seen |-> {},
               at |-> "none"]

(* apply: the scan of the start. *)
VaultInit ==
    /\ note = [n \in Notes |-> IF n \in FirstNotes THEN [there |-> TRUE, text |-> {0}] ELSE NoNote]
    /\ indexed = note
    /\ proposal = [p \in Proposals |-> NoProposal] /\ edits = 0

ProposalAt(p, step) == proposal[p].at = step
Advance(p, step) == proposal' = [proposal EXCEPT ![p].at = step]

(* The calls of the assistant do not interrupt one another. *)
NoneWriting == \A p \in Proposals : proposal[p].at \notin {"opened", "read"}

(* The user writes in Obsidian, or deletes a note. *)
EditNote(n) ==
    /\ edits < MaxEdits /\ edits' = edits + 1
    /\ \/ note' = [note EXCEPT ![n] = [there |-> TRUE, text |-> @.text \cup {edits + 1}]]
       \/ note[n].there /\ note' = [note EXCEPT ![n] = NoNote]
    /\ UNCHANGED <<indexed, proposal>>

(* proposeCreate and proposeAppend. *)
Propose(p, n) ==
    /\ NoneWriting /\ ProposalAt(p, "none")
    /\ proposal' = [proposal EXCEPT ![p] =
                      [action |-> IF note[n].there THEN "append" ELSE "create", on |-> n,
                       base |-> note[n].text, seen |-> {}, at |-> "proposed"]]
    /\ UNCHANGED <<note, indexed, edits>>

(* The approved operation that finds a note it may not write fails. *)
RefuseWrite(p) ==
    /\ NoneWriting /\ ProposalAt(p, "proposed")
    /\ \/ note[proposal[p].on].there # (proposal[p].action = "append")
       \/ proposal[p].action = "append" /\ note[proposal[p].on].text # proposal[p].base
    /\ Advance(p, "failed")
    /\ UNCHANGED <<note, indexed, edits>>

(* create: the exclusive open makes the file, or fails; the text follows.  *)
OpenNote(p) ==
    /\ NoneWriting /\ ProposalAt(p, "proposed") /\ proposal[p].action = "create" /\ ~note[proposal[p].on].there
    /\ note' = [note EXCEPT ![proposal[p].on] = [there |-> TRUE, text |-> {}]]
    /\ Advance(p, "opened")
    /\ UNCHANGED <<indexed, edits>>

(* Fault: the digest is not compared. *)
UnchangedAny(p) == note[proposal[p].on].there

Unchanged(p) == note[proposal[p].on].there /\ note[proposal[p].on].text = proposal[p].base

(* append: read and compare ... *)
ReadNote(p) ==
    /\ NoneWriting /\ ProposalAt(p, "proposed") /\ proposal[p].action = "append" /\ Unchanged(p)
    /\ proposal' = [proposal EXCEPT ![p].at = "read", ![p].seen = note[proposal[p].on].text]
    /\ UNCHANGED <<note, indexed, edits>>

(* ... then the temporary file takes the place of the note, whatever became*)
(* of it meanwhile.  A created file is written through its descriptor: an  *)
(* edit made since the open can stay beside the text, or the file be gone. *)
Landed(p) ==
    IF ProposalAt(p, "read")
    THEN {[there |-> TRUE, text |-> proposal[p].seen \cup {p}]}
    ELSE IF note[proposal[p].on].there
         THEN {[there |-> TRUE, text |-> kept \cup {p}] : kept \in SUBSET note[proposal[p].on].text}
         ELSE {NoNote}

(* refresh: the index gets the text as it was meant. *)
Refreshed(p) ==
    indexed' = [indexed EXCEPT ![proposal[p].on] =
                   [there |-> TRUE, text |-> proposal[p].seen \cup {p}]]

WriteNote(p) ==
    /\ ProposalAt(p, "opened") \/ ProposalAt(p, "read")
    /\ \E file \in Landed(p) : note' = [note EXCEPT ![proposal[p].on] = file]
    /\ Refreshed(p)
    /\ Advance(p, "written")
    /\ UNCHANGED edits

(* The write fails: a created file stays as it is, an appended note is not  *)
(* replaced.                                                               *)
WriteFails(p) ==
    /\ ProposalAt(p, "opened") \/ ProposalAt(p, "read")
    /\ Advance(p, "failed")
    /\ UNCHANGED <<note, indexed, edits>>

VaultNext ==
    \/ \E n \in Notes : EditNote(n) \/ (\E p \in Proposals : Propose(p, n))
    \/ \E p \in Proposals : RefuseWrite(p) \/ OpenNote(p) \/ ReadNote(p) \/ WriteNote(p) \/ WriteFails(p)

VaultSpec == VaultInit /\ [][VaultNext]_vaultVars
-----------------------------------------------------------------------------
(* An append adds its passage to the text its user approved it for and to  *)
(* no other: a note that was edited, deleted or written by another         *)
(* proposal between the proposal and the approval is not written.          *)
AppendsToSeen ==
    [][\A p \in Proposals :
          proposal[p].at = "read" /\ proposal'[p].at = "written" =>
             note'[proposal[p].on].text = proposal[p].base \cup {p}]_vaultVars
=============================================================================
