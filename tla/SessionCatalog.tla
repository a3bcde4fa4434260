----------------------------- MODULE SessionCatalog -----------------------------
(***************************************************************************)
(* The catalogue of conversations and its journal, as values: what each    *)
(* operation of SessionCatalog makes of a catalogue, which journals may be *)
(* on disk, and which catalogue a restart takes from them.  Titles,        *)
(* previews and times are left out: they show only in the revision.        *)
(***************************************************************************)
EXTENDS Naturals, FiniteSets

CONSTANTS
    MaxSessions,      \* bound on the session ids that are generated
    Confirmations     \* ids of the tickets whose origin is recorded

ASSUME CatalogAssumption == MaxSessions \in Nat \ {0}

(* Ids are random: the nth generated one is n, and 1 is "main". *)
Sessions == 1 .. MaxSessions

None == 0

Lifecycles == {"absent", "active", "archived"}

Catalogs == [current : Sessions, revision : Nat,
             life : [Sessions -> Lifecycles],
             origins : [Confirmations -> Sessions \cup {None}]]

Listed(cat) == {s \in Sessions : cat.life[s] # "absent"}

ActiveIn(cat) == {s \in Sessions : cat.life[s] = "active"}

(* One write of a catalogue that moves the current session or a lifecycle. *)
Rewritten(cat, current, id, life) ==
    [current |-> current, revision |-> cat.revision + 1,
     life |-> [cat.life EXCEPT ![id] = life], origins |-> cat.origins]

(* touch, rename and syncTitle. *)
Annotated(cat) == [cat EXCEPT !.revision = @ + 1]

(* noteApprovalOrigin: written once, and it is no new revision. *)
Noted(cat, c, s) ==
    IF cat.origins[c] = None THEN [cat EXCEPT !.origins[c] = s] ELSE cat

(* Fault: the session that goes is not left out. *)
SuccessorsItself(cat, id) ==
    IF cat.current = id THEN ActiveIn(cat) ELSE {cat.current}

(* The sessions archive and delete may go on with: the current one, or if  *)
(* it is the one that goes, the first other active one of the list, which  *)
(* may be any of them.                                                     *)
Successors(cat, id) ==
    IF cat.current = id THEN ActiveIn(cat) \ {id} ELSE {cat.current}

-----------------------------------------------------------------------------
(* createAndSwitch, switchTo, archive and delete under the journal         *)

Ops == {"create", "switch", "archive", "delete"}

(* The checks of the operation, after its revision was found current. *)
Applicable(cat, op, id) ==
    CASE op = "create"  -> id \notin Listed(cat)
      [] op = "switch"  -> id \in ActiveIn(cat)
      [] op = "archive" -> id \in Listed(cat) /\ ActiveIn(cat) # {id}
      [] op = "delete"  -> id \in Listed(cat) /\ ActiveIn(cat) # {id}

(* What the operation leaves the session as. *)
Outcome == [create |-> "active", switch |-> "active", archive |-> "archived", delete |-> "absent"]

Applied(cat, op, id, to) == Rewritten(cat, to, id, Outcome[op])

-----------------------------------------------------------------------------
(* The journal                                                             *)

NoJournal == [phase |-> "none"]

(* Journal entries name the session to unlink only for a delete. *)
Prepared(op, id, from, to, cat) ==
    [phase |-> "prepared", op |-> op, from |-> from, to |-> to,
     previous |-> cat, unlink |-> IF op = "delete" THEN {id} ELSE {}]

(* Fault: the snapshot is added and the phase is not. *)
CommittedUnmarked(entry, cat) ==
    [phase |-> entry.phase, op |-> entry.op, from |-> entry.from, to |-> entry.to,
     previous |-> entry.previous, unlink |-> entry.unlink, intended |-> cat]

Committed(entry, cat) ==
    [phase |-> "committed", op |-> entry.op, from |-> entry.from, to |-> entry.to,
     previous |-> entry.previous, unlink |-> entry.unlink, intended |-> cat]

(* originSuperset: no origin of the older catalogue is missing or other. *)
KeepsOrigins(next, previous) ==
    \A c \in Confirmations : previous.origins[c] # None => next.origins[c] = previous.origins[c]

Changed(previous, next) == {s \in Sessions : previous.life[s] # next.life[s]}

(* The lifecycle changes a committed entry may record. *)
LegalChange(entry) ==
    LET changed == Changed(entry.previous, entry.intended)
    IN  CASE entry.op = "switch"  -> changed = {}
          [] entry.op = "archive" ->
                \E s \in Listed(entry.previous) :
                    changed = {s} /\ entry.intended.life[s] = "archived"
          [] entry.op = "delete"  ->
                changed = entry.unlink /\ entry.unlink \cap Listed(entry.intended) = {}
          [] entry.op = "create"  -> changed = {entry.to}

(* assertJournalTransition, made before every write and after every read. *)
JournalOK(entry) ==
    /\ entry.previous.current = entry.from
    /\ entry.op = "delete" =>
          entry.to \notin entry.unlink /\ entry.unlink \subseteq Listed(entry.previous)
    /\ IF entry.op = "create" THEN entry.to \notin Listed(entry.previous)
       ELSE entry.to \in ActiveIn(entry.previous)
    /\ entry.phase = "committed" =>
          /\ entry.intended.current = entry.to /\ entry.to \in ActiveIn(entry.intended)
          /\ entry.intended.revision > entry.previous.revision
          /\ KeepsOrigins(entry.intended, entry.previous)
          /\ LegalChange(entry)

(* isCommittedSuccessor: the catalogue already continues the entry. *)
IsSuccessor(cat, intended) ==
    /\ cat.current = intended.current
    /\ cat.revision >= intended.revision
    /\ cat.life = intended.life
    /\ KeepsOrigins(cat, intended)

(* sameSnapshot, which does not look at origins. *)
SameSnapshot(cat, other) ==
    cat.revision = other.revision /\ cat.current = other.current /\ cat.life = other.life

(* The catalogue resolveStartSession leaves. *)
Recovered(cat, entry) ==
    CASE entry.phase = "prepared"  -> entry.previous
      [] entry.phase = "committed" ->
            IF IsSuccessor(cat, entry.intended) THEN cat ELSE entry.intended
      [] OTHER -> cat
=============================================================================
