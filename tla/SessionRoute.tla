------------------------------ MODULE SessionRoute ------------------------------
(***************************************************************************)
(* LiveSessionHost and the start of the product: a change of conversation  *)
(* runs as a journalled transaction over four files (catalogue, journal,   *)
(* product.json and the transcripts) and the two agents, with waits in     *)
(* which origins are still recorded; any call may fail, the process may    *)
(* die between two writes, and the next start resolves what it finds.      *)
(***************************************************************************)
EXTENDS SessionCatalog

CONSTANTS
    InitialSessions,   \* sessions the catalogue starts with
    Flags,             \* sessions a start may be given by flag or environment
    MaxRevision,       \* bound on the revision of the catalogue
    MaxFaults,         \* bound on the writes that fail
    MaxCrashes         \* bound on the ends of the process

ASSUME RouteAssumption ==
    /\ InitialSessions \in Sessions /\ Flags \subseteq Sessions
    /\ MaxRevision \in Nat /\ MaxFaults \in Nat /\ MaxCrashes \in Nat

VARIABLES
    catalog,      \* .tars-ng-catalog.json
    journal,      \* .tars-ng-catalog.journal.json
    product,      \* runtime.sessionId of product.json
    discarded,    \* sessions whose transcript was unlinked
    pc,           \* where the start or the route is
    surface,      \* the session the control surface and the host serve
    agents,       \* sessions with an agent that was not disposed of
    safeMode,     \* the lifecycle is frozen
    route,        \* the route under way
    made,         \* the ids generated so far
    faults, crashes

disk == <<catalog, journal, product, discarded>>
memory == <<surface, agents, safeMode, route>>
counts == <<made, faults, crashes>>
vars == <<disk, pc, memory, counts>>

NoRoute == [op |-> "none"]

(* A home bound before it had a catalogue, or one with some sessions. *)
Init ==
    /\ \E n \in {0, InitialSessions} :
          catalog = [current |-> 1, revision |-> IF n = 0 THEN 0 ELSE 1,
                     life |-> [s \in Sessions |-> IF s <= n THEN "active" ELSE "absent"],
                     origins |-> [c \in Confirmations |-> None]]
    /\ journal = NoJournal
    /\ product = 1
    /\ discarded = {}
    /\ pc = "down"
    /\ surface = None /\ agents = {} /\ safeMode = FALSE /\ route = NoRoute
    /\ made = InitialSessions
    /\ faults = 0 /\ crashes = 0

Starting == {"rolledBack", "start", "recoverProduct", "recoverUnlink", "recoverClear"}
Routing == {"open", "journal", "apply", "commit", "persist", "adopt", "dispose", "unlink",
            "undo", "undoProduct", "undoClear"}

Goto(next) == pc' = next

-----------------------------------------------------------------------------
(* The start: resolveStartSession, then the agent, then the journal        *)

(* A prepared entry is rolled back ... *)
RollBack ==
    /\ pc = "down" /\ journal.phase = "prepared"
    /\ catalog' = Recovered(catalog, journal)
    /\ Goto("rolledBack")
    /\ UNCHANGED <<journal, product, discarded, memory, counts>>

(* ... and cleared. *)
ClearPrepared ==
    /\ pc = "rolledBack"
    /\ journal' = NoJournal
    /\ Goto("start")
    /\ UNCHANGED <<catalog, product, discarded, memory, counts>>

(* The intended catalogue comes back unless the live one continues it. *)
RollForward ==
    /\ pc = "down" /\ journal.phase = "committed"
    /\ catalog' = Recovered(catalog, journal)
    /\ Goto("start")
    /\ UNCHANGED <<journal, product, discarded, memory, counts>>

(* A flag or the environment goes before product.json; that somebody asks  *)
(* by it for a session that was deleted is left out.                       *)
Requested == (Flags \ discarded) \cup {product}

(* ensureMigrated: a session the catalogue does not know is added to it. *)
Migrate(s) ==
    /\ pc = "down" /\ journal.phase = "none"
    /\ s \in Requested /\ s \notin Listed(catalog)
    /\ catalog' = Rewritten(catalog, IF Listed(catalog) = {} THEN s ELSE catalog.current, s, "active")
    /\ UNCHANGED <<journal, product, discarded, pc, memory, counts>>

(* resolveBootSession; an archived session refuses the start. *)
Resolve(s) ==
    /\ pc = "down" /\ journal.phase = "none"
    /\ s \in Requested /\ s \in ActiveIn(catalog)
    /\ catalog' = IF catalog.current = s THEN catalog ELSE Rewritten(catalog, s, s, "active")
    /\ Goto("start")
    /\ UNCHANGED <<journal, product, discarded, memory, counts>>

StartAgent ==
    /\ pc = "start"
    /\ surface' = catalog.current /\ agents' = {catalog.current}
    /\ safeMode' \in BOOLEAN
    /\ Goto(IF journal.phase = "committed" THEN "recoverProduct" ELSE "up")
    /\ UNCHANGED <<disk, route, counts>>

RecoverProduct ==
    /\ pc = "recoverProduct"
    /\ product' = surface
    /\ Goto("recoverUnlink")
    /\ UNCHANGED <<catalog, journal, discarded, memory, counts>>

(* finishCommittedJournal; the surface is always on the entry's target. *)
RecoverUnlink ==
    /\ pc = "recoverUnlink"
    /\ discarded' = discarded \cup journal.unlink
    /\ Goto("recoverClear")
    /\ UNCHANGED <<catalog, journal, product, memory, counts>>

RecoverClear ==
    /\ pc = "recoverClear"
    /\ journal' = NoJournal
    /\ Goto("up")
    /\ UNCHANGED <<catalog, product, discarded, memory, counts>>

-----------------------------------------------------------------------------
(* What happens between and during routes                                  *)

(* A message, a title event or a rename, refused while a route is under    *)
(* way; or the title of the session that was started (reconcileTitle).     *)
Annotate ==
    /\ pc = "up" \/ (pc = "recoverUnlink" /\ ~safeMode)
    /\ catalog.revision < MaxRevision
    /\ catalog' = Annotated(catalog)
    /\ UNCHANGED <<journal, product, discarded, pc, memory, counts>>

Restore(s) ==
    /\ pc = "up" /\ ~safeMode /\ s \in Listed(catalog)
    /\ catalog.revision < MaxRevision
    /\ catalog' = Rewritten(catalog, catalog.current, s, "active")
    /\ UNCHANGED <<journal, product, discarded, pc, memory, counts>>

(* The states in which the host waits for a call or for the event loop. *)
Waiting ==
    \/ pc \in {"up", "open", "journal", "persist", "adopt", "dispose", "unlink"}
    \/ pc = "undo" /\ route.opened /\ ~route.adopted

(* noteApprovals, from every projection of the console and before a route. *)
NoteOrigin(c) ==
    /\ Waiting /\ catalog.origins[c] = None
    /\ catalog' = Noted(catalog, c, surface)
    /\ UNCHANGED <<journal, product, discarded, pc, memory, counts>>

-----------------------------------------------------------------------------
(* commitRoute                                                             *)

(* previous and applied hold once the entry is made and once the operation *)
(* has written the catalogue.                                              *)
Began(op, id, to) ==
    /\ pc = "up" /\ catalog.revision < MaxRevision
    /\ route' = [op |-> op, id |-> id, from |-> surface, to |-> to, opened |-> FALSE,
                 adopted |-> FALSE, written |-> FALSE, previous |-> catalog, applied |-> catalog]
    /\ Goto(IF surface = to THEN "journal" ELSE "open")
    /\ UNCHANGED <<disk, surface, agents, safeMode, faults, crashes>>

Create ==
    /\ ~safeMode /\ made < MaxSessions
    /\ made' = made + 1
    /\ Began("create", made + 1, made + 1)

(* Allowed in Safe Mode. *)
Switch(s) ==
    /\ s # surface /\ s <= made
    /\ Began("switch", s, s) /\ UNCHANGED made

Retire(op, s) ==
    /\ ~safeMode /\ op \in {"archive", "delete"} /\ s <= made
    /\ \E to \in Successors(catalog, s) : Began(op, s, to)
    /\ UNCHANGED made

(* The outgoing session is flushed and the agent of the target is made. *)
Open ==
    /\ pc = "open"
    /\ agents' = agents \cup {route.to}
    /\ route' = [route EXCEPT !.opened = TRUE]
    /\ Goto("journal")
    /\ UNCHANGED <<disk, surface, safeMode, counts>>

OpenFails == pc = "open" /\ Goto("undo") /\ UNCHANGED <<disk, memory, counts>>

Entry == Prepared(route.op, route.id, route.from, route.to, catalog)

Journal ==
    /\ pc = "journal"
    /\ route' = [route EXCEPT !.previous = catalog]
    /\ IF JournalOK(Entry) THEN journal' = Entry /\ Goto("apply")
       ELSE UNCHANGED journal /\ Goto("undo")
    /\ UNCHANGED <<catalog, product, discarded, surface, agents, safeMode, counts>>

Apply ==
    /\ pc = "apply" /\ Applicable(catalog, route.op, route.id)
    /\ catalog' = Applied(catalog, route.op, route.id, route.to)
    /\ route' = [route EXCEPT !.applied = catalog', !.written = TRUE]
    /\ Goto("commit")
    /\ UNCHANGED <<journal, product, discarded, surface, agents, safeMode, counts>>

(* The operation throws: it cannot apply, or a delete was not confirmed. *)
ApplyRefused ==
    /\ pc = "apply"
    /\ route.op = "delete" \/ ~Applicable(catalog, route.op, route.id)
    /\ Goto("undo")
    /\ UNCHANGED <<disk, memory, counts>>

Commit ==
    /\ pc = "commit"
    /\ LET entry == Committed(journal, route.applied)
       IN  IF JournalOK(entry)
           THEN journal' = entry /\ Goto(IF route.from = route.to THEN "unlink" ELSE "persist")
           ELSE UNCHANGED journal /\ Goto("undo")
    /\ UNCHANGED <<catalog, product, discarded, memory, counts>>

Persist ==
    /\ pc = "persist"
    /\ product' = route.to
    /\ Goto("adopt")
    /\ UNCHANGED <<catalog, journal, discarded, memory, counts>>

Adopt ==
    /\ pc = "adopt"
    /\ surface' = route.to
    /\ Goto("dispose")
    /\ UNCHANGED <<disk, agents, safeMode, route, counts>>

(* A dispose that fails is taken as one that may not have ended the agent. *)
Dispose ==
    /\ pc = "dispose"
    /\ route' = [route EXCEPT !.adopted = TRUE]
    /\ \/ agents' = agents \ {route.from} /\ Goto("unlink")
       \/ agents' \in {agents, agents \ {route.from}} /\ Goto("undo")
    /\ UNCHANGED <<disk, surface, safeMode, counts>>

Ended == Goto("up") /\ route' = NoRoute

Unlink ==
    /\ pc = "unlink" /\ journal.unlink \ discarded # {}
    /\ discarded' = discarded \cup journal.unlink
    /\ UNCHANGED <<catalog, journal, product, pc, memory, counts>>

Clear ==
    /\ pc = "unlink" /\ journal.unlink \subseteq discarded
    /\ journal' = NoJournal
    /\ Ended
    /\ UNCHANGED <<catalog, product, discarded, surface, agents, safeMode, counts>>

-----------------------------------------------------------------------------
(* The catch branch                                                        *)

NextDisposed == IF route.opened /\ ~route.adopted THEN agents \ {route.to} ELSE agents

(* Fault: the snapshot is put back whether or not the route was adopted. *)
UndoneAlways == route.written /\ SameSnapshot(catalog, route.applied)

(* Only what this transaction wrote is taken back, and not after adoption. *)
Undone ==
    ~route.adopted /\ route.written /\ SameSnapshot(catalog, route.applied)

(* The journal of a route that never wrote the catalogue is dropped. *)
Unapplied == ~route.adopted /\ ~route.written

Undo ==
    /\ pc = "undo"
    /\ agents' = NextDisposed
    /\ IF Undone
       THEN catalog' = route.previous /\ Goto("undoProduct") /\ UNCHANGED <<journal, route>>
       ELSE /\ journal' = IF Unapplied THEN NoJournal ELSE journal
            /\ Ended /\ UNCHANGED catalog
    /\ UNCHANGED <<product, discarded, surface, safeMode, counts>>

UndoProduct ==
    /\ pc = "undoProduct"
    /\ product' = route.from
    /\ surface' = route.from
    /\ Goto("undoClear")
    /\ UNCHANGED <<catalog, journal, discarded, agents, safeMode, route, counts>>

(* Fault: the journal of a route that was taken back stays. *)
UndoClearForgotten ==
    /\ pc = "undoClear"
    /\ Ended
    /\ UNCHANGED <<disk, surface, agents, safeMode, counts>>

UndoClear ==
    /\ pc = "undoClear"
    /\ journal' = NoJournal
    /\ Ended
    /\ UNCHANGED <<catalog, product, discarded, surface, agents, safeMode, counts>>

-----------------------------------------------------------------------------
(* Failing writes and the end of the process                               *)

Fault == faults < MaxFaults /\ faults' = faults + 1 /\ UNCHANGED <<made, crashes>>

(* A write of the route throws; what it would have written stays as it was, *)
(* but the transcript of an unlinked session is two files.                  *)
WriteFails ==
    /\ pc \in {"journal", "apply", "commit", "persist", "unlink"} /\ Fault
    /\ route' = IF pc = "journal" THEN [route EXCEPT !.previous = catalog] ELSE route
    /\ IF pc = "unlink" THEN discarded' \in {discarded, discarded \cup journal.unlink}
       ELSE UNCHANGED discarded
    /\ Goto("undo")
    /\ UNCHANGED <<catalog, journal, product, surface, agents, safeMode>>

(* A write of the catch branch throws: what was applied is put back. *)
UndoFails ==
    /\ \/ pc = "undo" /\ (Undone \/ Unapplied) /\ agents' = NextDisposed
       \/ pc \in {"undoProduct", "undoClear"} /\ UNCHANGED agents
    /\ Fault
    /\ catalog' = IF Unapplied THEN catalog ELSE route.applied
    /\ Ended
    /\ UNCHANGED <<journal, product, discarded, surface, safeMode>>

(* The process ends: killed, stopped, or a start that failed. *)
Crash ==
    /\ pc # "down" /\ crashes < MaxCrashes /\ crashes' = crashes + 1
    /\ Goto("down")
    /\ surface' = None /\ agents' = {} /\ safeMode' = FALSE /\ route' = NoRoute
    /\ UNCHANGED <<disk, made, faults>>

-----------------------------------------------------------------------------

Start ==
    \/ RollBack \/ ClearPrepared \/ RollForward
    \/ \E s \in Sessions : Migrate(s) \/ Resolve(s)
    \/ StartAgent \/ RecoverProduct \/ RecoverUnlink \/ RecoverClear

Begin == Create \/ \E s \in Sessions : Switch(s) \/ \E op \in Ops : Retire(op, s)

Route ==
    \/ Open \/ OpenFails \/ Journal \/ Apply \/ ApplyRefused \/ Commit
    \/ Persist \/ Adopt \/ Dispose \/ Unlink \/ Clear
    \/ Undo \/ UndoProduct \/ UndoClear

Other == Annotate \/ (\E s \in Sessions : Restore(s)) \/ \E c \in Confirmations : NoteOrigin(c)

Next == Start \/ Begin \/ Route \/ Other \/ WriteFails \/ UndoFails \/ Crash

Spec == Init /\ [][Next]_vars
=============================================================================
