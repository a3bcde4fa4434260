------------------------------ MODULE SessionProofs ------------------------------
(***************************************************************************)
(* That a start can always read what it finds, for every number of         *)
(* sessions, revisions, failing writes and crashes; that between routes    *)
(* the host, the catalogue and product.json agree; and that a route is all *)
(* or nothing (it implements Topics).                                      *)
(***************************************************************************)
EXTENDS SessionProperties, TLAPS

(* Writing a catalogue moves the current session and one lifecycle. *)
LEMMA RewrittenIs ==
    ASSUME NEW cat \in Catalogs, NEW current \in Sessions, NEW id \in Sessions,
           NEW life \in Lifecycles
    PROVE  LET next == Rewritten(cat, current, id, life)
           IN  /\ next \in Catalogs
               /\ next.current = current
               /\ next.life[id] = life
               /\ \A s \in Sessions \ {id} : next.life[s] = cat.life[s]
<1>1. /\ cat.life \in [Sessions -> Lifecycles] /\ cat.revision \in Nat
      /\ cat.origins \in [Confirmations -> Sessions \cup {None}]
  BY DEF Catalogs
<1>2. [cat.life EXCEPT ![id] = life] \in [Sessions -> Lifecycles]
  BY <1>1
<1> QED
  BY <1>1, <1>2 DEF Rewritten, Catalogs

(* If the session it ends on is active, so is the current one. *)
LEMMA RewrittenActive ==
    ASSUME NEW cat \in Catalogs, NEW current \in Sessions, NEW id \in Sessions,
           NEW life \in Lifecycles,
           IF current = id THEN life = "active" ELSE current \in ActiveIn(cat)
    PROVE  Rewritten(cat, current, id, life) \in Catalogs
           /\ CurrentActive(Rewritten(cat, current, id, life))
<1> DEFINE next == Rewritten(cat, current, id, life)
<1>1. /\ next \in Catalogs /\ next.current = current /\ next.life[id] = life
      /\ \A s \in Sessions \ {id} : next.life[s] = cat.life[s]
  BY RewrittenIs
<1>2. next.life[current] = "active"
  BY <1>1 DEF ActiveIn
<1> QED
  BY <1>1, <1>2 DEF CurrentActive, ActiveIn

(* A new revision or a new origin moves neither. *)
LEMMA AnnotatedIs ==
    ASSUME NEW cat \in Catalogs, CurrentActive(cat)
    PROVE  Annotated(cat) \in Catalogs /\ CurrentActive(Annotated(cat))
BY DEF Annotated, Catalogs, CurrentActive, ActiveIn, Listed

LEMMA NotedIs ==
    ASSUME NEW cat \in Catalogs, NEW c \in Confirmations, NEW s \in Sessions \cup {None},
           CurrentActive(cat)
    PROVE  Noted(cat, c, s) \in Catalogs /\ CurrentActive(Noted(cat, c, s))
BY DEF Noted, Catalogs, CurrentActive, ActiveIn, Listed

(* The catalogue of an entry that passed the check can be written and read:*)
(* the operation ends on an active session.                                *)
LEMMA AppliedActive ==
    ASSUME NEW entry \in Prepareds, JournalOK(entry), NEW id \in Sessions,
           entry.op \in {"create", "switch"} => id = entry.to,
           entry.op \in {"archive", "delete"} => id # entry.to
    PROVE  Applied(entry.previous, entry.op, id, entry.to) \in Catalogs
           /\ CurrentActive(Applied(entry.previous, entry.op, id, entry.to))
<1> DEFINE life == Outcome[entry.op]
<1>1. entry.op \in Ops /\ entry.to \in Sessions /\ entry.previous \in Catalogs
  BY DEF Prepareds
<1>2. life \in Lifecycles
  BY <1>1 DEF Ops, Outcome, Lifecycles
<1>3. IF entry.to = id THEN life = "active" ELSE entry.to \in ActiveIn(entry.previous)
  <2>1. CASE entry.op \in {"create", "switch"}
    BY <2>1 DEF Outcome
  <2>2. CASE entry.op \in {"archive", "delete"}
    BY <2>2 DEF JournalOK
  <2> QED
    BY <1>1, <2>1, <2>2 DEF Ops
<1> QED
  BY <1>1, <1>2, <1>3, RewrittenActive DEF Applied

(* What a start recovers can be read. *)
LEMMA RecoveredActive ==
    ASSUME FilesTyped, StartReadable, journal.phase # "none"
    PROVE  Recovered(catalog, journal) \in Catalogs /\ CurrentActive(Recovered(catalog, journal))
<1>1. CASE journal \in Prepareds
  BY <1>1 DEF Recovered, Prepareds, StartReadable
<1>2. CASE journal \in Committeds
  <2>1. journal.phase = "committed" /\ journal.intended \in Catalogs
    BY <1>2 DEF Committeds
  <2>2. CurrentActive(journal.intended)
    BY <2>1 DEF StartReadable, JournalOK, CurrentActive
  <2> QED
    BY <2>1, <2>2 DEF Recovered, StartReadable, FilesTyped
<1> QED
  BY <1>1, <1>2 DEF FilesTyped, NoJournal

-----------------------------------------------------------------------------

USE DEF NoJournal, NoRoute

THEOREM SessionInit == Init => SessionInv
<1> SUFFICES ASSUME Init PROVE SessionInv
  OBVIOUS
<1>1. PICK n \in {0, InitialSessions} :
          catalog = [current |-> 1, revision |-> IF n = 0 THEN 0 ELSE 1,
                     life |-> [s \in Sessions |-> IF s <= n THEN "active" ELSE "absent"],
                     origins |-> [c \in Confirmations |-> None]]
  BY DEF Init
<1>2. 1 \in Sessions /\ InitialSessions \in Sessions
  BY CatalogAssumption, RouteAssumption DEF Sessions
<1>3. catalog \in Catalogs
  BY <1>1, <1>2 DEF Catalogs, Lifecycles
<1>4. CurrentActive(catalog)
  <2>1. CASE n = 0
    BY <1>1, <2>1 DEF CurrentActive, Listed, Sessions
  <2>2. CASE n # 0
    BY <1>1, <1>2, <2>2 DEF CurrentActive, ActiveIn, Sessions
  <2> QED
    BY <2>1, <2>2
<1> QED
  BY <1>2, <1>3, <1>4 DEF Init, SessionInv, FilesTyped, StartReadable, RouteSound, EntryFresh, Routing

(* A route may start when its ids are those of the catalogue. *)
LEMMA BeganSound ==
    ASSUME SessionInv, NEW op \in Ops, NEW id \in Sessions, NEW to \in Sessions,
           Began(op, id, to), made' \in Sessions,
           op \in {"create", "switch"} => id = to,
           op \in {"archive", "delete"} => id # to
    PROVE  SessionInv'
<1>1. /\ catalog \in Catalogs /\ CurrentActive(catalog)
      /\ surface \in Sessions \cup {None}
  BY DEF SessionInv, FilesTyped, StartReadable
<1>2. /\ route' = [op |-> op, id |-> id, from |-> surface, to |-> to, opened |-> FALSE,
                   adopted |-> FALSE, written |-> FALSE, previous |-> catalog, applied |-> catalog]
      /\ pc' \in {"open", "journal"}
      /\ UNCHANGED <<catalog, journal, surface>>
  BY DEF Began, Goto, disk
<1>3. route' \in Routes
  BY <1>1, <1>2 DEF Routes
<1>4. RouteSound'
  BY <1>1, <1>2, <1>3 DEF RouteSound, CurrentActive, ActiveIn, Listed
<1>5. FilesTyped'
  BY <1>2 DEF SessionInv, FilesTyped, Routing
<1>6. StartReadable' /\ EntryFresh'
  BY <1>2 DEF SessionInv, StartReadable, EntryFresh, CurrentActive, ActiveIn, Listed, JournalOK, LegalChange
<1> QED
  BY <1>4, <1>5, <1>6 DEF SessionInv

(* A step that makes no entry keeps the invariant if the catalogue it      *)
(* leaves can be read and the route goes on as it was.                     *)
LEMMA Framed ==
    ASSUME SessionInv,
           catalog' \in Catalogs, CurrentActive(catalog'),
           journal' = journal \/ journal' = NoJournal,
           surface' \in Sessions \cup {None}, made' \in Sessions,
           pc' \in ({"down", "up"} \cup Starting \cup Routing) \ {"apply", "commit"},
           RouteSound'
    PROVE  SessionInv'
<1>1. FilesTyped'
  BY DEF SessionInv, FilesTyped
<1>2. StartReadable'
  BY DEF SessionInv, StartReadable, CurrentActive, ActiveIn, Listed, JournalOK
<1>3. EntryFresh'
  BY DEF EntryFresh
<1> QED
  BY <1>1, <1>2, <1>3 DEF SessionInv

(* The route goes on as it was when only its marks change. *)
LEMMA RouteKept ==
    ASSUME RouteSound, pc \in Routing, NEW previous \in Catalogs, CurrentActive(previous),
           NEW applied \in Catalogs, CurrentActive(applied),
           NEW opened \in BOOLEAN, NEW adopted \in BOOLEAN, NEW written \in BOOLEAN,
           route' = [op |-> route.op, id |-> route.id, from |-> route.from, to |-> route.to,
                     opened |-> opened, adopted |-> adopted, written |-> written,
                     previous |-> previous, applied |-> applied]
    PROVE  RouteSound'
<1>1. route \in Routes
  BY DEF RouteSound
<1>2. route' \in Routes
  BY <1>1 DEF Routes
<1> QED
  BY <1>2 DEF RouteSound, CurrentActive, ActiveIn, Listed

(* The start. *)
LEMMA StartKeeps == ASSUME SessionInv, Start PROVE SessionInv'
<1>1. /\ catalog \in Catalogs /\ CurrentActive(catalog)
      /\ surface \in Sessions \cup {None} /\ made \in Sessions
  BY DEF SessionInv, FilesTyped, StartReadable
<1> USE DEF Goto, memory, counts, Starting, Routing
<1>2. CASE RollBack \/ RollForward
  <2>1. Recovered(catalog, journal) \in Catalogs /\ CurrentActive(Recovered(catalog, journal))
    BY <1>2, RecoveredActive DEF SessionInv, RollBack, RollForward
  <2> QED
    BY <1>1, <1>2, <2>1, Framed DEF RollBack, RollForward, RouteSound
<1>3. CASE ClearPrepared
  BY <1>1, <1>3, Framed DEF ClearPrepared, RouteSound
<1>4. ASSUME NEW s \in Sessions, Migrate(s) PROVE SessionInv'
  <2> DEFINE current == IF Listed(catalog) = {} THEN s ELSE catalog.current
  <2>1. current \in Sessions
    BY <1>1 DEF Catalogs
  <2>2. IF current = s THEN "active" = "active" ELSE current \in ActiveIn(catalog)
    BY <1>1 DEF CurrentActive
  <2>3. Rewritten(catalog, current, s, "active") \in Catalogs
        /\ CurrentActive(Rewritten(catalog, current, s, "active"))
    BY <1>1, <2>1, <2>2, RewrittenActive DEF Lifecycles
  <2> QED
    BY <1>1, <1>4, <2>3, Framed DEF Migrate, RouteSound
<1>5. ASSUME NEW s \in Sessions, Resolve(s) PROVE SessionInv'
  <2>1. Rewritten(catalog, s, s, "active") \in Catalogs
        /\ CurrentActive(Rewritten(catalog, s, s, "active"))
    BY <1>1, RewrittenActive DEF Lifecycles
  <2> QED
    BY <1>1, <1>5, <2>1, Framed DEF Resolve, RouteSound
<1>6. CASE StartAgent
  <2>1. catalog.current \in Sessions
    BY <1>1 DEF Catalogs
  <2> QED
    BY <1>1, <1>6, <2>1, Framed DEF StartAgent, RouteSound, disk
<1>7. CASE RecoverProduct \/ RecoverUnlink \/ RecoverClear
  BY <1>1, <1>7, Framed DEF RecoverProduct, RecoverUnlink, RecoverClear, RouteSound
<1> QED
  BY <1>2, <1>3, <1>4, <1>5, <1>6, <1>7 DEF Start

(* The beginning of a route. *)
LEMMA BeginKeeps == ASSUME SessionInv, Begin PROVE SessionInv'
<1>1. /\ catalog \in Catalogs /\ CurrentActive(catalog) /\ made \in Sessions
  BY DEF SessionInv, FilesTyped, StartReadable
<1>2. CASE Create
  <2>1. made + 1 \in Sessions /\ made' = made + 1
    BY <1>1, <1>2, CatalogAssumption DEF Create, Sessions
  <2> QED
    BY <1>2, <2>1, BeganSound DEF Create, Ops
<1>3. ASSUME NEW s \in Sessions, Switch(s) PROVE SessionInv'
  BY <1>1, <1>3, BeganSound DEF Switch, Ops
<1>4. ASSUME NEW s \in Sessions, NEW op \in Ops, Retire(op, s) PROVE SessionInv'
  <2>1. PICK to \in Successors(catalog, s) : Began(op, s, to)
    BY <1>4 DEF Retire
  <2>2. to \in Sessions /\ to # s
    BY <1>1 DEF Successors, ActiveIn, Catalogs
  <2> QED
    BY <1>1, <1>4, <2>1, <2>2, BeganSound DEF Retire
<1> QED
  BY <1>2, <1>3, <1>4 DEF Begin

(* The steps of a route that leave its ids alone. *)
LEMMA RouteKeeps == ASSUME SessionInv, Route PROVE SessionInv'
<1> USE DEF Goto, disk, memory, counts, Starting
<1>1. /\ catalog \in Catalogs /\ CurrentActive(catalog)
      /\ surface \in Sessions \cup {None} /\ made \in Sessions
      /\ RouteSound
  BY DEF SessionInv, FilesTyped, StartReadable
<1>2. pc \in Routing
  BY DEF Route, Open, OpenFails, Journal, Apply, ApplyRefused, Commit, Persist, Adopt, Dispose,
         Unlink, Clear, Undo, UndoProduct, UndoClear, Routing
<1>3. /\ route \in Routes
      /\ CurrentActive(route.previous) /\ CurrentActive(route.applied)
  BY <1>1, <1>2 DEF RouteSound
<1>4. (UNCHANGED route) => RouteSound'
  BY <1>1, <1>2 DEF RouteSound, CurrentActive, ActiveIn, Listed
<1>5. pc' = "up" => RouteSound'
  BY DEF RouteSound, Routing
<1>6. CASE Open \/ OpenFails
  <2>1. CASE Open
    <3>1. RouteSound'
      <4>1. route' = [op |-> route.op, id |-> route.id, from |-> route.from, to |-> route.to,
                      opened |-> TRUE, adopted |-> route.adopted, written |-> route.written,
                      previous |-> route.previous, applied |-> route.applied]
        BY <1>3, <2>1 DEF Open, Routes
      <4> QED
        BY <1>1, <1>2, <1>3, <4>1, RouteKept DEF Routes
    <3> QED
      BY <1>1, <2>1, <3>1, Framed DEF Open, Routing
  <2>2. CASE OpenFails
    BY <1>1, <1>4, <2>2, Framed DEF OpenFails, Routing
  <2> QED
    BY <1>6, <2>1, <2>2
<1>7. CASE Journal
  <2>1. RouteSound'
    <3>1. route' = [op |-> route.op, id |-> route.id, from |-> route.from, to |-> route.to,
                    opened |-> route.opened, adopted |-> route.adopted, written |-> route.written,
                    previous |-> catalog, applied |-> route.applied]
      BY <1>3, <1>7 DEF Journal, Routes
    <3> QED
      BY <1>1, <1>2, <1>3, <3>1, RouteKept DEF Routes
  <2>2. CASE JournalOK(Entry)
    <3>1. Entry \in Prepareds
      BY <1>1, <1>3 DEF Entry, Prepared, Prepareds, Routes
    <3>2. /\ journal' = Entry /\ pc' = "apply" /\ UNCHANGED <<catalog, surface, made>>
      BY <1>7, <2>2 DEF Journal
    <3>3. Entry.phase = "prepared" /\ Entry.previous = catalog
          /\ Entry.op = route.op /\ Entry.to = route.to
      BY DEF Entry, Prepared
    <3>4. FilesTyped'
      BY <1>1, <3>1, <3>2 DEF FilesTyped, Routing
    <3>5. StartReadable'
      BY <1>1, <2>2, <3>2, <3>3
      DEF StartReadable, CurrentActive, ActiveIn, Listed, JournalOK
    <3>6. route'.op = route.op /\ route'.to = route.to
      BY <1>3, <1>7 DEF Journal, Routes
    <3>7. EntryFresh'
      BY <3>1, <3>2, <3>3, <3>6 DEF EntryFresh
    <3> QED
      BY <2>1, <3>4, <3>5, <3>7 DEF SessionInv
  <2>3. CASE ~JournalOK(Entry)
    BY <1>1, <1>7, <2>1, <2>3, Framed DEF Journal, Routing
  <2> QED
    BY <2>2, <2>3
<1>8. CASE Apply
  <2> DEFINE next == Applied(catalog, route.op, route.id, route.to)
  <2>1. /\ journal \in Prepareds /\ JournalOK(journal) /\ catalog = journal.previous
        /\ journal.op = route.op /\ journal.to = route.to
    BY <1>8 DEF Apply, SessionInv, EntryFresh, StartReadable, Prepareds
  <2>2. next \in Catalogs /\ CurrentActive(next)
    BY <1>1, <1>2, <1>3, <2>1, AppliedActive DEF RouteSound, Routes
  <2>3. RouteSound'
    <3>1. route' = [op |-> route.op, id |-> route.id, from |-> route.from, to |-> route.to,
                    opened |-> route.opened, adopted |-> route.adopted, written |-> TRUE,
                    previous |-> route.previous, applied |-> next]
      BY <1>3, <1>8 DEF Apply, Routes
    <3> QED
      BY <1>1, <1>2, <1>3, <2>2, <3>1, RouteKept DEF Routes
  <2>4. /\ catalog' = next /\ pc' = "commit" /\ UNCHANGED <<journal, surface, made>>
    BY <1>8 DEF Apply
  <2>5. FilesTyped'
    BY <2>2, <2>4 DEF SessionInv, FilesTyped, Routing
  <2>6. StartReadable'
    BY <2>1, <2>2, <2>4
    DEF SessionInv, StartReadable, CurrentActive, ActiveIn, Listed, JournalOK, LegalChange
  <2>7. EntryFresh'
    BY <2>1, <2>4 DEF EntryFresh
  <2> QED
    BY <2>3, <2>5, <2>6, <2>7 DEF SessionInv
<1>9. CASE Commit
  <2> DEFINE entry == Committed(journal, route.applied)
  <2>1. CASE JournalOK(entry)
    <3>1. journal \in Prepareds /\ CurrentActive(journal.previous)
      BY <1>9 DEF Commit, SessionInv, EntryFresh, StartReadable, Prepareds
    <3>2. entry \in Committeds /\ entry.previous = journal.previous
      BY <1>3, <3>1 DEF Committed, Committeds, Prepareds, Routes
    <3>3. /\ journal' = entry /\ pc' \in {"unlink", "persist"}
          /\ UNCHANGED <<catalog, route, surface, made>>
      BY <1>9, <2>1 DEF Commit
    <3>4. FilesTyped'
      BY <3>2, <3>3 DEF SessionInv, FilesTyped, Routing
    <3>5. StartReadable'
      <4>1. CurrentActive(catalog)'
        BY <1>1, <3>3 DEF CurrentActive, ActiveIn, Listed
      <4>2. CurrentActive(journal.previous)'
        BY <3>1, <3>2, <3>3 DEF CurrentActive, ActiveIn, Listed
      <4>3. JournalOK(journal)'
        BY <2>1, <3>3 DEF JournalOK, LegalChange, KeepsOrigins, Changed, ActiveIn, Listed
      <4> QED
        BY <4>1, <4>2, <4>3 DEF StartReadable
    <3>6. EntryFresh'
      BY <3>3 DEF EntryFresh
    <3> QED
      BY <1>4, <3>3, <3>4, <3>5, <3>6 DEF SessionInv
  <2>2. CASE ~JournalOK(entry)
    BY <1>1, <1>4, <1>9, <2>2, Framed DEF Commit, Routing
  <2> QED
    BY <2>1, <2>2
<1>10. CASE ApplyRefused \/ Persist \/ Adopt \/ Unlink
  <2>1. CASE ApplyRefused
    BY <1>1, <1>4, <2>1, Framed DEF ApplyRefused, Routing
  <2>2. CASE Persist
    BY <1>1, <1>4, <2>2, Framed DEF Persist, Routing
  <2>3. CASE Adopt
    BY <1>1, <1>3, <1>4, <2>3, Framed DEF Adopt, Routing, Routes
  <2>4. CASE Unlink
    BY <1>1, <1>2, <1>4, <2>4, Framed DEF Unlink, Routing
  <2> QED
    BY <1>10, <2>1, <2>2, <2>3, <2>4
<1>11. CASE Dispose
  <2>1. RouteSound'
    <3>1. route' = [op |-> route.op, id |-> route.id, from |-> route.from, to |-> route.to,
                    opened |-> route.opened, adopted |-> TRUE, written |-> route.written,
                    previous |-> route.previous, applied |-> route.applied]
      BY <1>3, <1>11 DEF Dispose, Routes
    <3> QED
      BY <1>1, <1>2, <1>3, <3>1, RouteKept DEF Routes
  <2> QED
    BY <1>1, <1>11, <2>1, Framed DEF Dispose, Routing
<1>12. CASE Undo
  <2>1. RouteSound' /\ catalog' \in Catalogs /\ CurrentActive(catalog')
    BY <1>1, <1>3, <1>4, <1>5, <1>12 DEF Undo, Ended, Routes
  <2> QED
    BY <1>1, <1>12, <2>1, Framed DEF Undo, Ended, Routing
<1>13. CASE UndoProduct
  BY <1>1, <1>3, <1>4, <1>13, Framed DEF UndoProduct, Routing, Routes
<1>14. CASE UndoClear \/ Clear
  BY <1>1, <1>5, <1>14, Framed DEF UndoClear, Clear, Ended, Routing
<1> QED
  BY <1>6, <1>7, <1>8, <1>9, <1>10, <1>11, <1>12, <1>13, <1>14 DEF Route

(* What happens between and during routes. *)
LEMMA OtherKeeps == ASSUME SessionInv, Other PROVE SessionInv'
<1> USE DEF Goto, memory, counts
<1>1. /\ catalog \in Catalogs /\ CurrentActive(catalog)
      /\ surface \in Sessions \cup {None} /\ made \in Sessions
      /\ RouteSound /\ pc \in {"down", "up"} \cup Starting \cup Routing
  BY DEF SessionInv, FilesTyped, StartReadable
<1>2. UNCHANGED <<pc, route>> => RouteSound'
  BY <1>1 DEF RouteSound, CurrentActive, ActiveIn, Listed
<1>3. CASE Annotate
  BY <1>1, <1>2, <1>3, AnnotatedIs, Framed DEF Annotate
<1>4. ASSUME NEW s \in Sessions, Restore(s) PROVE SessionInv'
  <2>1. catalog.current \in ActiveIn(catalog)
    BY <1>1, <1>4 DEF Restore, CurrentActive
  <2>2. catalog.current \in Sessions
    BY <1>1 DEF Catalogs
  <2>3. Rewritten(catalog, catalog.current, s, "active") \in Catalogs
        /\ CurrentActive(Rewritten(catalog, catalog.current, s, "active"))
    BY <1>1, <2>1, <2>2, RewrittenActive DEF Lifecycles
  <2> QED
    BY <1>1, <1>2, <1>4, <2>3, Framed DEF Restore
<1>5. ASSUME NEW c \in Confirmations, NoteOrigin(c) PROVE SessionInv'
  <2>1. pc \notin {"apply", "commit"}
    BY <1>5 DEF NoteOrigin, Waiting
  <2> QED
    BY <1>1, <1>2, <1>5, <2>1, NotedIs, Framed DEF NoteOrigin
<1> QED
  BY <1>3, <1>4, <1>5 DEF Other

(* A write fails, in the route or in its catch branch, or the process ends.*)
LEMMA FailureKeeps == ASSUME SessionInv, WriteFails \/ UndoFails \/ Crash PROVE SessionInv'
<1> USE DEF Goto, disk, memory, counts
<1>1. /\ catalog \in Catalogs /\ CurrentActive(catalog)
      /\ surface \in Sessions \cup {None} /\ made \in Sessions /\ RouteSound
  BY DEF SessionInv, FilesTyped, StartReadable
<1>2. CASE WriteFails
  <2>1. pc \in Routing /\ route \in Routes
        /\ CurrentActive(route.previous) /\ CurrentActive(route.applied)
    BY <1>1, <1>2 DEF WriteFails, Routing, RouteSound
  <2>2. RouteSound'
    <3>1. CASE pc = "journal"
      <4>1. route' = [op |-> route.op, id |-> route.id, from |-> route.from, to |-> route.to,
                      opened |-> route.opened, adopted |-> route.adopted,
                      written |-> route.written, previous |-> catalog, applied |-> route.applied]
        BY <1>2, <2>1, <3>1 DEF WriteFails, Routes
      <4> QED
        BY <1>1, <2>1, <4>1, RouteKept DEF Routes
    <3>2. CASE pc # "journal"
      BY <1>1, <1>2, <2>1, <3>2 DEF WriteFails, RouteSound, CurrentActive, ActiveIn, Listed
    <3> QED
      BY <3>1, <3>2
  <2> QED
    BY <1>1, <1>2, <2>2, Framed DEF WriteFails, Fault, Routing
<1>3. CASE UndoFails
  <2>1. route \in Routes /\ CurrentActive(route.applied)
    BY <1>1, <1>3 DEF UndoFails, RouteSound, Routing
  <2>2. catalog' \in Catalogs /\ CurrentActive(catalog') /\ RouteSound'
    BY <1>1, <1>3, <2>1 DEF UndoFails, Ended, RouteSound, Routing, Routes
  <2> QED
    BY <1>1, <1>3, <2>2, Framed DEF UndoFails, Fault, Ended, Routing
<1>4. CASE Crash
  BY <1>1, <1>4, Framed DEF Crash, RouteSound, Routing
<1> QED
  BY <1>2, <1>3, <1>4

THEOREM SessionNext == SessionInv /\ [Next]_vars => SessionInv'
<1> SUFFICES ASSUME SessionInv, [Next]_vars PROVE SessionInv'
  OBVIOUS
<1>1. CASE Next
  BY <1>1, StartKeeps, BeginKeeps, RouteKeeps, OtherKeeps, FailureKeeps DEF Next
<1>2. CASE UNCHANGED vars
  <2>1. UNCHANGED <<catalog, journal, surface, made, pc, route>>
    BY <1>2 DEF vars, disk, memory, counts
  <2>2. FilesTyped' /\ EntryFresh'
    BY <2>1 DEF SessionInv, FilesTyped, EntryFresh
  <2>3. RouteSound'
    BY <2>1 DEF SessionInv, RouteSound, CurrentActive, ActiveIn, Listed
  <2>4. StartReadable'
    BY <2>1 DEF SessionInv, StartReadable, CurrentActive, ActiveIn, Listed, JournalOK
  <2> QED
    BY <2>2, <2>3, <2>4 DEF SessionInv
<1> QED
  BY <1>1, <1>2

(* Whatever failed or died between the writes of a route, the next start   *)
(* finds a catalogue and an entry that it can read.                        *)
THEOREM SessionsStartReadable == Spec => []StartReadable
<1>1. SessionInv => StartReadable
  BY DEF SessionInv
<1> QED
  BY SessionInit, SessionNext, <1>1, PTL DEF Spec

(* The current session of a stored catalogue is active, but for a home that*)
(* never had a catalogue, until its first start.                           *)
Live(cat) == cat.life[cat.current] = "active"

Blank ==
    /\ \A s \in Sessions : catalog.life[s] = "absent"
    /\ discarded = {} /\ pc = "down" /\ journal.phase = "none"

Alive ==
    /\ (Live(catalog) \/ Blank)
    /\ journal.phase # "none" => Live(journal.previous)
    /\ pc \in Routing => Live(route.previous) /\ Live(route.applied)

(* Two catalogues that list the same, or but for what left the archive. *)
SameList(old, cat) == cat.current = old.current /\ cat.life = old.life

Reopened(old, cat) ==
    /\ cat.current = old.current
    /\ \A s \in Sessions :
          cat.life[s] = old.life[s] \/ (old.life[s] = "archived" /\ cat.life[s] = "active")

(* Only sessions that were made are taken away, and only by a delete. *)
Numbered ==
    /\ faults \in 0 .. MaxFaults
    /\ discarded \subseteq 1 .. made
    /\ journal.phase # "none" => journal.unlink \subseteq 1 .. made
    /\ journal.phase = "prepared" /\ journal.op # "delete" => journal.unlink = {}
    /\ pc \in {"apply", "commit"} =>
          journal.unlink = IF route.op = "delete" THEN {route.id} ELSE {}
    /\ pc \in Routing => route.id \in 1 .. made
    /\ pc = "start" => journal.phase # "prepared"
    /\ pc \in {"recoverProduct", "recoverUnlink", "recoverClear",
               "persist", "adopt", "dispose", "unlink"} => journal.phase = "committed"

(* The host, product.json and an agent are on the session. *)
Here(s) == surface = s /\ product = s /\ s \in agents

(* What a start has put right of what it found. *)
Started ==
    /\ pc = "rolledBack" => journal.phase = "prepared" /\ catalog = journal.previous
    /\ pc \in {"recoverProduct", "recoverUnlink", "recoverClear"} =>
          surface = catalog.current /\ surface \in agents
    /\ pc \in {"recoverUnlink", "recoverClear"} => product = surface
    /\ pc = "up" => Here(catalog.current)

(* Before the operation everything is on the session the route leaves ... *)
Leaving ==
    /\ pc \in {"open", "journal", "apply"} =>
          ~route.written /\ catalog.current = route.from
    /\ pc \in {"open", "journal", "apply", "commit", "persist"} =>
          ~route.adopted /\ Here(route.from)
    /\ pc = "open" => ~route.opened /\ route.from # route.to
    /\ pc \in {"journal", "apply", "commit", "persist"} =>
          (route.from = route.to \/ (route.opened /\ route.to \in agents))

(* ... after it the catalogue is what the operation made of it, and one    *)
(* after the other goes over to the session the route ends on ...          *)
Moving ==
    /\ pc \in {"commit", "persist", "adopt", "dispose", "unlink"} => route.written
    /\ pc = "commit" => catalog = route.applied
    /\ pc = "commit" /\ ~SameList(route.applied, route.previous) =>
          JournalOK(Committed(journal, route.applied))
    /\ pc \in {"persist", "adopt", "dispose"} => route.from # route.to
    /\ pc = "adopt" =>
          /\ ~route.adopted /\ surface = route.from /\ product = route.to
          /\ route.to \in agents
    /\ pc \in {"dispose", "unlink"} => Here(route.to)
    /\ pc = "unlink" => (route.adopted \/ route.from = route.to)

(* ... and a route that is given up goes back, unless it was adopted.      *)
(* Without a failing write it is one that stays on its session.            *)
GivingUp ==
    /\ pc = "undo" =>
          /\ (route.adopted => Here(route.to) /\ route.written /\ journal.phase = "committed")
          /\ (~route.adopted => Here(route.from))
          /\ (~route.written => catalog.current = route.from)
          /\ (route.written /\ ~route.adopted =>
                 faults > 0 \/ SameList(route.applied, route.previous))
    /\ pc \in {"undoProduct", "undoClear"} =>
          /\ Here(route.from) /\ catalog = route.previous
          /\ route.written /\ ~route.adopted
          /\ (faults > 0 \/ SameList(route.applied, route.previous))

Marked ==
    pc \in Routing =>
        /\ (route.opened => route.from # route.to)
        /\ (route.op \in {"archive", "delete"} /\ route.from # route.to => route.id = route.from)
        /\ route.previous.current = route.from
        /\ (route.written => journal.phase # "none" /\ route.applied.current = route.to)
        /\ (route.written /\ pc \notin {"undoProduct", "undoClear"} =>
               SameSnapshot(catalog, route.applied))

(* A start that rolls nothing forward comes up where product.json is. *)
Bound ==
    /\ journal.phase = "prepared" => product = journal.previous.current
    /\ journal.phase = "none" => (Blank \/ product = catalog.current)

(* An entry that was started from lists what is listed; the one of the     *)
(* route is about its two lists; and one that was left behind differs only *)
(* in what was taken out of the archive since.                             *)
Known ==
    /\ pc \in {"start", "recoverProduct", "recoverUnlink", "recoverClear"}
          /\ journal.phase = "committed" =>
          SameList(journal.intended, catalog)
    /\ pc \in Routing =>
          (route.written \/ pc = "apply" =>
             /\ journal.previous = route.previous
             /\ (journal.phase = "committed" => journal.intended = route.applied))
    /\ Unwritten /\ journal.phase = "prepared" =>
          Reopened(journal.previous, catalog)
    /\ Unwritten /\ journal.phase = "committed" =>
          Reopened(journal.intended, catalog)

Tidy == faults <= 1 => Started /\ Leaving /\ Moving /\ GivingUp /\ Marked /\ Bound /\ Known

(* Nothing that a list, a start or a route given up may bring back has lost*)
(* its transcript.                                                         *)
Unheld(cat) == \A s \in discarded : cat.life[s] = "absent"

Held ==
    faults = 0 =>
        /\ Unheld(catalog)
        /\ journal.phase = "prepared" => Unheld(journal.previous)
        /\ journal.phase = "committed" =>
              /\ Unheld(journal.intended)
              /\ \A s \in journal.unlink :
                    journal.intended.life[s] = "absent" /\ catalog.life[s] = "absent"
        /\ pc \in Routing \ {"unlink"} =>
              /\ Unheld(route.previous) /\ Unheld(route.applied)
              /\ (route.op = "create" => route.id \notin discarded)
        /\ (pc \in {"undo", "undoProduct", "undoClear"} /\ route.written /\ ~route.adopted =>
              journal.phase = "prepared")

AgreeInv == SessionInv /\ Alive /\ Numbered /\ Tidy /\ Held /\ Flags = {}

(* Outside a route only the start, and what it is bound to, matter. *)
LEMMA NoRouteUnderWay ==
    ASSUME pc' \notin Routing
    PROVE  Leaving' /\ Moving' /\ GivingUp' /\ Marked'
BY DEF Leaving, Moving, GivingUp, Marked, Routing

(* The catalogue of a start, which puts an active session in its place.    *)
LEMMA MadeActive ==
    ASSUME NEW cat \in Catalogs, NEW current \in Sessions, NEW id \in Sessions
    PROVE  /\ Rewritten(cat, current, id, "active") \in Catalogs
           /\ Rewritten(cat, current, id, "active").current = current
           /\ Rewritten(cat, current, id, "active").life[id] = "active"
           /\ \A t \in Sessions : t # id =>
                 Rewritten(cat, current, id, "active").life[t] = cat.life[t]
<1>1. "active" \in Lifecycles
  BY DEF Lifecycles
<1> QED
  BY <1>1, RewrittenIs

(* What the operation of a route writes.                                   *)
LEMMA AppliedIs ==
    ASSUME NEW cat \in Catalogs, NEW op \in Ops, NEW id \in Sessions, NEW to \in Sessions,
           Outcome[op] \in Lifecycles
    PROVE  /\ Applied(cat, op, id, to) \in Catalogs
           /\ Applied(cat, op, id, to).current = to
           /\ Applied(cat, op, id, to).life[id] = Outcome[op]
           /\ Applied(cat, op, id, to).revision = cat.revision + 1
           /\ Applied(cat, op, id, to).origins = cat.origins
           /\ \A t \in Sessions : t # id => Applied(cat, op, id, to).life[t] = cat.life[t]
<1>1. Applied(cat, op, id, to) = Rewritten(cat, to, id, Outcome[op])
  BY DEF Applied
<1>2. cat.life \in [Sessions -> Lifecycles]
  BY DEF Catalogs
<1>3. [cat.life EXCEPT ![id] = Outcome[op]][id] = Outcome[op]
  BY <1>2
<1>4. Applied(cat, op, id, to) \in Catalogs
  BY <1>1, RewrittenIs
<1> QED
  BY <1>1, <1>2, <1>3, <1>4 DEF Rewritten

(* The steps of a start: it rolls back or forward, or resolves the session *)
(* that was asked for.                                                     *)
LEMMA StartTidy ==
    ASSUME AgreeInv, Start PROVE Alive' /\ Numbered' /\ Tidy' /\ Held'
<1> USE DEF Goto, memory, counts, disk
<1>1. /\ catalog \in Catalogs /\ surface \in Sessions \cup {None} /\ made \in Sessions
      /\ journal \in {[phase |-> "none"]} \cup Prepareds \cup Committeds
      /\ Alive /\ Numbered /\ Tidy /\ Held /\ Flags = {}
      /\ CurrentActive(catalog) /\ pc \notin Routing
      /\ journal.phase # "none" => JournalOK(journal)
  BY DEF AgreeInv, SessionInv, FilesTyped, StartReadable, Start, Starting, RollBack,
     ClearPrepared,
         RollForward, Migrate, Resolve, StartAgent, RecoverProduct, RecoverUnlink, RecoverClear,
         Routing
<1>2. catalog \in Catalogs
  BY <1>1
<1>3. pc' \notin Routing /\ UNCHANGED <<made, faults>>
  BY <1>1 DEF Start, RollBack, ClearPrepared,
         RollForward, Migrate, Resolve, StartAgent, RecoverProduct, RecoverUnlink, RecoverClear,
         Routing
<1> USE DEF SameList, Reopened, Live, Blank, Here, Unheld
<1>4. CASE RollBack
  <2>1. /\ pc = "down" /\ pc' = "rolledBack" /\ journal.phase = "prepared"
        /\ catalog' = journal.previous /\ UNCHANGED <<journal, product, discarded>>
    BY <1>4 DEF RollBack, Recovered
  <2>2. Alive' /\ Numbered'
    BY <1>1, <1>3, <2>1 DEF Alive, Numbered
  <2>3. Tidy'
    BY <1>1, <1>3, <2>1, NoRouteUnderWay DEF Tidy, Started, Bound, Known, Unwritten, Routing
  <2>4. Held'
    BY <1>1, <1>3, <2>1 DEF Held
  <2> QED
    BY <2>2, <2>3, <2>4
<1>5. CASE ClearPrepared
  <2>1. /\ pc = "rolledBack" /\ pc' = "start" /\ journal' = NoJournal
        /\ UNCHANGED <<catalog, product, discarded>>
    BY <1>5 DEF ClearPrepared
  <2>2. Alive' /\ Numbered'
    BY <1>1, <1>3, <2>1 DEF Alive, Numbered
  <2>3. Tidy'
    BY <1>1, <1>3, <2>1, NoRouteUnderWay DEF Tidy, Started, Bound, Known, Unwritten, Routing
  <2>4. Held'
    BY <1>1, <1>3, <2>1 DEF Held
  <2> QED
    BY <2>2, <2>3, <2>4
<1>6. CASE RollForward
  <2>1. /\ pc = "down" /\ pc' = "start" /\ journal.phase = "committed"
        /\ catalog' \in {catalog, journal.intended}
        /\ SameList(journal.intended, catalog')
        /\ UNCHANGED <<journal, product, discarded>>
    BY <1>6 DEF RollForward, Recovered, IsSuccessor
  <2>2. Live(journal.intended) /\ Live(catalog)
    BY <1>1, <2>1 DEF JournalOK, ActiveIn, Alive
  <2>3. Alive' /\ Numbered'
    BY <1>1, <1>3, <2>1, <2>2 DEF Alive, Numbered
  <2>4. Tidy'
    BY <1>1, <1>3, <2>1, NoRouteUnderWay DEF Tidy, Started, Bound, Known, Unwritten, Routing
  <2>5. Held'
    BY <1>1, <1>3, <2>1 DEF Held
  <2> QED
    BY <2>3, <2>4, <2>5
<1>7. ASSUME NEW s \in Sessions, Migrate(s) PROVE Alive' /\ Numbered' /\ Tidy' /\ Held'
  <2>1. /\ pc = "down" /\ pc' = "down" /\ journal.phase = "none" /\ s = product
        /\ catalog.life[s] = "absent"
        /\ UNCHANGED <<journal, product, discarded>>
    BY <1>1, <1>7 DEF Migrate, Requested, Listed
  <2>2. CASE Blank
    <3>1. catalog' = Rewritten(catalog, s, s, "active")
      BY <1>7, <2>2 DEF Migrate, Listed
    <3>2. /\ catalog' \in Catalogs /\ catalog'.current = s /\ catalog'.life[s] = "active"
      BY <1>2, <3>1, MadeActive
    <3>3. Alive' /\ Numbered'
      BY <1>1, <1>3, <2>1, <3>2 DEF Alive, Numbered
    <3>4. Tidy'
      BY <1>1, <1>3, <2>1, <3>2, NoRouteUnderWay DEF Tidy, Started, Bound, Known, Unwritten,
         Routing
    <3>5. Held'
      BY <1>1, <1>3, <2>1, <2>2 DEF Held
    <3> QED
      BY <3>3, <3>4, <3>5
  <2>3. CASE ~Blank
    <3>1. Live(catalog) /\ catalog.current \in Sessions /\ catalog.current # s
      BY <1>1, <2>1, <2>3 DEF Alive, Catalogs
    <3>2. catalog' = Rewritten(catalog, catalog.current, s, "active")
      BY <1>7, <3>1 DEF Migrate, Listed
    <3>3. /\ catalog'.current = catalog.current
          /\ catalog'.life[catalog.current] = catalog.life[catalog.current]
      BY <1>2, <2>1, <3>1, <3>2, MadeActive
    <3>4. Alive' /\ Numbered'
      BY <1>1, <1>3, <2>1, <3>1, <3>3 DEF Alive, Numbered
    <3>5. ~(faults <= 1)
      BY <1>1, <2>1, <2>3, <3>1 DEF Tidy, Bound
    <3> QED
      BY <1>3, <3>4, <3>5 DEF Tidy, Held
  <2> QED
    BY <2>2, <2>3
<1>8. ASSUME NEW s \in Sessions, Resolve(s) PROVE Alive' /\ Numbered' /\ Tidy' /\ Held'
  <2>1. /\ pc = "down" /\ pc' = "start" /\ journal.phase = "none" /\ s = product
        /\ catalog.life[s] = "active"
        /\ UNCHANGED <<journal, product, discarded>>
    BY <1>1, <1>8 DEF Resolve, Requested, ActiveIn
  <2>2. Live(catalog) /\ ~Blank
    BY <1>1, <2>1 DEF Alive
  <2>3. /\ catalog'.current = s /\ catalog'.life[s] = "active"
        /\ \A t \in Sessions : catalog'.life[t] = catalog.life[t]
    <3>1. CASE catalog.current = s
      BY <1>8, <2>1, <3>1 DEF Resolve
    <3>2. CASE catalog.current # s
      <4>1. catalog' = Rewritten(catalog, s, s, "active")
        BY <1>8, <3>2 DEF Resolve
      <4> QED
        BY <1>2, <2>1, <4>1, MadeActive
    <3> QED
      BY <3>1, <3>2
  <2>4. Alive' /\ Numbered'
    BY <1>1, <1>3, <2>1, <2>3 DEF Alive, Numbered
  <2>5. Tidy'
    BY <1>1, <1>3, <2>1, <2>3, NoRouteUnderWay DEF Tidy, Started, Bound, Known, Unwritten,
       Routing
  <2>6. Held'
    <3>1. discarded \subseteq Sessions
      BY <1>1, CatalogAssumption DEF Numbered, Sessions
    <3> QED
      BY <1>1, <1>3, <2>1, <2>3, <3>1 DEF Held
  <2> QED
    BY <2>4, <2>5, <2>6
<1>9. CASE StartAgent
  <2>1. /\ pc = "start" /\ pc' = IF journal.phase = "committed" THEN "recoverProduct" ELSE "up"
        /\ surface' = catalog.current /\ agents' = {catalog.current}
        /\ UNCHANGED <<catalog, journal, product, discarded>>
    BY <1>9 DEF StartAgent
  <2>2. Alive' /\ Numbered'
    BY <1>1, <1>3, <2>1 DEF Alive, Numbered, Prepareds, Committeds
  <2>3. Tidy'
    BY <1>1, <1>3, <2>1, NoRouteUnderWay DEF Tidy, Started, Bound, Known, Unwritten, Routing,
       Numbered, Prepareds, Committeds
  <2>4. Held'
    BY <1>1, <1>3, <2>1 DEF Held
  <2> QED
    BY <2>2, <2>3, <2>4
<1>10. CASE RecoverProduct
  <2>1. /\ pc = "recoverProduct" /\ pc' = "recoverUnlink" /\ product' = surface
        /\ UNCHANGED <<catalog, journal, discarded, surface, agents>>
    BY <1>10 DEF RecoverProduct
  <2>2. Alive' /\ Numbered'
    BY <1>1, <1>3, <2>1 DEF Alive, Numbered
  <2>3. Tidy'
    BY <1>1, <1>3, <2>1, NoRouteUnderWay DEF Tidy, Started, Bound, Known, Unwritten, Routing,
       Numbered
  <2>4. Held'
    BY <1>1, <1>3, <2>1 DEF Held
  <2> QED
    BY <2>2, <2>3, <2>4
<1>11. CASE RecoverUnlink
  <2>1. /\ pc = "recoverUnlink" /\ pc' = "recoverClear"
        /\ discarded' = discarded \cup journal.unlink
        /\ UNCHANGED <<catalog, journal, product, surface, agents>>
    BY <1>11 DEF RecoverUnlink
  <2>2. Alive' /\ Numbered'
    BY <1>1, <1>3, <2>1 DEF Alive, Numbered
  <2>3. Tidy'
    BY <1>1, <1>3, <2>1, NoRouteUnderWay DEF Tidy, Started, Bound, Known, Unwritten, Routing
  <2>4. Held'
    BY <1>1, <1>3, <2>1 DEF Tidy, Started, Numbered, Held
  <2> QED
    BY <2>2, <2>3, <2>4
<1>12. CASE RecoverClear
  <2>1. /\ pc = "recoverClear" /\ pc' = "up" /\ journal' = NoJournal
        /\ UNCHANGED <<catalog, product, discarded, surface, agents>>
    BY <1>12 DEF RecoverClear
  <2>2. Alive' /\ Numbered'
    BY <1>1, <1>3, <2>1 DEF Alive, Numbered
  <2>3. Tidy'
    BY <1>1, <1>3, <2>1, NoRouteUnderWay DEF Tidy, Started, Bound, Known, Unwritten, Routing
  <2>4. Held'
    BY <1>1, <1>3, <2>1 DEF Held
  <2> QED
    BY <2>2, <2>3, <2>4
<1> QED
  BY <1>4, <1>5, <1>6, <1>7, <1>8, <1>9, <1>10, <1>11, <1>12 DEF Start

(* A request that was accepted, with the session its route ends on.        *)
LEMMA BeganTidy ==
    ASSUME AgreeInv, NEW op \in Ops, NEW id \in Sessions, NEW to \in Sessions,
           Began(op, id, to), made' \in {made, made + 1}, id <= made',
           op \in {"archive", "delete"} /\ id # catalog.current => to = catalog.current,
           op = "create" => id = made + 1
    PROVE  Alive' /\ Numbered' /\ Tidy' /\ Held'
<1> USE DEF SameList, Reopened, Live, Blank, Here, Unheld
<1>1. Alive /\ Numbered /\ Tidy /\ Held
  BY DEF AgreeInv
<1>2. surface \in Sessions \cup {None} /\ made \in Nat /\ id \in Nat /\ id >= 1
  BY CatalogAssumption DEF AgreeInv, SessionInv, FilesTyped, Sessions
<1>3. /\ pc = "up" /\ pc' = IF surface = to THEN "journal" ELSE "open"
      /\ UNCHANGED <<catalog, journal, product, discarded, surface, agents, faults>>
  BY DEF Began, Goto, disk
<1>4. /\ route'.op = op /\ route'.id = id /\ route'.from = surface /\ route'.to = to
      /\ route'.opened = FALSE /\ route'.adopted = FALSE /\ route'.written = FALSE
      /\ route'.previous = catalog /\ route'.applied = catalog
  BY DEF Began
<1>5. Alive'
  BY <1>1, <1>3, <1>4 DEF Alive
<1>6. Numbered'
  BY <1>1, <1>2, <1>3, <1>4 DEF Numbered
<1>7. Held'
  <2>1. ~Blank /\ Live(catalog) /\ pc' \in {"open", "journal"}
    BY <1>1, <1>3 DEF Alive
  <2>2. op = "create" => id \notin discarded
    BY <1>1, <1>2 DEF Numbered
  <2> QED
    BY <1>1, <1>3, <1>4, <2>1, <2>2 DEF Held
<1>8. ASSUME faults' <= 1
      PROVE  Started' /\ Leaving' /\ Moving' /\ GivingUp' /\ Marked' /\ Bound' /\ Known'
  <2>1. Here(catalog.current) /\ Bound
    BY <1>1, <1>3, <1>8 DEF Tidy, Started
  <2>2. Started' /\ Moving' /\ GivingUp'
    BY <1>3 DEF Started, Moving, GivingUp
  <2>3. Leaving'
    BY <1>3, <1>4, <2>1 DEF Leaving
  <2>4. Marked'
    BY <1>3, <1>4, <2>1 DEF Marked
  <2>5. Bound'
    BY <1>3, <2>1 DEF Bound
  <2>6. Known'
    BY <1>1, <1>3, <1>4, <1>8 DEF Tidy, Known, Unwritten
  <2> QED
    BY <2>2, <2>3, <2>4, <2>5, <2>6
<1> QED
  BY <1>5, <1>6, <1>7, <1>8 DEF Tidy

(* The requests: a create, a switch, an archive or a delete.               *)
LEMMA BeginTidy ==
    ASSUME AgreeInv, Begin PROVE Alive' /\ Numbered' /\ Tidy' /\ Held'
<1>1. catalog \in Catalogs /\ made \in Sessions
  BY DEF AgreeInv, SessionInv, FilesTyped
<1>2. CASE Create
  <2>1. made + 1 \in Sessions /\ made' = made + 1 /\ made + 1 <= made'
    BY <1>1, <1>2, CatalogAssumption DEF Create, Sessions
  <2> QED
    BY <1>2, <2>1, BeganTidy DEF Create, Ops
<1>3. ASSUME NEW s \in Sessions, Switch(s) PROVE Alive' /\ Numbered' /\ Tidy' /\ Held'
  BY <1>1, <1>3, BeganTidy DEF Switch, Ops
<1>4. ASSUME NEW s \in Sessions, NEW op \in Ops, Retire(op, s)
      PROVE  Alive' /\ Numbered' /\ Tidy' /\ Held'
  <2>1. PICK to \in Successors(catalog, s) : Began(op, s, to)
    BY <1>4 DEF Retire
  <2>2. to \in Sessions /\ (s # catalog.current => to = catalog.current)
    BY <1>1 DEF Successors, ActiveIn, Catalogs
  <2> QED
    BY <1>1, <1>4, <2>1, <2>2, BeganTidy DEF Retire
<1> QED
  BY <1>2, <1>3, <1>4 DEF Begin

(* The steps of a route, forward and back.                                 *)
LEMMA RouteTidy ==
    ASSUME AgreeInv, Route PROVE Alive' /\ Numbered' /\ Tidy' /\ Held'
<1> USE DEF Goto, memory, counts, disk, SameList, Reopened, Live, Blank, Here, Unheld
<1>1. Alive /\ Numbered /\ Tidy /\ Held
  BY DEF AgreeInv
<1>2. pc \in Routing /\ UNCHANGED <<made, faults>>
  BY DEF Route, Open, OpenFails, Journal, Apply, ApplyRefused, Commit, Persist, Adopt, Dispose,
         Unlink, Clear, Undo, UndoProduct, UndoClear, Routing
<1>3. /\ route \in Routes /\ catalog \in Catalogs /\ discarded \subseteq Sessions
      /\ (route.op \in {"create", "switch"} => route.id = route.to)
      /\ (route.op \in {"archive", "delete"} => route.id # route.to)
  BY <1>2, CatalogAssumption DEF AgreeInv, SessionInv, FilesTyped, RouteSound, Numbered,
     Sessions
<1>4. CASE Open
  <2>1. /\ pc = "open" /\ pc' = "journal" /\ agents' = agents \cup {route.to}
        /\ UNCHANGED <<catalog, journal, product, discarded, surface>>
    BY <1>4 DEF Open
  <2>2. /\ route'.op = route.op /\ route'.id = route.id /\ route'.from = route.from
        /\ route'.to = route.to /\ route'.opened = TRUE /\ route'.adopted = route.adopted
        /\ route'.written = route.written /\ route'.previous = route.previous
        /\ route'.applied = route.applied
    BY <1>3, <1>4 DEF Open, Routes
  <2>3. Alive'
    BY <1>1, <1>2, <1>3, <2>1, <2>2 DEF Alive
  <2>4. Numbered'
    BY <1>1, <1>2, <1>3, <2>1, <2>2 DEF Numbered
  <2>5. Held'
    BY <1>1, <1>2, <1>3, <2>1, <2>2 DEF Held
  <2>6. ASSUME faults <= 1
        PROVE  Started' /\ Leaving' /\ Moving' /\ GivingUp' /\ Marked' /\ Bound' /\ Known'
    <3>1. Started /\ Leaving /\ Moving /\ GivingUp /\ Marked /\ Bound /\ Known
      BY <1>1, <2>6 DEF Tidy
    <3>2. Started'
      BY <1>1, <1>2, <2>1, <2>2, <3>1 DEF Started
    <3>3. Leaving'
      BY <1>1, <1>2, <2>1, <2>2, <3>1 DEF Leaving
    <3>4. Moving'
      BY <1>1, <1>2, <2>1, <2>2, <3>1 DEF Leaving, Moving
    <3>5. GivingUp'
      BY <1>1, <1>2, <2>1, <2>2, <3>1 DEF Leaving, Moving, GivingUp, Marked
    <3>6. Marked'
      BY <1>1, <1>2, <2>1, <2>2, <3>1 DEF Leaving, Moving, GivingUp, Marked, SameSnapshot
    <3>7. Bound'
      BY <1>1, <1>2, <2>1, <2>2, <3>1 DEF Leaving, Moving, GivingUp, Marked, Bound, Numbered
    <3>8. Known'
      BY <1>1, <2>1, <2>2, <3>1 DEF Leaving, Moving, GivingUp, Marked, Known, Numbered,
         Unwritten, Routing
    <3> QED
      BY <3>2, <3>3, <3>4, <3>5, <3>6, <3>7, <3>8
  <2> QED
    BY <1>2, <2>3, <2>4, <2>5, <2>6 DEF Tidy
<1>5. CASE OpenFails
  <2>1. /\ pc = "open" /\ pc' = "undo"
        /\ UNCHANGED <<catalog, journal, product, discarded, surface, agents, route>>
    BY <1>5 DEF OpenFails
  <2>2. Alive'
    BY <1>1, <1>2, <1>3, <2>1 DEF Alive
  <2>3. Numbered'
    BY <1>1, <1>2, <1>3, <2>1 DEF Numbered
  <2>4. Held'
    BY <1>1, <1>2, <1>3, <2>1 DEF Held, Tidy, Leaving
  <2>5. ASSUME faults <= 1
        PROVE  Started' /\ Leaving' /\ Moving' /\ GivingUp' /\ Marked' /\ Bound' /\ Known'
    <3>1. Started /\ Leaving /\ Moving /\ GivingUp /\ Marked /\ Bound /\ Known
      BY <1>1, <2>5 DEF Tidy
    <3>2. Started'
      BY <1>1, <1>2, <2>1, <3>1 DEF Started
    <3>3. Leaving'
      BY <1>1, <1>2, <2>1, <3>1 DEF Leaving
    <3>4. Moving'
      BY <1>1, <1>2, <2>1, <3>1 DEF Leaving, Moving
    <3>5. GivingUp'
      BY <1>1, <1>2, <2>1, <3>1 DEF Leaving, Moving, GivingUp, Marked
    <3>6. Marked'
      BY <1>1, <1>2, <2>1, <3>1 DEF Leaving, Moving, GivingUp, Marked, SameSnapshot
    <3>7. Bound'
      BY <1>1, <1>2, <2>1, <3>1 DEF Leaving, Moving, GivingUp, Marked, Bound, Numbered
    <3>8. Known'
      BY <1>1, <2>1, <3>1 DEF Leaving, Moving, GivingUp, Marked, Known, Numbered, Unwritten,
         Routing
    <3> QED
      BY <3>2, <3>3, <3>4, <3>5, <3>6, <3>7, <3>8
  <2> QED
    BY <1>2, <2>2, <2>3, <2>4, <2>5 DEF Tidy
<1>6. CASE Journal
  <2>1. /\ pc = "journal" /\ pc' \in {"apply", "undo"}
        /\ UNCHANGED <<catalog, product, discarded, surface, agents>>
        /\ \/ pc' = "undo" /\ UNCHANGED journal
           \/ /\ pc' = "apply" /\ journal'.phase = "prepared" /\ journal'.previous = catalog
              /\ journal'.op = route.op
              /\ journal'.unlink = IF route.op = "delete" THEN {route.id} ELSE {}
    BY <1>6 DEF Journal, Entry, Prepared
  <2>2. /\ route'.op = route.op /\ route'.id = route.id /\ route'.from = route.from
        /\ route'.to = route.to /\ route'.opened = route.opened
        /\ route'.adopted = route.adopted /\ route'.written = route.written
        /\ route'.previous = catalog /\ route'.applied = route.applied
    BY <1>3, <1>6 DEF Journal, Routes
  <2>3. Live(catalog)
    BY <1>1, <1>2, <2>1 DEF Alive, Routing
  <2>4. Alive'
    BY <1>1, <1>2, <1>3, <2>1, <2>2, <2>3 DEF Alive
  <2>5. Numbered'
    BY <1>1, <1>2, <1>3, <2>1, <2>2, <2>3 DEF Numbered
  <2>6. Held'
    BY <1>1, <1>2, <1>3, <2>1, <2>2, <2>3 DEF Held, Tidy, Leaving
  <2>7. ASSUME faults <= 1
        PROVE  Started' /\ Leaving' /\ Moving' /\ GivingUp' /\ Marked' /\ Bound' /\ Known'
    <3>1. Started /\ Leaving /\ Moving /\ GivingUp /\ Marked /\ Bound /\ Known
      BY <1>1, <2>7 DEF Tidy
    <3>2. Started'
      BY <1>1, <1>2, <2>1, <2>2, <2>3, <3>1 DEF Started
    <3>3. Leaving'
      BY <1>1, <1>2, <2>1, <2>2, <2>3, <3>1 DEF Leaving
    <3>4. Moving'
      BY <1>1, <1>2, <2>1, <2>2, <2>3, <3>1 DEF Leaving, Moving
    <3>5. GivingUp'
      BY <1>1, <1>2, <2>1, <2>2, <2>3, <3>1 DEF Leaving, Moving, GivingUp, Marked
    <3>6. Marked'
      BY <1>1, <1>2, <2>1, <2>2, <2>3, <3>1 DEF Leaving, Moving, GivingUp, Marked, SameSnapshot
    <3>7. Bound'
      BY <1>1, <1>2, <2>1, <2>2, <2>3, <3>1 DEF Leaving, Moving, GivingUp, Marked, Bound,
         Numbered
    <3>8. Known'
      BY <1>1, <2>1, <2>2, <2>3, <3>1 DEF Leaving, Moving, GivingUp, Marked, Known, Numbered,
         Unwritten, Routing
    <3> QED
      BY <3>2, <3>3, <3>4, <3>5, <3>6, <3>7, <3>8
  <2> QED
    BY <1>2, <2>4, <2>5, <2>6, <2>7 DEF Tidy
<1>7. CASE ApplyRefused
  <2>1. /\ pc = "apply" /\ pc' = "undo"
        /\ UNCHANGED <<catalog, journal, product, discarded, surface, agents, route>>
    BY <1>7 DEF ApplyRefused
  <2>2. journal \in Prepareds /\ journal.phase = "prepared" /\ catalog = journal.previous
    BY <2>1 DEF AgreeInv, SessionInv, EntryFresh, Prepareds
  <2>3. Alive'
    BY <1>1, <1>2, <1>3, <2>1 DEF Alive
  <2>4. Numbered'
    BY <1>1, <1>2, <1>3, <2>1 DEF Numbered
  <2>5. Held'
    BY <1>1, <1>2, <1>3, <2>1 DEF Held, Tidy, Leaving
  <2>6. ASSUME faults <= 1
        PROVE  Started' /\ Leaving' /\ Moving' /\ GivingUp' /\ Marked' /\ Bound' /\ Known'
    <3>1. Started /\ Leaving /\ Moving /\ GivingUp /\ Marked /\ Bound /\ Known
      BY <1>1, <2>6 DEF Tidy
    <3>2. Started'
      BY <1>1, <1>2, <2>1, <3>1 DEF Started
    <3>3. Leaving'
      BY <1>1, <1>2, <2>1, <3>1 DEF Leaving
    <3>4. Moving'
      BY <1>1, <1>2, <2>1, <3>1 DEF Leaving, Moving
    <3>5. GivingUp'
      BY <1>1, <1>2, <2>1, <3>1 DEF Leaving, Moving, GivingUp, Marked
    <3>6. Marked'
      BY <1>1, <1>2, <2>1, <3>1 DEF Leaving, Moving, GivingUp, Marked, SameSnapshot
    <3>7. Bound'
      BY <1>1, <1>2, <2>1, <3>1 DEF Leaving, Moving, GivingUp, Marked, Bound, Numbered
    <3>8. Known'
      BY <2>1, <2>2, <3>1 DEF Leaving, Known, Unwritten, Routing
    <3> QED
      BY <3>2, <3>3, <3>4, <3>5, <3>6, <3>7, <3>8
  <2> QED
    BY <1>2, <2>3, <2>4, <2>5, <2>6 DEF Tidy
<1>8. CASE Persist
  <2>1. /\ pc = "persist" /\ pc' = "adopt" /\ product' = route.to
        /\ UNCHANGED <<catalog, journal, discarded, surface, agents, route>>
    BY <1>8 DEF Persist
  <2>2. Alive'
    BY <1>1, <1>2, <1>3, <2>1 DEF Alive
  <2>3. Numbered'
    BY <1>1, <1>2, <1>3, <2>1 DEF Numbered
  <2>4. Held'
    BY <1>1, <1>2, <1>3, <2>1 DEF Held
  <2>5. ASSUME faults <= 1
        PROVE  Started' /\ Leaving' /\ Moving' /\ GivingUp' /\ Marked' /\ Bound' /\ Known'
    <3>1. Started /\ Leaving /\ Moving /\ GivingUp /\ Marked /\ Bound /\ Known
      BY <1>1, <2>5 DEF Tidy
    <3>2. Started'
      BY <1>1, <1>2, <2>1, <3>1 DEF Started
    <3>3. Leaving'
      BY <1>1, <1>2, <2>1, <3>1 DEF Leaving
    <3>4. Moving'
      BY <1>1, <1>2, <2>1, <3>1 DEF Leaving, Moving
    <3>5. GivingUp'
      BY <1>1, <1>2, <2>1, <3>1 DEF Leaving, Moving, GivingUp, Marked
    <3>6. Marked'
      BY <1>1, <1>2, <2>1, <3>1 DEF Leaving, Moving, GivingUp, Marked, SameSnapshot
    <3>7. Bound'
      BY <1>1, <1>2, <2>1, <3>1 DEF Leaving, Moving, GivingUp, Marked, Bound, Numbered
    <3>8. Known'
      BY <1>1, <2>1, <3>1 DEF Leaving, Moving, GivingUp, Marked, Known, Numbered, Unwritten,
         Routing
    <3> QED
      BY <3>2, <3>3, <3>4, <3>5, <3>6, <3>7, <3>8
  <2> QED
    BY <1>2, <2>2, <2>3, <2>4, <2>5 DEF Tidy
<1>9. CASE Adopt
  <2>1. /\ pc = "adopt" /\ pc' = "dispose" /\ surface' = route.to
        /\ UNCHANGED <<catalog, journal, product, discarded, agents, route>>
    BY <1>9 DEF Adopt
  <2>2. Alive'
    BY <1>1, <1>2, <1>3, <2>1 DEF Alive
  <2>3. Numbered'
    BY <1>1, <1>2, <1>3, <2>1 DEF Numbered
  <2>4. Held'
    BY <1>1, <1>2, <1>3, <2>1 DEF Held
  <2>5. ASSUME faults <= 1
        PROVE  Started' /\ Leaving' /\ Moving' /\ GivingUp' /\ Marked' /\ Bound' /\ Known'
    <3>1. Started /\ Leaving /\ Moving /\ GivingUp /\ Marked /\ Bound /\ Known
      BY <1>1, <2>5 DEF Tidy
    <3>2. Started'
      BY <1>1, <1>2, <2>1, <3>1 DEF Started
    <3>3. Leaving'
      BY <1>1, <1>2, <2>1, <3>1 DEF Leaving
    <3>4. Moving'
      BY <1>1, <1>2, <2>1, <3>1 DEF Leaving, Moving
    <3>5. GivingUp'
      BY <1>1, <1>2, <2>1, <3>1 DEF Leaving, Moving, GivingUp, Marked
    <3>6. Marked'
      BY <1>1, <1>2, <2>1, <3>1 DEF Leaving, Moving, GivingUp, Marked, SameSnapshot
    <3>7. Bound'
      BY <1>1, <1>2, <2>1, <3>1 DEF Leaving, Moving, GivingUp, Marked, Bound, Numbered
    <3>8. Known'
      BY <1>1, <2>1, <3>1 DEF Leaving, Moving, GivingUp, Marked, Known, Numbered, Unwritten,
         Routing
    <3> QED
      BY <3>2, <3>3, <3>4, <3>5, <3>6, <3>7, <3>8
  <2> QED
    BY <1>2, <2>2, <2>3, <2>4, <2>5 DEF Tidy
<1>10. CASE Dispose
  <2>1. /\ pc = "dispose" /\ pc' \in {"unlink", "undo"}
        /\ agents' \in {agents, agents \ {route.from}}
        /\ UNCHANGED <<catalog, journal, product, discarded, surface>>
    BY <1>10 DEF Dispose
  <2>2. /\ route'.op = route.op /\ route'.id = route.id /\ route'.from = route.from
        /\ route'.to = route.to /\ route'.opened = route.opened
        /\ route'.adopted = TRUE /\ route'.written = route.written
        /\ route'.previous = route.previous /\ route'.applied = route.applied
    BY <1>3, <1>10 DEF Dispose, Routes
  <2>3. Alive'
    BY <1>1, <1>2, <1>3, <2>1, <2>2 DEF Alive
  <2>4. Numbered'
    BY <1>1, <1>2, <1>3, <2>1, <2>2 DEF Numbered
  <2>5. Held'
    BY <1>1, <1>2, <1>3, <2>1, <2>2 DEF Held
  <2>6. ASSUME faults <= 1
        PROVE  Started' /\ Leaving' /\ Moving' /\ GivingUp' /\ Marked' /\ Bound' /\ Known'
    <3>1. Started /\ Leaving /\ Moving /\ GivingUp /\ Marked /\ Bound /\ Known
      BY <1>1, <2>6 DEF Tidy
    <3>2. Started'
      BY <1>1, <1>2, <2>1, <2>2, <3>1 DEF Started
    <3>3. Leaving'
      BY <1>1, <1>2, <2>1, <2>2, <3>1 DEF Leaving
    <3>4. Moving'
      BY <1>1, <1>2, <2>1, <2>2, <3>1 DEF Leaving, Moving
    <3>5. GivingUp'
      BY <1>1, <1>2, <2>1, <2>2, <3>1 DEF Leaving, Moving, GivingUp, Marked, Numbered
    <3>6. Marked'
      BY <1>1, <1>2, <2>1, <2>2, <3>1 DEF Leaving, Moving, GivingUp, Marked, SameSnapshot
    <3>7. Bound'
      BY <1>1, <1>2, <2>1, <2>2, <3>1 DEF Leaving, Moving, GivingUp, Marked, Bound, Numbered
    <3>8. Known'
      BY <1>1, <2>1, <2>2, <3>1 DEF Leaving, Moving, GivingUp, Marked, Known, Numbered,
         Unwritten, Routing
    <3> QED
      BY <3>2, <3>3, <3>4, <3>5, <3>6, <3>7, <3>8
  <2> QED
    BY <1>2, <2>3, <2>4, <2>5, <2>6 DEF Tidy
<1>11. CASE Unlink
  <2>1. /\ pc = "unlink" /\ pc' = "unlink" /\ discarded' = discarded \cup journal.unlink
        /\ UNCHANGED <<catalog, journal, product, surface, agents, route>>
    BY <1>11 DEF Unlink
  <2>2. Alive'
    BY <1>1, <1>2, <1>3, <2>1 DEF Alive
  <2>3. Numbered'
    BY <1>1, <1>2, <1>3, <2>1 DEF Numbered
  <2>4. Held'
    BY <1>1, <1>2, <1>3, <2>1 DEF Held, Numbered
  <2>5. ASSUME faults <= 1
        PROVE  Started' /\ Leaving' /\ Moving' /\ GivingUp' /\ Marked' /\ Bound' /\ Known'
    <3>1. Started /\ Leaving /\ Moving /\ GivingUp /\ Marked /\ Bound /\ Known
      BY <1>1, <2>5 DEF Tidy
    <3>2. Started'
      BY <1>1, <1>2, <2>1, <3>1 DEF Started
    <3>3. Leaving'
      BY <1>1, <1>2, <2>1, <3>1 DEF Leaving
    <3>4. Moving'
      BY <1>1, <1>2, <2>1, <3>1 DEF Leaving, Moving
    <3>5. GivingUp'
      BY <1>1, <1>2, <2>1, <3>1 DEF Leaving, Moving, GivingUp, Marked
    <3>6. Marked'
      BY <1>1, <1>2, <2>1, <3>1 DEF Leaving, Moving, GivingUp, Marked, SameSnapshot
    <3>7. Bound'
      BY <1>1, <1>2, <2>1, <3>1 DEF Leaving, Moving, GivingUp, Marked, Bound, Numbered
    <3>8. Known'
      BY <1>1, <2>1, <3>1 DEF Leaving, Moving, GivingUp, Marked, Known, Numbered, Unwritten,
         Routing
    <3> QED
      BY <3>2, <3>3, <3>4, <3>5, <3>6, <3>7, <3>8
  <2> QED
    BY <1>2, <2>2, <2>3, <2>4, <2>5 DEF Tidy
<1>12. CASE Clear
  <2>1. /\ pc = "unlink" /\ pc' = "up" /\ journal' = NoJournal
        /\ UNCHANGED <<catalog, product, discarded, surface, agents>>
    BY <1>12 DEF Clear, Ended
  <2>2. pc' \notin Routing
    BY <2>1 DEF Routing
  <2>3. Alive'
    BY <1>1, <1>2, <1>3, <2>1, <2>2 DEF Alive
  <2>4. Numbered'
    BY <1>1, <1>2, <1>3, <2>1, <2>2 DEF Numbered
  <2>5. Held'
    BY <1>1, <1>2, <1>3, <2>1, <2>2 DEF Held
  <2>6. ASSUME faults <= 1
        PROVE  Started' /\ Leaving' /\ Moving' /\ GivingUp' /\ Marked' /\ Bound' /\ Known'
    <3>1. Started /\ Leaving /\ Moving /\ GivingUp /\ Marked /\ Bound /\ Known
      BY <1>1, <2>6 DEF Tidy
    <3>2. Started'
      BY <2>1, <2>2, <3>1 DEF Started, Leaving, Moving, GivingUp, Marked, SameSnapshot, Routing
    <3>3. Bound'
      BY <1>1, <2>1, <2>2, <3>1 DEF Leaving, Moving, GivingUp, Marked, Bound, Numbered,
         SameSnapshot, Routing
    <3>4. Leaving' /\ Moving' /\ GivingUp' /\ Marked'
      BY <2>2, NoRouteUnderWay
    <3>5. Known'
      BY <1>1, <2>1, <2>2, <3>1 DEF Leaving, Moving, GivingUp, Marked, Known, Numbered,
         Unwritten, Routing
    <3> QED
      BY <3>2, <3>3, <3>4, <3>5
  <2> QED
    BY <1>2, <2>3, <2>4, <2>5, <2>6 DEF Tidy
<1>13. CASE Undo /\ Undone
  <2>1. /\ pc = "undo" /\ pc' = "undoProduct" /\ agents' = NextDisposed
        /\ catalog' = route.previous /\ ~route.adopted /\ route.written
        /\ UNCHANGED <<journal, product, discarded, surface, route>>
    BY <1>13 DEF Undo, Undone
  <2>2. agents' \in {agents, agents \ {route.to}} /\ (agents' = agents \/ route.opened)
    BY <2>1 DEF NextDisposed
  <2>3. Live(route.previous)
    BY <1>1, <2>1 DEF Alive, Routing
  <2>4. Alive'
    BY <1>1, <1>2, <1>3, <2>1, <2>2, <2>3 DEF Alive
  <2>5. Numbered'
    BY <1>1, <1>2, <1>3, <2>1, <2>2, <2>3 DEF Numbered
  <2>6. Held'
    BY <1>1, <1>2, <1>3, <2>1, <2>2, <2>3 DEF Held
  <2>7. ASSUME faults <= 1
        PROVE  Started' /\ Leaving' /\ Moving' /\ GivingUp' /\ Marked' /\ Bound' /\ Known'
    <3>1. Started /\ Leaving /\ Moving /\ GivingUp /\ Marked /\ Bound /\ Known
      BY <1>1, <2>7 DEF Tidy
    <3>2. Started'
      BY <1>1, <1>2, <2>1, <2>2, <2>3, <3>1 DEF Started
    <3>3. Leaving'
      BY <1>1, <1>2, <2>1, <2>2, <2>3, <3>1 DEF Leaving
    <3>4. Moving'
      BY <1>1, <1>2, <2>1, <2>2, <2>3, <3>1 DEF Leaving, Moving
    <3>5. GivingUp'
      BY <1>1, <1>2, <2>1, <2>2, <2>3, <3>1 DEF Leaving, Moving, GivingUp, Marked
    <3>6. Marked'
      BY <1>1, <1>2, <2>1, <2>2, <2>3, <3>1 DEF Leaving, Moving, GivingUp, Marked, SameSnapshot
    <3>7. Bound'
      BY <1>1, <1>2, <2>1, <2>2, <2>3, <3>1 DEF Leaving, Moving, GivingUp, Marked, Bound,
         Numbered
    <3>8. Known'
      BY <1>1, <2>1, <2>2, <2>3, <3>1 DEF Leaving, Moving, GivingUp, Marked, Known, Numbered,
         Unwritten, Routing
    <3> QED
      BY <3>2, <3>3, <3>4, <3>5, <3>6, <3>7, <3>8
  <2> QED
    BY <1>2, <2>4, <2>5, <2>6, <2>7 DEF Tidy
<1>14. CASE Undo /\ ~Undone
  <2>1. /\ pc = "undo" /\ pc' = "up" /\ agents' = NextDisposed
        /\ journal' = IF Unapplied THEN NoJournal ELSE journal
        /\ UNCHANGED <<catalog, product, discarded, surface>>
    BY <1>14 DEF Undo, Ended
  <2>2. /\ agents' \in {agents, agents \ {route.to}}
        /\ (agents' = agents \/ (route.opened /\ ~route.adopted))
    BY <2>1 DEF NextDisposed
  <2>3. route.adopted \/ ~route.written \/ ~SameSnapshot(catalog, route.applied)
    BY <1>14 DEF Undone
  <2>4. /\ journal' \in {journal, NoJournal}
        /\ (journal' = NoJournal <=>
               (~route.adopted /\ ~route.written) \/ journal = NoJournal)
    BY <2>1 DEF Unapplied
  <2>5. Live(catalog)
    BY <1>1, <2>1 DEF Alive, Routing
  <2>6. pc' \notin Routing
    BY <2>1 DEF Routing
  <2>7. Alive'
    BY <1>1, <1>2, <1>3, <2>1, <2>2, <2>3, <2>4, <2>5, <2>6 DEF Alive
  <2>8. Numbered'
    BY <1>1, <1>2, <1>3, <2>1, <2>2, <2>3, <2>4, <2>5, <2>6 DEF Numbered
  <2>9. Held'
    BY <1>1, <1>2, <1>3, <2>1, <2>2, <2>3, <2>4, <2>5, <2>6 DEF Held
  <2>10. ASSUME faults <= 1
         PROVE  Started' /\ Leaving' /\ Moving' /\ GivingUp' /\ Marked' /\ Bound' /\ Known'
    <3>1. Started /\ Leaving /\ Moving /\ GivingUp /\ Marked /\ Bound /\ Known
      BY <1>1, <2>10 DEF Tidy
    <3>2. Started'
      BY <2>1, <2>2, <2>3, <2>4, <2>5, <2>6, <3>1 DEF Started, Leaving, Moving, GivingUp,
         Marked, SameSnapshot, Routing
    <3>3. Bound'
      BY <1>1, <2>1, <2>2, <2>3, <2>4, <2>5, <2>6, <3>1 DEF Leaving, Moving, GivingUp, Marked,
         Bound, Numbered, SameSnapshot, Routing
    <3>4. Leaving' /\ Moving' /\ GivingUp' /\ Marked'
      BY <2>6, NoRouteUnderWay
    <3>5. Known'
      <4>1. CASE ~route.written /\ ~route.adopted
        BY <2>1, <2>4, <2>6, <4>1 DEF Known, Unwritten
      <4>2. CASE route.adopted
        <5>1. /\ journal.phase = "committed" /\ journal.intended = route.applied
              /\ SameSnapshot(catalog, route.applied)
          BY <1>2, <2>1, <3>1, <4>2 DEF GivingUp, Marked, Known
        <5>2. journal' = journal
          BY <2>1, <4>2 DEF Unapplied
        <5> QED
          BY <2>1, <5>1, <5>2 DEF Known, Unwritten, SameSnapshot, Routing
      <4>3. CASE route.written /\ ~route.adopted
        BY <1>2, <2>1, <2>3, <3>1, <4>3 DEF Marked
      <4> QED
        BY <4>1, <4>2, <4>3
    <3> QED
      BY <3>2, <3>3, <3>4, <3>5
  <2> QED
    BY <1>2, <2>7, <2>8, <2>9, <2>10 DEF Tidy
<1>15. CASE UndoProduct
  <2>1. /\ pc = "undoProduct" /\ pc' = "undoClear"
        /\ product' = route.from /\ surface' = route.from
        /\ UNCHANGED <<catalog, journal, discarded, agents, route>>
    BY <1>15 DEF UndoProduct
  <2>2. Alive'
    BY <1>1, <1>2, <1>3, <2>1 DEF Alive
  <2>3. Numbered'
    BY <1>1, <1>2, <1>3, <2>1 DEF Numbered
  <2>4. Held'
    BY <1>1, <1>2, <1>3, <2>1 DEF Held
  <2>5. ASSUME faults <= 1
        PROVE  Started' /\ Leaving' /\ Moving' /\ GivingUp' /\ Marked' /\ Bound' /\ Known'
    <3>1. Started /\ Leaving /\ Moving /\ GivingUp /\ Marked /\ Bound /\ Known
      BY <1>1, <2>5 DEF Tidy
    <3>2. Started'
      BY <1>1, <1>2, <2>1, <3>1 DEF Started
    <3>3. Leaving'
      BY <1>1, <1>2, <2>1, <3>1 DEF Leaving
    <3>4. Moving'
      BY <1>1, <1>2, <2>1, <3>1 DEF Leaving, Moving
    <3>5. GivingUp'
      BY <1>1, <1>2, <2>1, <3>1 DEF Leaving, Moving, GivingUp, Marked
    <3>6. Marked'
      BY <1>1, <1>2, <2>1, <3>1 DEF Leaving, Moving, GivingUp, Marked, SameSnapshot
    <3>7. Bound'
      BY <1>1, <1>2, <2>1, <3>1 DEF Leaving, Moving, GivingUp, Marked, Bound, Numbered
    <3>8. Known'
      BY <1>1, <2>1, <3>1 DEF Leaving, Moving, GivingUp, Marked, Known, Numbered, Unwritten,
         Routing
    <3> QED
      BY <3>2, <3>3, <3>4, <3>5, <3>6, <3>7, <3>8
  <2> QED
    BY <1>2, <2>2, <2>3, <2>4, <2>5 DEF Tidy
<1>16. CASE UndoClear
  <2>1. /\ pc = "undoClear" /\ pc' = "up" /\ journal' = NoJournal
        /\ UNCHANGED <<catalog, product, discarded, surface, agents>>
    BY <1>16 DEF UndoClear, Ended
  <2>2. pc' \notin Routing
    BY <2>1 DEF Routing
  <2>3. Alive'
    BY <1>1, <1>2, <1>3, <2>1, <2>2 DEF Alive
  <2>4. Numbered'
    BY <1>1, <1>2, <1>3, <2>1, <2>2 DEF Numbered
  <2>5. Held'
    BY <1>1, <1>2, <1>3, <2>1, <2>2 DEF Held
  <2>6. ASSUME faults <= 1
        PROVE  Started' /\ Leaving' /\ Moving' /\ GivingUp' /\ Marked' /\ Bound' /\ Known'
    <3>1. Started /\ Leaving /\ Moving /\ GivingUp /\ Marked /\ Bound /\ Known
      BY <1>1, <2>6 DEF Tidy
    <3>2. Started'
      BY <2>1, <2>2, <3>1 DEF Started, Leaving, Moving, GivingUp, Marked, SameSnapshot, Routing
    <3>3. Bound'
      BY <1>1, <2>1, <2>2, <3>1 DEF Leaving, Moving, GivingUp, Marked, Bound, Numbered,
         SameSnapshot, Routing
    <3>4. Leaving' /\ Moving' /\ GivingUp' /\ Marked'
      BY <2>2, NoRouteUnderWay
    <3>5. Known'
      BY <1>1, <2>1, <2>2, <3>1 DEF Leaving, Moving, GivingUp, Marked, Known, Numbered,
         Unwritten, Routing
    <3> QED
      BY <3>2, <3>3, <3>4, <3>5
  <2> QED
    BY <1>2, <2>3, <2>4, <2>5, <2>6 DEF Tidy
<1>17. CASE Apply
  <2>1. /\ pc = "apply" /\ pc' = "commit" /\ catalog' = Applied(catalog, route.op, route.id, route.to)
        /\ Applicable(catalog, route.op, route.id)
        /\ UNCHANGED <<journal, product, discarded, surface, agents>>
    BY <1>17 DEF Apply
  <2>2. /\ route'.op = route.op /\ route'.id = route.id /\ route'.from = route.from
        /\ route'.to = route.to /\ route'.opened = route.opened
        /\ route'.adopted = route.adopted /\ route'.written = TRUE
        /\ route'.previous = route.previous /\ route'.applied = catalog'
    BY <1>3, <1>17 DEF Apply, Routes
  <2>3. /\ journal \in Prepareds /\ JournalOK(journal) /\ catalog = journal.previous
        /\ journal.op = route.op /\ journal.to = route.to
    BY <2>1 DEF AgreeInv, SessionInv, EntryFresh, StartReadable, Prepareds
  <2>4. Outcome[route.op] \in Lifecycles
    BY <1>3 DEF Routes, Ops, Outcome, Lifecycles
  <2>5. /\ catalog' \in Catalogs
        /\ catalog'.current = route.to /\ catalog'.life[route.id] = Outcome[route.op]
        /\ \A t \in Sessions : t # route.id => catalog'.life[t] = catalog.life[t]
        /\ catalog'.revision = catalog.revision + 1 /\ catalog'.origins = catalog.origins
    <3>1. PICK op \in Ops, id \in Sessions, to \in Sessions :
             op = route.op /\ id = route.id /\ to = route.to
      BY <1>3 DEF Routes
    <3>2. catalog' = Applied(catalog, op, id, to) /\ Outcome[op] \in Lifecycles
      BY <2>1, <2>4, <3>1
    <3>3. /\ Applied(catalog, op, id, to) \in Catalogs
          /\ Applied(catalog, op, id, to).current = to
          /\ Applied(catalog, op, id, to).life[id] = Outcome[op]
          /\ Applied(catalog, op, id, to).revision = catalog.revision + 1
          /\ Applied(catalog, op, id, to).origins = catalog.origins
          /\ \A t \in Sessions : t # id => Applied(catalog, op, id, to).life[t] = catalog.life[t]
      BY <1>3, <3>2, AppliedIs
    <3> QED
      BY <3>1, <3>2, <3>3
  <2>6. Live(catalog')
    <3>1. CASE route.op \in {"create", "switch"}
      BY <1>3, <2>5, <3>1 DEF Outcome
    <3>2. CASE route.op \in {"archive", "delete"}
      <4>1. route.to \in Sessions /\ catalog.life[route.to] = "active"
        BY <1>3, <2>3, <3>2 DEF Routes, JournalOK, ActiveIn
      <4> QED
        BY <1>3, <2>5, <3>2, <4>1
    <3> QED
      BY <1>3, <3>1, <3>2 DEF Routes, Ops
  <2>7. faults = 0 => Unheld(catalog')
    <3> SUFFICES ASSUME faults = 0, NEW s \in discarded PROVE catalog'.life[s] = "absent"
      BY Zenon
    <3>1. s \in Sessions /\ catalog.life[s] = "absent"
      BY <1>1, <1>3 DEF Held
    <3>2. CASE s # route.id
      BY <2>5, <3>1, <3>2
    <3>3. CASE s = route.id
      <4>1. route.op = "delete"
        <5>1. route.op # "create"
          BY <1>1, <2>1, <3>3 DEF Held, Routing
        <5>2. route.op \notin {"switch", "archive"}
          BY <2>1, <3>1, <3>3 DEF Applicable, ActiveIn, Listed
        <5> QED
          BY <1>3, <5>1, <5>2 DEF Routes, Ops
      <4> QED
        BY <2>5, <3>3, <4>1 DEF Outcome
    <3> QED
      BY <3>2, <3>3
  <2>8. faults <= 1 /\ ~SameList(catalog', catalog) => JournalOK(Committed(journal, catalog'))
    <3> SUFFICES ASSUME faults <= 1, ~SameList(catalog', catalog)
                 PROVE  JournalOK(Committed(journal, catalog'))
      OBVIOUS
    <3> DEFINE entry == Committed(journal, catalog')
    <3>1. /\ entry.phase = "committed" /\ entry.op = route.op /\ entry.from = journal.from
          /\ entry.to = route.to /\ entry.previous = catalog /\ entry.unlink = journal.unlink
          /\ entry.intended = catalog'
      BY <2>3 DEF Committed
    <3>2. /\ catalog.current = journal.from
          /\ route.op = "delete" =>
                route.to \notin journal.unlink /\ journal.unlink \subseteq Listed(catalog)
          /\ IF route.op = "create" THEN route.to \notin Listed(catalog)
             ELSE route.to \in ActiveIn(catalog)
      BY <2>3 DEF JournalOK
    <3>3. /\ catalog'.current = route.to /\ route.to \in ActiveIn(catalog')
          /\ catalog'.revision > catalog.revision
          /\ KeepsOrigins(catalog', catalog)
      BY <1>3, <2>5, <2>6 DEF Routes, ActiveIn, KeepsOrigins, Catalogs
    <3>4. route.op = "archive" => catalog.life[route.id] = "active"
      <4> SUFFICES ASSUME route.op = "archive", catalog.life[route.id] # "active" PROVE FALSE
        OBVIOUS
      <4>1. catalog.life[route.id] = "archived"
        BY <1>3, <2>1 DEF Applicable, Listed, Catalogs, Lifecycles, Routes
      <4>2. catalog.life[catalog.current] = "active" /\ catalog.current = route.from
            /\ (route.from # route.to => route.id = route.from)
        BY <1>1, <2>1 DEF Tidy, Marked, Leaving, Alive, Routing
      <4>3. catalog'.current = catalog.current
        BY <2>5, <4>1, <4>2
      <4>4. \A t \in Sessions : catalog'.life[t] = catalog.life[t]
        BY <2>5, <4>1 DEF Outcome
      <4>5. catalog.life \in [Sessions -> Lifecycles] /\ catalog'.life \in [Sessions -> Lifecycles]
        BY <1>3, <2>5 DEF Catalogs
      <4>6. catalog'.life = catalog.life
        BY <4>4, <4>5
      <4> QED
        BY <4>3, <4>6
    <3>5. Changed(catalog, catalog') = IF route.op = "switch" THEN {} ELSE {route.id}
      <4>1. CASE route.op = "switch"
        BY <1>3, <2>1, <2>5, <4>1 DEF Changed, Outcome, Applicable, ActiveIn
      <4>2. CASE route.op = "create"
        BY <1>3, <2>1, <2>5, <4>2 DEF Changed, Outcome, Applicable, Listed, Routes
      <4>3. CASE route.op = "archive"
        BY <1>3, <2>5, <3>4, <4>3 DEF Changed, Outcome, Routes
      <4>4. CASE route.op = "delete"
        BY <1>3, <2>1, <2>5, <4>4 DEF Changed, Outcome, Routes, Applicable, Listed
      <4> QED
        BY <1>3, <4>1, <4>2, <4>3, <4>4 DEF Routes, Ops
    <3>6. LegalChange(entry)
      <4>1. CASE route.op = "switch"
        BY <3>1, <3>5, <4>1 DEF LegalChange
      <4>2. CASE route.op = "create"
        BY <1>3, <3>1, <3>5, <4>2 DEF LegalChange
      <4>3. CASE route.op = "archive"
        <5>1. catalog'.life[route.id] = "archived" /\ route.id \in Listed(catalog)
          BY <1>3, <2>5, <3>4, <4>3 DEF Outcome, Listed, Routes
        <5> QED
          BY <3>1, <3>5, <4>3, <5>1 DEF LegalChange
      <4>4. CASE route.op = "delete"
        <5>1. catalog'.life[route.id] = "absent" /\ journal.unlink = {route.id}
          BY <1>1, <2>1, <2>5, <4>4 DEF Outcome, Numbered
        <5> QED
          BY <3>1, <3>5, <4>4, <5>1 DEF LegalChange, Listed
      <4> QED
        BY <1>3, <4>1, <4>2, <4>3, <4>4 DEF Routes, Ops
    <3> QED
      BY <3>1, <3>2, <3>3, <3>6 DEF JournalOK
  <2>9. journal.phase = "prepared"
    BY <2>3 DEF Prepareds
  <2>10. Alive'
    BY <1>1, <1>2, <1>3, <2>1, <2>2, <2>3, <2>4, <2>5, <2>6, <2>7, <2>8 DEF Alive
  <2>11. Numbered'
    BY <1>1, <1>2, <1>3, <2>1, <2>2, <2>3, <2>4, <2>5, <2>6, <2>7, <2>8 DEF Numbered
  <2>12. Held'
    BY <1>1, <1>2, <2>1, <2>2, <2>7, <2>9 DEF Held, Routing
  <2>13. ASSUME faults <= 1
         PROVE  Started' /\ Leaving' /\ Moving' /\ GivingUp' /\ Marked' /\ Bound' /\ Known'
    <3>1. Started /\ Leaving /\ Moving /\ GivingUp /\ Marked /\ Bound /\ Known
      BY <1>1, <2>13 DEF Tidy
    <3>2. Started'
      BY <1>1, <1>2, <2>1, <2>2, <2>3, <2>4, <2>5, <2>6, <2>7, <2>8, <3>1 DEF Started
    <3>3. Leaving'
      BY <1>1, <1>2, <2>1, <2>2, <2>3, <2>4, <2>5, <2>6, <2>7, <2>8, <3>1 DEF Leaving
    <3>4. Moving'
      <4>1. (pc = "commit" /\ ~SameList(route.applied, route.previous) =>
                JournalOK(Committed(journal, route.applied)))'
        <5>1. /\ ~SameList(catalog', catalog) => JournalOK(Committed(journal', route'.applied))
              /\ route'.previous = catalog
          BY <2>1, <2>2, <2>3, <2>8, <2>13, <3>1 DEF Known, Routing
        <5>2. ~SameList(route'.applied, route'.previous) => JournalOK(Committed(journal', route'.applied))
          BY <2>2, <5>1
        <5> QED
          BY <5>2 DEF JournalOK, LegalChange, Committed, KeepsOrigins, Changed, ActiveIn,
             Listed
      <4> QED
        BY <2>1, <2>2, <4>1 DEF Moving
    <3>5. GivingUp'
      BY <1>1, <1>2, <2>1, <2>2, <2>3, <2>4, <2>5, <2>6, <2>7, <2>8, <3>1 DEF Leaving, Moving,
         GivingUp, Marked
    <3>6. Marked'
      BY <1>2, <2>1, <2>2, <2>5, <2>9, <3>1 DEF Marked, SameSnapshot
    <3>7. Bound'
      BY <2>1, <2>9, <3>1 DEF Bound
    <3>8. Known'
      BY <2>1, <2>2, <2>9, <3>1 DEF Known, Unwritten, Routing
    <3> QED
      BY <3>2, <3>3, <3>4, <3>5, <3>6, <3>7, <3>8
  <2> QED
    BY <1>2, <2>10, <2>11, <2>12, <2>13 DEF Tidy
<1>18. CASE Commit
  <2>1. /\ pc = "commit" /\ UNCHANGED <<catalog, product, discarded, surface, agents, route>>
        /\ \/ /\ JournalOK(Committed(journal, route.applied))
              /\ journal' = Committed(journal, route.applied)
              /\ pc' = IF route.from = route.to THEN "unlink" ELSE "persist"
           \/ ~JournalOK(Committed(journal, route.applied)) /\ UNCHANGED journal /\ pc' = "undo"
    BY <1>18 DEF Commit
  <2>2. journal \in Prepareds /\ journal.phase = "prepared"
    BY <2>1 DEF AgreeInv, SessionInv, EntryFresh, Prepareds
  <2>3. LET entry == Committed(journal, route.applied)
        IN  /\ entry.phase = "committed" /\ entry.previous = journal.previous
            /\ entry.unlink = journal.unlink /\ entry.intended = route.applied
            /\ entry.op = journal.op
    BY DEF Committed
  <2>4. journal'.phase = "committed" /\ faults = 0 =>
           \A s \in journal'.unlink :
               journal'.intended.life[s] = "absent" /\ catalog'.life[s] = "absent"
    <3> SUFFICES ASSUME journal'.phase = "committed", faults = 0
                 PROVE  \A s \in journal'.unlink : journal'.intended.life[s] = "absent"
      BY <1>1, <2>1, <2>2, <2>3 DEF Tidy, Moving
    <3>1. /\ JournalOK(Committed(journal, route.applied)) /\ journal'.unlink = journal.unlink
          /\ journal'.intended = route.applied
      BY <2>1, <2>2, <2>3
    <3>2. CASE journal.op = "delete"
      BY <1>1, <2>2, <3>1, <3>2 DEF Committed, JournalOK, LegalChange, Listed
    <3>3. CASE journal.op # "delete"
      BY <1>1, <2>2, <3>1, <3>3 DEF Numbered
    <3> QED
      BY <3>2, <3>3
  <2>5. Alive'
    BY <1>1, <1>2, <1>3, <2>1, <2>2, <2>3 DEF Alive
  <2>6. Numbered'
    BY <1>1, <1>2, <1>3, <2>1, <2>2, <2>3 DEF Numbered
  <2>7. Held'
    BY <1>1, <1>2, <2>1, <2>2, <2>3, <2>4 DEF Held, Routing
  <2>8. ASSUME faults <= 1
        PROVE  Started' /\ Leaving' /\ Moving' /\ GivingUp' /\ Marked' /\ Bound' /\ Known'
    <3>1. Started /\ Leaving /\ Moving /\ GivingUp /\ Marked /\ Bound /\ Known
      BY <1>1, <2>8 DEF Tidy
    <3>2. Started'
      BY <1>1, <1>2, <2>1, <2>2, <2>3, <3>1 DEF Started
    <3>3. Leaving'
      BY <1>1, <1>2, <2>1, <2>2, <2>3, <3>1 DEF Leaving
    <3>4. Moving'
      BY <1>1, <1>2, <2>1, <2>2, <2>3, <3>1 DEF Leaving, Moving
    <3>5. GivingUp'
      BY <1>1, <1>2, <2>1, <2>2, <2>3, <3>1 DEF Leaving, Moving, GivingUp, Marked
    <3>6. Marked'
      BY <1>1, <1>2, <2>1, <2>2, <2>3, <3>1 DEF Leaving, Moving, GivingUp, Marked, SameSnapshot
    <3>7. Bound'
      BY <1>1, <1>2, <2>1, <2>2, <2>3, <3>1 DEF Leaving, Moving, GivingUp, Marked, Bound,
         Numbered
    <3>8. Known'
      BY <1>1, <2>1, <2>2, <2>3, <3>1 DEF Leaving, Moving, GivingUp, Marked, Known, Numbered,
         Unwritten, Routing
    <3> QED
      BY <3>2, <3>3, <3>4, <3>5, <3>6, <3>7, <3>8
  <2> QED
    BY <1>2, <2>5, <2>6, <2>7, <2>8 DEF Tidy
<1> QED
  BY <1>4, <1>5, <1>6, <1>17, <1>7, <1>18, <1>8, <1>9, <1>10, <1>11, <1>12, <1>13, <1>15,
     <1>16,
     <1>14
  DEF Route

(* What writes the catalogue without a route.                              *)
LEMMA OtherTidy ==
    ASSUME AgreeInv, Other PROVE Alive' /\ Numbered' /\ Tidy' /\ Held'
<1> USE DEF Goto, memory, counts, SameList, Reopened, Live, Blank, Here, Unheld
<1>1. Alive /\ Numbered /\ Tidy /\ Held
  BY DEF AgreeInv
<1>2. catalog \in Catalogs /\ discarded \subseteq Sessions /\ made \in Sessions
  BY CatalogAssumption DEF AgreeInv, SessionInv, FilesTyped, Numbered, Sessions
<1>3. /\ pc \notin {"down", "rolledBack", "commit", "undoProduct", "undoClear"}
      /\ UNCHANGED <<journal, product, discarded, pc, surface, agents, route, made, faults>>
  BY DEF Other, Annotate, Restore, NoteOrigin, Waiting
<1>4. /\ catalog'.current = catalog.current
      /\ catalog'.life[catalog.current] = "active"
      /\ \A s \in Sessions : catalog.life[s] = "absent" => catalog'.life[s] = "absent"
      /\ pc \in Routing => catalog'.life = catalog.life /\ catalog'.revision = catalog.revision
      /\ (pc = "up" /\ Reopened(catalog, catalog')) \/ catalog'.life = catalog.life
  <2>1. catalog.life[catalog.current] = "active" /\ catalog.current \in Sessions
    BY <1>1, <1>2, <1>3 DEF Alive, Catalogs
  <2>2. CASE Annotate
    BY <1>2, <2>1, <2>2 DEF Annotate, Annotated, Catalogs, Routing
  <2>3. ASSUME NEW s \in Sessions, Restore(s)
        PROVE  /\ catalog'.current = catalog.current
               /\ catalog'.life[catalog.current] = "active"
               /\ \A t \in Sessions : catalog.life[t] = "absent" => catalog'.life[t] = "absent"
               /\ pc = "up" /\ pc \notin Routing /\ Reopened(catalog, catalog')
    <3>1. catalog' = Rewritten(catalog, catalog.current, s, "active") /\ catalog.life[s] # "absent"
          /\ pc = "up"
      BY <2>3 DEF Restore, Listed
    <3>2. pc \notin Routing
      BY <3>1 DEF Routing
    <3> QED
      <4>1. catalog \in Catalogs /\ catalog.current \in Sessions
        BY <1>2, <2>1
      <4>2. /\ catalog'.current = catalog.current /\ catalog'.life[s] = "active"
            /\ \A t \in Sessions : t # s => catalog'.life[t] = catalog.life[t]
        <5>1. PICK current \in Sessions : current = catalog.current
          BY <4>1
        <5>2. catalog' = Rewritten(catalog, current, s, "active")
          BY <3>1, <5>1
        <5>3. /\ Rewritten(catalog, current, s, "active").current = current
              /\ Rewritten(catalog, current, s, "active").life[s] = "active"
              /\ \A t \in Sessions : t # s =>
                    Rewritten(catalog, current, s, "active").life[t] = catalog.life[t]
          BY <4>1, MadeActive
        <5> QED
          BY <5>1, <5>2, <5>3
      <4>3. catalog.life[s] \in {"active", "archived"}
        BY <1>2, <3>1 DEF Catalogs, Lifecycles
      <4> QED
        BY <2>1, <3>1, <3>2, <4>1, <4>2, <4>3
  <2>4. ASSUME NEW c \in Confirmations, NoteOrigin(c)
        PROVE  /\ catalog'.current = catalog.current
               /\ catalog'.life = catalog.life /\ catalog'.revision = catalog.revision
    BY <1>2, <2>4 DEF NoteOrigin, Noted, Catalogs
  <2> QED
    BY <2>1, <2>2, <2>3, <2>4 DEF Other
<1>5. Alive'
  BY <1>1, <1>3, <1>4 DEF Alive
<1>6. Numbered'
  BY <1>1, <1>3 DEF Numbered
<1>7. Held'
  <2>1. journal.phase = "committed" => journal.unlink \subseteq Sessions
    BY <1>1, <1>2, CatalogAssumption DEF Numbered, Sessions
  <2> QED
    BY <1>1, <1>2, <1>3, <1>4, <2>1 DEF Held
<1>8. ASSUME faults <= 1
      PROVE  Started' /\ Leaving' /\ Moving' /\ GivingUp' /\ Marked' /\ Bound' /\ Known'
  <2>1. Started /\ Leaving /\ Moving /\ GivingUp /\ Marked /\ Bound /\ Known
    BY <1>1, <1>8 DEF Tidy
  <2>2. Started'
    BY <1>3, <1>4, <2>1 DEF Started
  <2>3. Leaving'
    BY <1>3, <1>4, <2>1 DEF Leaving
  <2>4. Moving'
    BY <1>3, <2>1 DEF Moving
  <2>5. GivingUp'
    BY <1>3, <1>4, <2>1 DEF GivingUp
  <2>6. Marked'
    BY <1>3, <1>4, <2>1 DEF Marked, SameSnapshot
  <2>7. Bound'
    BY <1>3, <1>4, <2>1 DEF Bound
  <2>8. Known'
    <3>1. CASE catalog'.life = catalog.life
      BY <1>3, <1>4, <2>1, <3>1 DEF Known, Unwritten
    <3>2. CASE catalog'.life # catalog.life
      BY <1>3, <1>4, <2>1, <3>2 DEF Known, Unwritten, Routing
    <3> QED
      BY <3>1, <3>2
  <2> QED
    BY <2>2, <2>3, <2>4, <2>5, <2>6, <2>7, <2>8
<1> QED
  BY <1>3, <1>5, <1>6, <1>7, <1>8 DEF Tidy

(* A failing write, a failing undo, and the end of the process.            *)
LEMMA FailureTidy ==
    ASSUME AgreeInv, WriteFails \/ UndoFails \/ Crash
    PROVE  Alive' /\ Numbered' /\ Tidy' /\ Held'
<1> USE DEF Goto, disk, memory, counts, SameList, Reopened, Live, Blank, Here, Unheld
<1>1. Alive /\ Numbered /\ Tidy /\ Held /\ faults \in 0 .. MaxFaults
  BY DEF AgreeInv, Numbered
<1>2. CASE WriteFails
  <2>1. /\ pc \in {"journal", "apply", "commit", "persist", "unlink"} /\ pc' = "undo"
        /\ faults' = faults + 1 /\ faults < MaxFaults
        /\ UNCHANGED <<catalog, journal, product, surface, agents, made>>
        /\ discarded' = discarded \/ (pc = "unlink" /\ discarded' = discarded \cup journal.unlink)
    BY <1>2 DEF WriteFails, Fault
  <2>2. pc \in Routing /\ route \in Routes
    BY <2>1 DEF AgreeInv, SessionInv, RouteSound, Routing
  <2>3. /\ route'.op = route.op /\ route'.id = route.id /\ route'.from = route.from
        /\ route'.to = route.to /\ route'.opened = route.opened
        /\ route'.adopted = route.adopted /\ route'.written = route.written
        /\ route'.applied = route.applied
        /\ route'.previous = route.previous \/ (pc = "journal" /\ route'.previous = catalog)
    BY <1>2, <2>2 DEF WriteFails, Routes
  <2>4. Alive'
    BY <1>1, <2>1, <2>2, <2>3 DEF Alive
  <2>5. Numbered'
    <3>1. discarded' \subseteq 1 .. made
      <4>1. pc = "unlink" => journal.unlink \subseteq 1 .. made
        BY <1>1 DEF Numbered
      <4>2. discarded \subseteq 1 .. made
        BY <1>1 DEF Numbered
      <4> QED
        BY <2>1, <4>1, <4>2
    <3>2. faults' \in 0 .. MaxFaults
      BY <1>1, <2>1, RouteAssumption
    <3> QED
      BY <1>1, <2>1, <2>2, <2>3, <3>1, <3>2 DEF Numbered
  <2>6. Held'
    BY <1>1, <2>1 DEF Held
  <2>7. ASSUME faults' <= 1
        PROVE  Started' /\ Leaving' /\ Moving' /\ GivingUp' /\ Marked' /\ Bound' /\ Known'
    <3>1. Started /\ Leaving /\ Moving /\ GivingUp /\ Marked /\ Bound /\ Known
      BY <1>1, <2>1, <2>7 DEF Tidy
    <3>2. Started' /\ Leaving' /\ Moving'
      BY <2>1 DEF Started, Leaving, Moving
    <3>3. GivingUp'
      BY <1>1, <2>1, <2>2, <2>3, <3>1 DEF Leaving, Moving, GivingUp, Marked, SameSnapshot,
         Numbered
    <3>4. Marked'
      BY <2>1, <2>2, <2>3, <3>1 DEF Leaving, Marked, SameSnapshot
    <3>5. Bound'
      BY <2>1, <3>1 DEF Bound
    <3>6. Known'
      <4>1. pc = "apply" => journal \in Prepareds /\ catalog = journal.previous
        BY DEF AgreeInv, SessionInv, EntryFresh
      <4>2. pc = "apply" => journal.phase = "prepared"
        BY <4>1 DEF Prepareds
      <4> QED
        BY <2>1, <2>2, <2>3, <3>1, <4>1, <4>2 DEF Leaving, Moving, Known, Unwritten
    <3> QED
      BY <3>2, <3>3, <3>4, <3>5, <3>6
  <2> QED
    BY <2>4, <2>5, <2>6, <2>7 DEF Tidy
<1>3. CASE UndoFails
  <2>1. /\ pc \in {"undo", "undoProduct", "undoClear"} /\ pc' = "up"
        /\ faults' = faults + 1 /\ faults < MaxFaults
        /\ UNCHANGED <<journal, product, discarded, surface, made>>
        /\ catalog' = IF Unapplied THEN catalog ELSE route.applied
        /\ pc = "undo" => Undone \/ Unapplied
        /\ agents' = IF pc = "undo" THEN NextDisposed ELSE agents
    BY <1>3 DEF UndoFails, Fault, Ended
  <2>2. pc \in Routing /\ pc' \notin Routing
    BY <2>1 DEF Routing
  <2>3. Alive'
    BY <1>1, <2>1, <2>2 DEF Alive
  <2>4. Numbered'
    <3>1. faults' \in 0 .. MaxFaults
      BY <1>1, <2>1, RouteAssumption
    <3> QED
      BY <1>1, <2>1, <2>2, <3>1 DEF Numbered
  <2>5. Held'
    BY <1>1, <2>1 DEF Held
  <2>6. ASSUME faults' <= 1
        PROVE  Started' /\ Leaving' /\ Moving' /\ GivingUp' /\ Marked' /\ Bound' /\ Known'
    <3>1. Leaving /\ Moving /\ GivingUp /\ Marked /\ Bound /\ Known /\ faults = 0
      BY <1>1, <2>1, <2>6 DEF Tidy
    <3>2. /\ Here(route.from) /\ catalog'.current = route.from
          /\ ~Unapplied => journal.phase # "none"
      BY <2>1, <2>2, <3>1 DEF GivingUp, Marked, Undone, Unapplied
    <3>3. agents' = agents \/ (agents' = agents \ {route.to} /\ route.from # route.to)
      BY <2>1, <2>2, <3>1 DEF NextDisposed, Marked
    <3>4. Started'
      BY <2>1, <3>2, <3>3 DEF Started
    <3>5. Bound'
      BY <2>1, <3>1, <3>2 DEF Bound
    <3>6. Known'
      <4>1. CASE pc = "undo" /\ Unapplied
        BY <2>1, <2>2, <3>1, <4>1 DEF Known, Unwritten, Unapplied
      <4>2. CASE ~(pc = "undo" /\ Unapplied)
        <5>1. /\ catalog' = route.applied /\ route.written /\ ~route.adopted
              /\ SameList(route.applied, route.previous)
          BY <2>1, <3>1, <4>2 DEF GivingUp, Undone, Unapplied
        <5>2. journal.phase = "prepared" /\ journal.previous = route.previous
          BY <1>1, <2>1, <2>2, <3>1, <5>1 DEF Held, Known
        <5> QED
          BY <2>1, <2>2, <5>1, <5>2 DEF Known, Unwritten, Routing
      <4> QED
        BY <4>1, <4>2
    <3> QED
      BY <2>2, <3>4, <3>5, <3>6, NoRouteUnderWay
  <2> QED
    BY <2>3, <2>4, <2>5, <2>6 DEF Tidy
<1>4. CASE Crash
  <2>1. /\ pc # "down" /\ pc' = "down"
        /\ UNCHANGED <<catalog, journal, product, discarded, made, faults>>
    BY <1>4 DEF Crash
  <2>2. pc' \notin Routing
    BY <2>1 DEF Routing
  <2>3. Alive' /\ Numbered'
    BY <1>1, <2>1, <2>2 DEF Alive, Numbered
  <2>4. Held'
    BY <1>1, <2>1, <2>2 DEF Held
  <2>5. Tidy'
    BY <1>1, <2>1, <2>2, NoRouteUnderWay DEF Tidy, Started, Bound, Known, Unwritten, Routing
  <2> QED
    BY <2>3, <2>4, <2>5
<1> QED
  BY <1>2, <1>3, <1>4

(* A step that changes nothing.                                            *)
LEMMA StillTidy ==
    ASSUME AgreeInv, UNCHANGED vars PROVE Alive' /\ Numbered' /\ Tidy' /\ Held'
<1> USE DEF SameList, Reopened, Live, Blank, Here, Unheld
<1>1. Alive /\ Numbered /\ Tidy /\ Held
  BY DEF AgreeInv
<1>2. UNCHANGED <<catalog, journal, product, discarded, pc, surface, agents, route, made, faults>>
  BY DEF vars, disk, memory, counts
<1>3. Alive' /\ Numbered' /\ Held'
  BY <1>1, <1>2 DEF Alive, Numbered, Held
<1>4. (Moving /\ Marked /\ Known)' <=> (Moving /\ Marked /\ Known)
  BY <1>2 DEF Moving, Marked, Known, Unwritten, SameSnapshot, JournalOK, LegalChange,
     Committed, KeepsOrigins,
              Changed, ActiveIn, Listed
<1>5. Tidy'
  BY <1>1, <1>2, <1>4 DEF Tidy, Started, Leaving, GivingUp, Bound
<1> QED
  BY <1>3, <1>5

(* A home with its first sessions, or with none, agrees.                   *)
THEOREM AgreeInit == Flags = {} /\ Init => AgreeInv
<1> SUFFICES ASSUME Flags = {}, Init PROVE AgreeInv
  OBVIOUS
<1>1. PICK n \in {0, InitialSessions} :
          catalog = [current |-> 1, revision |-> IF n = 0 THEN 0 ELSE 1,
                     life |-> [s \in Sessions |-> IF s <= n THEN "active" ELSE "absent"],
                     origins |-> [c \in Confirmations |-> None]]
  BY DEF Init
<1>2. 1 \in Sessions /\ InitialSessions \in Sessions
  BY CatalogAssumption, RouteAssumption DEF Sessions
<1>3. /\ journal = NoJournal /\ product = 1 /\ discarded = {} /\ pc = "down" /\ faults = 0
  BY DEF Init
<1>4. Live(catalog) \/ Blank
  <2>1. CASE n = 0
    BY <1>1, <1>3, <2>1 DEF Blank, Sessions
  <2>2. CASE n # 0
    BY <1>1, <1>2, <2>2 DEF Live, Sessions
  <2> QED
    BY <2>1, <2>2
<1>5. Alive /\ Numbered
  BY <1>3, <1>4, RouteAssumption DEF Alive, Numbered, Routing
<1>6. Tidy
  BY <1>1, <1>3, <1>4 DEF Tidy, Started, Leaving, Moving, GivingUp, Marked, Bound, Known,
     Routing,
                     Unwritten, Live, Blank
<1>7. Held
  BY <1>3 DEF Held, Unheld, Routing
<1> QED
  BY <1>5, <1>6, <1>7, SessionInit DEF AgreeInv

(* Every step keeps the agreement.                                         *)
THEOREM AgreeNext == AgreeInv /\ [Next]_vars => AgreeInv'
<1> SUFFICES ASSUME AgreeInv, [Next]_vars PROVE AgreeInv'
  OBVIOUS
<1>1. SessionInv'
  BY SessionNext DEF AgreeInv
<1>2. Alive' /\ Numbered' /\ Tidy' /\ Held'
  BY StartTidy, BeginTidy, RouteTidy, OtherTidy, FailureTidy, StillTidy DEF Next
<1> QED
  BY <1>1, <1>2 DEF AgreeInv

(* What is discarded is listed nowhere while no write has failed.          *)
LEMMA DiscardedUnlisted == AgreeInv => TranscriptKept
<1> SUFFICES ASSUME AgreeInv, faults = 0, NEW s \in discarded
             PROVE  s \notin Listed(catalog) /\ s \notin Listed(Recovered(catalog, journal))
  BY DEF TranscriptKept
<1>1. /\ catalog.life[s] = "absent"
      /\ journal.phase = "prepared" => journal.previous.life[s] = "absent"
      /\ journal.phase = "committed" => journal.intended.life[s] = "absent"
  BY DEF AgreeInv, Held, Unheld
<1> QED
  BY <1>1 DEF Listed, Recovered

(* Between routes the host, the catalogue and product.json are on the same *)
(* session, and an agent runs there, as long as no flag names the session  *)
(* and no second write fails; and nothing that is listed has lost its      *)
(* transcript while no write failed.                                       *)
THEOREM RoutesAgree ==
    Flags = {} => (Spec => []((faults <= 1 => RouteAgrees) /\ TranscriptKept))
<1>1. AgreeInv => (faults <= 1 => RouteAgrees)
  BY DEF AgreeInv, Tidy, Started, Here, RouteAgrees
<1> QED
  BY AgreeInit, AgreeNext, DiscardedUnlisted, <1>1, PTL DEF Spec

(* TranscriptKept: a conversation that is in the list, or that the journal *)
(* would put back there, has the transcript its routes wrote, whatever     *)
(* routes were left half way by a crash, while no write has failed.        *)
THEOREM TranscriptsStay == Flags = {} => (Spec => []TranscriptKept)
BY AgreeInit, AgreeNext, DiscardedUnlisted, PTL DEF Spec

(* The list that is shown, by where it comes from. *)
Tabled ==
    /\ Unwritten => Shown = List(catalog)
    /\ ~Unwritten /\ journal.phase = "prepared" => Shown = List(journal.previous)
    /\ ~Unwritten /\ journal.phase = "none" => Shown = List(catalog)
    /\ ~Unwritten /\ journal.phase = "committed" =>
          Shown = IF IsSuccessor(catalog, journal.intended) THEN List(catalog)
                  ELSE List(journal.intended)
    /\ ~Unwritten /\ journal.phase = "committed" /\ SameList(journal.intended, catalog) =>
          Shown = List(catalog) /\ Shown = List(journal.intended)
    /\ ~OpenRoute => Fallback = Shown
    /\ OpenRoute => Fallback = List(route.previous)

LEMMA ShownIs == Tabled /\ Tabled'
<1> USE DEF Shown, Fallback, Recovered
<1>1. Tabled
  BY DEF Tabled, List, SameList
<1>2. Tabled'
  BY DEF Tabled, List, SameList, IsSuccessor, KeepsOrigins, OpenRoute, Unwritten
<1> QED
  BY <1>1, <1>2

(* The files are as they were, and so is what is shown. *)
LEMMA FilesKept ==
    ASSUME UNCHANGED <<catalog, journal>>, Unwritten' <=> Unwritten PROVE Shown' = Shown
BY DEF Shown, Recovered, List, IsSuccessor, KeepsOrigins

(* A step of Topics, or none. *)
Simulated == Conversations!Next \/ UNCHANGED Conversations!vars

(* A list that is still shown is a stutter, a request or an answer.        *)
LEMMA Steadily ==
    ASSUME Shown' = Shown,
           Fallback' = Shown' \/ (Fallback' = Fallback /\ pc # "up" /\ pc' # "up")
    PROVE  Simulated
<1>1. pc = "up" => Fallback = Shown
  BY DEF Fallback, OpenRoute, Routing
<1>2. CASE pc # "up" /\ Fallback' = Shown'
  <2>1. Conversations!Answer
    BY <1>2 DEF Conversations!Answer
  <2> QED
    BY <2>1 DEF Simulated, Conversations!Next
<1>3. CASE pc = "up" /\ pc' # "up"
  <2>1. Conversations!Ask
    BY <1>3 DEF Conversations!Ask
  <2> QED
    BY <2>1 DEF Simulated, Conversations!Next
<1>4. CASE (pc = "up" /\ pc' = "up") \/ (Fallback' = Fallback /\ pc # "up" /\ pc' # "up")
  BY <1>1, <1>4 DEF Simulated, Conversations!vars
<1> QED
  BY <1>2, <1>3, <1>4

(* A start shows the list that the last one showed, or the one that a      *)
(* route was to make.                                                      *)
LEMMA StartSimulates ==
    ASSUME AgreeInv, AgreeInv', faults <= 1, faults' <= 1, Start PROVE Simulated
<1> USE DEF Goto, memory, counts, disk, SameList
<1>1. /\ Started /\ Bound /\ Known /\ Started' /\ Bound' /\ Known' /\ Alive
      /\ Alive' /\ catalog \in Catalogs /\ Numbered
      /\ Flags = {}
  BY DEF AgreeInv, Tidy, SessionInv, FilesTyped
<1>2. pc \notin Routing /\ pc' \notin Routing /\ pc # "up"
  BY DEF Start, RollBack, ClearPrepared, RollForward, Migrate, Resolve, StartAgent,
         RecoverProduct, RecoverUnlink, RecoverClear, Routing
<1>3. Tabled /\ Tabled' /\ Fallback = Shown /\ Fallback' = Shown'
  BY <1>2, ShownIs DEF Fallback, OpenRoute
<1> SUFFICES (\A s \in Sessions : ~Migrate(s)) => Shown' = Shown
  <2> SUFFICES ASSUME NEW s \in Sessions, Migrate(s) PROVE Simulated
    BY <1>3, Steadily
  <2>1. /\ pc = "down" /\ pc' = "down" /\ journal.phase = "none" /\ s = product
        /\ catalog.life[s] = "absent" /\ journal' = journal
    BY <1>1 DEF Migrate, Requested, Listed
  <2>2. Blank
    BY <1>1, <2>1 DEF Bound, Alive, Live
  <2>3. catalog' = Rewritten(catalog, s, s, "active")
    BY <2>2 DEF Migrate, Listed, Blank
  <2>4. /\ catalog'.current = s /\ catalog'.life[s] = "active"
        /\ \A t \in Sessions : t # s => catalog'.life[t] = catalog.life[t]
    BY <1>1, <2>3, MadeActive
  <2>5. Shown = List(catalog) /\ Shown' = List(catalog')
    BY <1>3, <2>1 DEF Tabled, Unwritten, List
  <2>6. Conversations!Differ(Shown, Shown') \subseteq {s}
    BY <2>4, <2>5 DEF Conversations!Differ, List
  <2>7. Conversations!RouteChange(Shown, Shown')
    <3>1. /\ Shown.life = catalog.life /\ Shown'.life = catalog'.life
          /\ Shown'.current = s
      BY <2>4, <2>5 DEF List
    <3>2. \A t \in Conversations!Differ(Shown, Shown') : Shown.life[t] = "absent"
      BY <2>1, <2>6, <3>1
    <3>3. Shown'.life[Shown'.current] = "active"
      BY <2>4, <3>1
    <3> QED
      BY <2>6, <3>2, <3>3 DEF Conversations!RouteChange
  <2>8. Conversations!Change
    BY <1>2, <1>3, <2>1, <2>7 DEF Conversations!Change
  <2> QED
    BY <2>8 DEF Simulated, Conversations!Next
<1> SUFFICES ASSUME \A s \in Sessions : ~Migrate(s) PROVE Shown' = Shown
  OBVIOUS
<1>4. CASE RollBack
  <2>1. /\ pc = "down" /\ pc' = "rolledBack" /\ journal.phase = "prepared" /\ journal' = journal
    BY <1>4 DEF RollBack
  <2>2. Shown = List(journal.previous) /\ Shown' = List(journal'.previous)
    BY <1>3, <2>1 DEF Tabled, Unwritten, List
  <2> QED
    BY <2>1, <2>2
<1>5. CASE ClearPrepared
  <2>1. /\ pc = "rolledBack" /\ pc' = "start" /\ journal' = NoJournal /\ catalog' = catalog
        /\ journal.phase = "prepared" /\ catalog = journal.previous
    BY <1>1, <1>5 DEF ClearPrepared, Started
  <2>2. Shown = List(journal.previous) /\ Shown' = List(catalog')
    BY <1>3, <2>1 DEF Tabled, Unwritten, List
  <2> QED
    BY <2>1, <2>2
<1>6. CASE RollForward
  <2>1. /\ pc = "down" /\ pc' = "start" /\ journal.phase = "committed" /\ journal' = journal
        /\ catalog' = Recovered(catalog, journal)
    BY <1>6 DEF RollForward
  <2>2. Shown = List(Recovered(catalog, journal))
    BY <2>1 DEF Shown, Unwritten
  <2>3. SameList(journal.intended, catalog)'
    BY <1>1, <2>1 DEF Known
  <2>4. Shown' = List(catalog')
    BY <1>3, <2>1, <2>3 DEF Tabled, Unwritten, List
  <2> QED
    BY <2>1, <2>2, <2>4
<1>7. ASSUME NEW s \in Sessions, Resolve(s) PROVE Shown' = Shown
  <2>1. /\ pc = "down" /\ pc' = "start" /\ journal.phase = "none" /\ s = product
        /\ journal' = journal /\ catalog.life[s] = "active"
        /\ catalog' = IF catalog.current = s THEN catalog ELSE Rewritten(catalog, s, s, "active")
    BY <1>1, <1>7 DEF Resolve, Requested, ActiveIn
  <2>2. catalog.current = s
    BY <1>1, <2>1 DEF Bound, Blank
  <2> QED
    BY <2>1, <2>2, FilesKept DEF Unwritten
<1>8. CASE StartAgent
  <2>1. /\ pc = "start" /\ UNCHANGED <<catalog, journal>>
        /\ pc' = IF journal.phase = "committed" THEN "recoverProduct" ELSE "up"
        /\ journal.phase # "prepared"
    BY <1>1, <1>8 DEF StartAgent, Numbered
  <2>2. CASE journal.phase = "committed"
    BY <2>1, <2>2, FilesKept DEF Unwritten
  <2>3. CASE journal.phase # "committed"
    <3>1. journal.phase = "none"
      BY <2>1, <2>3 DEF AgreeInv, SessionInv, FilesTyped, Prepareds, Committeds
    <3>2. Shown = List(catalog) /\ Shown' = List(catalog')
      BY <1>3, <2>1, <2>3, <3>1 DEF Tabled, Unwritten, List
    <3> QED
      BY <2>1, <3>2
  <2> QED
    BY <2>2, <2>3
<1>9. CASE RecoverProduct \/ RecoverUnlink
  BY <1>9, FilesKept DEF RecoverProduct, RecoverUnlink, Unwritten
<1>10. CASE RecoverClear
  <2>1. /\ pc = "recoverClear" /\ pc' = "up" /\ journal.phase = "committed" /\ catalog' = catalog
    BY <1>1, <1>10 DEF RecoverClear, Numbered
  <2>2. SameList(journal.intended, catalog)
    BY <1>1, <2>1 DEF Known
  <2>3. Shown = List(catalog) /\ Shown' = List(catalog')
    BY <1>3, <2>1, <2>2 DEF Tabled, Unwritten, List
  <2> QED
    BY <2>1, <2>3
<1> QED
  BY <1>4, <1>5, <1>6, <1>7, <1>8, <1>9, <1>10 DEF Start

(* A request is taken up. *)
LEMMA BeginSimulates ==
    ASSUME AgreeInv, Begin PROVE Simulated
<1>1. /\ pc = "up" /\ pc' \in {"open", "journal"} /\ UNCHANGED <<catalog, journal>>
      /\ route'.written = FALSE
  BY DEF Begin, Create, Switch, Retire, Began, Goto, disk
<1>2. Shown' = Shown
  BY <1>1, FilesKept DEF Unwritten
<1>3. Fallback' = Shown'
  BY <1>1 DEF Fallback, OpenRoute
<1> QED
  BY <1>2, <1>3, Steadily

(* The steps of a route that leave the list as it was. *)
LEMMA RouteSimulates ==
    ASSUME AgreeInv, AgreeInv', faults <= 1, faults' <= 1, Route PROVE Simulated
<1> USE DEF Goto, memory, counts, disk, SameList
<1>1. /\ Leaving /\ Moving /\ GivingUp /\ Marked /\ Known /\ Known' /\ Numbered /\ Numbered'
      /\ Leaving' /\ Moving' /\ GivingUp'
      /\ Tabled /\ Tabled' /\ catalog \in Catalogs
      /\ journal \in {[phase |-> "none"]} \cup Prepareds \cup Committeds
  BY ShownIs DEF AgreeInv, Tidy, SessionInv, FilesTyped
<1>2. pc \in Routing /\ pc # "up" /\ route \in Routes
  BY DEF Route, Open, OpenFails, Journal, Apply, ApplyRefused, Commit, Persist, Adopt, Dispose,
         Unlink, Clear, Undo, UndoProduct, UndoClear, Routing, AgreeInv, SessionInv, RouteSound
<1>3. CASE Open \/ OpenFails
  <2>1. pc = "open" /\ pc' \in {"journal", "undo"} /\ UNCHANGED <<catalog, journal>>
        /\ ~route.written /\ route'.written = route.written
    BY <1>1, <1>2, <1>3 DEF Open, OpenFails, Leaving, Routes
  <2>2. Shown' = Shown
    BY <2>1, FilesKept DEF Unwritten
  <2>3. Fallback' = Shown'
    BY <2>1 DEF Fallback, OpenRoute
  <2> QED
    BY <2>2, <2>3, Steadily
<1>4. CASE Journal
  <2>1. /\ pc = "journal" /\ ~route.written /\ route'.written = route.written
        /\ catalog' = catalog /\ pc' \in {"apply", "undo"}
        /\ pc' = "apply" => journal'.phase = "prepared" /\ journal'.previous = catalog
    BY <1>1, <1>2, <1>4 DEF Journal, Leaving, Routes, Entry, Prepared
  <2>2. Shown = List(catalog) /\ Shown' = List(catalog')
    BY <1>1, <2>1 DEF Tabled, Unwritten, List
  <2>3. Fallback' = Shown'
    BY <2>1 DEF Fallback, OpenRoute
  <2> QED
    BY <2>1, <2>2, <2>3, Steadily
<1>5. CASE Apply
  <2>1. /\ pc = "apply" /\ pc' = "commit" /\ journal' = journal /\ journal \in Prepareds
    BY <1>5 DEF Apply, AgreeInv, SessionInv, EntryFresh
  <2>2. journal.phase = "prepared"
    BY <2>1 DEF Prepareds
  <2>3. Shown = List(journal.previous) /\ Shown' = List(journal'.previous)
    BY <1>1, <2>1, <2>2 DEF Tabled, Unwritten, List
  <2>4. Fallback' = Shown'
    BY <2>1 DEF Fallback, OpenRoute
  <2> QED
    BY <2>1, <2>3, <2>4, Steadily
<1>6. CASE ApplyRefused
  <2>1. /\ pc = "apply" /\ pc' = "undo" /\ UNCHANGED <<catalog, journal, route>>
        /\ journal \in Prepareds /\ catalog = journal.previous /\ ~route.written
    BY <1>1, <1>6 DEF ApplyRefused, AgreeInv, SessionInv, EntryFresh, Leaving
  <2>2. journal.phase = "prepared"
    BY <2>1 DEF Prepareds
  <2>3. Shown = List(journal.previous) /\ Shown' = List(catalog')
    BY <1>1, <2>1, <2>2 DEF Tabled, Unwritten, List
  <2>4. Fallback' = Shown'
    BY <2>1 DEF Fallback, OpenRoute
  <2> QED
    BY <2>1, <2>3, <2>4, Steadily
<1>7. CASE Persist \/ Adopt
  <2>1. /\ pc \in {"persist", "adopt"} /\ pc' \in {"adopt", "dispose"}
        /\ UNCHANGED <<catalog, journal, route>>
    BY <1>7 DEF Persist, Adopt
  <2>2. Shown' = Shown
    BY <2>1, FilesKept DEF Unwritten
  <2>3. route.written /\ ~route.adopted
    BY <1>1, <2>1 DEF Leaving, Moving
  <2>4. Fallback' = Fallback
    BY <2>1, <2>3 DEF Fallback, OpenRoute, Routing, List
  <2> QED
    BY <2>1, <2>2, <2>4, Steadily
<1>8. CASE Dispose
  <2>1. /\ pc = "dispose" /\ pc' \in {"unlink", "undo"} /\ UNCHANGED <<catalog, journal>>
        /\ route'.adopted = TRUE /\ route'.written = route.written /\ route.written
    BY <1>1, <1>2, <1>8 DEF Dispose, Routes, Moving
  <2>2. Shown' = Shown
    BY <2>1, FilesKept DEF Unwritten
  <2>3. Fallback' = Shown'
    BY <2>1 DEF Fallback, OpenRoute
  <2> QED
    BY <2>2, <2>3, Steadily
<1>9. CASE Unlink
  <2>1. pc = "unlink" /\ pc' = "unlink" /\ UNCHANGED <<catalog, journal, route>>
    BY <1>9 DEF Unlink
  <2>2. Shown' = Shown
    BY <2>1, FilesKept DEF Unwritten
  <2>3. Fallback' = Fallback
    BY <2>1, <2>2 DEF Fallback, OpenRoute, List
  <2> QED
    BY <2>1, <2>2, <2>3, Steadily
<1>10. CASE Clear
  <2>1. /\ pc = "unlink" /\ pc' = "up" /\ catalog' = catalog /\ journal.phase = "committed"
        /\ SameList(journal.intended, catalog)
    BY <1>1, <1>2, <1>10 DEF Clear, Ended, Numbered, Known, Marked, Moving, SameSnapshot
  <2>2. Shown = List(catalog) /\ Shown' = List(catalog')
    BY <1>1, <2>1 DEF Tabled, Unwritten, List
  <2>3. Fallback' = Shown'
    BY <2>1 DEF Fallback, OpenRoute, Routing
  <2> QED
    BY <2>1, <2>2, <2>3, Steadily
<1>11. CASE Undo /\ Undone
  <2>1. /\ pc = "undo" /\ pc' = "undoProduct" /\ catalog' = route.previous
        /\ UNCHANGED <<journal, route>> /\ route.written /\ ~route.adopted
        /\ journal.phase # "none" /\ journal.previous = route.previous
        /\ SameSnapshot(catalog, route.applied)
    BY <1>1, <1>2, <1>11 DEF Undo, Undone, Marked, Known
  <2>2. CASE journal.phase = "prepared"
    <3>1. Shown = List(journal.previous) /\ Shown' = List(journal'.previous)
      BY <1>1, <2>1, <2>2 DEF Tabled, Unwritten, List
    <3>2. Fallback' = Fallback
      BY <2>1 DEF Fallback, OpenRoute, Routing, List
    <3> QED
      BY <2>1, <3>1, <3>2, Steadily
  <2>3. CASE journal.phase = "committed"
    <3>1. journal.intended = route.applied /\ SameList(journal.intended, catalog)
      BY <1>1, <1>2, <2>1, <2>3 DEF Known, SameSnapshot
    <3>2. journal \in Committeds /\ JournalOK(journal)
      BY <1>1, <2>3 DEF Prepareds, AgreeInv, SessionInv, StartReadable
    <3>3. ~(catalog'.revision >= journal.intended.revision)
      BY <2>1, <3>2 DEF JournalOK, Committeds, Catalogs
    <3>4. ~IsSuccessor(catalog', journal'.intended)
      BY <2>1, <3>3 DEF IsSuccessor
    <3>5. Shown = List(journal.intended)
      BY <1>1, <2>1, <2>3, <3>1 DEF Tabled, Unwritten
    <3>6. Shown' = List(journal'.intended)
      BY <2>1, <2>3, <3>4 DEF Shown, Unwritten, Recovered, IsSuccessor, KeepsOrigins, List
    <3>7. Fallback' = Fallback
      BY <2>1 DEF Fallback, OpenRoute, Routing, List
    <3> QED
      BY <2>1, <3>5, <3>6, <3>7, Steadily
  <2> QED
    BY <1>1, <2>1, <2>2, <2>3 DEF Prepareds, Committeds
<1>12. CASE Undo /\ ~Undone
  <2>1. /\ pc = "undo" /\ pc' = "up" /\ catalog' = catalog
        /\ (route.adopted \/ ~route.written \/ ~SameSnapshot(catalog, route.applied))
    BY <1>12 DEF Undo, Undone, Ended
  <2>2. Shown = List(catalog)
    <3>1. CASE ~route.written
      BY <1>1, <2>1, <3>1 DEF Tabled, Unwritten
    <3>2. CASE route.written
      <4>1. route.adopted /\ journal.phase = "committed"
        BY <1>1, <1>2, <2>1, <3>2 DEF GivingUp, Marked
      <4>2. SameList(journal.intended, catalog)
        BY <1>1, <1>2, <2>1, <3>2, <4>1 DEF Marked, Known, SameSnapshot
      <4> QED
        BY <1>1, <2>1, <3>2, <4>1, <4>2 DEF Tabled, Unwritten
    <3> QED
      BY <3>1, <3>2
  <2>3. Shown' = List(catalog') /\ Fallback' = Shown'
    BY <1>1, <2>1 DEF Tabled, Unwritten, List, Fallback, OpenRoute, Routing
  <2> QED
    BY <2>1, <2>2, <2>3, Steadily
<1>13. CASE UndoProduct
  <2>1. /\ pc = "undoProduct" /\ pc' = "undoClear" /\ UNCHANGED <<catalog, journal, route>>
    BY <1>13 DEF UndoProduct
  <2>2. Shown' = Shown
    BY <2>1, FilesKept DEF Unwritten
  <2>3. Fallback' = Fallback
    BY <2>1, <2>2 DEF Fallback, OpenRoute, List, Routing
  <2> QED
    BY <2>1, <2>2, <2>3, Steadily
<1>14. CASE UndoClear
  <2>1. /\ pc = "undoClear" /\ pc' = "up" /\ catalog' = catalog /\ catalog = route.previous
        /\ OpenRoute
    BY <1>1, <1>14 DEF UndoClear, Ended, GivingUp, OpenRoute, Routing
  <2>2. Fallback = List(route.previous) /\ Shown' = List(catalog') /\ Fallback' = Shown'
    BY <1>1, <2>1 DEF Tabled, Unwritten, List, Fallback, OpenRoute, Routing
  <2>3. Conversations!TakeBack
    BY <1>2, <2>1, <2>2 DEF Conversations!TakeBack
  <2> QED
    BY <2>3 DEF Simulated, Conversations!Next
<1>15. CASE Commit
  <2>1. /\ pc = "commit" /\ UNCHANGED <<catalog, route>>
        /\ catalog = route.applied /\ route.written /\ ~route.adopted
        /\ journal \in Prepareds /\ JournalOK(journal) /\ journal.previous = route.previous
    BY <1>1, <1>2, <1>15
    DEF Commit, Moving, Leaving, Known, AgreeInv, SessionInv, EntryFresh, StartReadable, Prepareds
  <2>2. journal.phase = "prepared" /\ journal.op \in Ops
    BY <2>1 DEF Prepareds
  <2>3. Shown = List(journal.previous)
    BY <1>1, <2>1, <2>2 DEF Tabled, Unwritten
  <2> DEFINE entry == Committed(journal, route.applied)
  <2>4. CASE ~JournalOK(entry)
    <3>1. pc' = "undo" /\ journal' = journal
      BY <1>15, <2>4 DEF Commit
    <3>2. Shown' = List(journal'.previous) /\ Fallback' = List(route'.previous)
      BY <1>1, <2>1, <2>2, <3>1 DEF Tabled, Unwritten, List, Fallback, OpenRoute, Routing
    <3> QED
      BY <2>1, <2>3, <3>1, <3>2, Steadily
  <2>5. CASE JournalOK(entry)
    <3>1. journal' = entry /\ pc' \in {"persist", "unlink"}
      BY <1>15, <2>5 DEF Commit
    <3>2. /\ entry.phase = "committed" /\ entry.previous = journal.previous
          /\ entry.op = journal.op /\ entry.to = journal.to
          /\ entry.unlink = journal.unlink /\ entry.intended = catalog
      BY <2>1 DEF Committed
    <3>3. Shown' = List(catalog')
      <4>1. SameList(journal'.intended, catalog')
        BY <2>1, <3>1, <3>2
      <4> QED
        BY <1>1, <3>1, <3>2, <4>1 DEF Tabled, Unwritten, List
    <3>4. Fallback' = Shown
      BY <2>1, <2>3, <3>1 DEF Fallback, OpenRoute, Routing, List
    <3>5. Conversations!RouteChange(Shown, Shown')
      <4>1. PICK was : was = journal.previous
        OBVIOUS
      <4>2. Shown.life = was.life /\ Shown'.life = catalog.life /\ Shown'.current = catalog.current
        BY <2>1, <2>3, <3>3, <4>1 DEF List
      <4>3. Conversations!Differ(Shown, Shown') = Changed(was, catalog)
        BY <4>2 DEF Conversations!Differ, Changed
      <4>4. LegalChange(entry) /\ catalog.life[catalog.current] = "active"
            /\ (journal.op = "create" => journal.to \in Sessions /\ was.life[journal.to] = "absent")
        BY <2>1, <2>5, <3>2, <4>1 DEF JournalOK, ActiveIn, Listed, Prepareds
      <4>5. \E s \in Sessions : Changed(was, catalog) \subseteq {s}
        <5>1. CASE journal.op = "switch"
          BY <3>2, <4>1, <4>4, <5>1, CatalogAssumption DEF LegalChange, Sessions
        <5>2. CASE journal.op = "archive"
          BY <3>2, <4>1, <4>4, <5>2 DEF LegalChange, Listed
        <5>3. CASE journal.op = "delete"
          <6>1. journal.unlink \subseteq {route.id} /\ route.id \in Sessions
            BY <1>1, <1>2, <2>1 DEF Numbered, Routes
          <6> QED
            BY <3>2, <4>1, <4>4, <5>3, <6>1 DEF LegalChange
        <5>4. CASE journal.op = "create"
          BY <3>2, <4>1, <4>4, <5>4 DEF LegalChange
        <5> QED
          BY <2>2, <5>1, <5>2, <5>3, <5>4 DEF Ops
      <4>6. \A s \in Changed(was, catalog) : was.life[s] = "absent" \/ catalog.life[s] # "active"
        <5>1. CASE journal.op = "switch"
          BY <3>2, <4>1, <4>4, <5>1 DEF LegalChange
        <5>2. CASE journal.op = "archive"
          BY <3>2, <4>1, <4>4, <5>2 DEF LegalChange
        <5>3. CASE journal.op = "delete"
          BY <3>2, <4>1, <4>4, <5>3 DEF LegalChange, Listed, Changed
        <5>4. CASE journal.op = "create"
          BY <3>2, <4>1, <4>4, <5>4 DEF LegalChange
        <5> QED
          BY <2>2, <5>1, <5>2, <5>3, <5>4 DEF Ops
      <4> QED
        BY <4>2, <4>3, <4>4, <4>5, <4>6 DEF Conversations!RouteChange
    <3>6. Conversations!Change
      BY <1>2, <3>1, <3>4, <3>5 DEF Conversations!Change
    <3> QED
      BY <3>6 DEF Simulated, Conversations!Next
  <2> QED
    BY <2>4, <2>5
<1> QED
  BY <1>3, <1>4, <1>5, <1>6, <1>7, <1>8, <1>9, <1>10, <1>11, <1>12, <1>13, <1>14, <1>15
  DEF Route

(* What happens between and during routes. *)
LEMMA OtherSimulates ==
    ASSUME AgreeInv, AgreeInv', faults <= 1, faults' <= 1, Other PROVE Simulated
<1> USE DEF Goto, memory, counts, SameList
<1>1. /\ GivingUp /\ Moving /\ Marked /\ Known /\ Numbered /\ Tabled /\ Tabled'
      /\ catalog \in Catalogs
  BY ShownIs DEF AgreeInv, Tidy, SessionInv, FilesTyped
<1>2. UNCHANGED <<journal, pc, route>>
  BY DEF Other, Annotate, Restore, NoteOrigin
<1>3. Shown' = Shown => Simulated
  <2> SUFFICES ASSUME Shown' = Shown PROVE Simulated
    OBVIOUS
  <2>1. Fallback' = Fallback
    BY <1>2 DEF Fallback, OpenRoute, List
  <2>2. pc = "up" => Fallback = Shown
    BY DEF Fallback, OpenRoute, Routing
  <2> QED
    BY <1>2, <2>1, <2>2, Steadily
<1>4. CASE Annotate
  <2>1. List(catalog') = List(catalog) /\ SameList(catalog, catalog')
    BY <1>1, <1>4 DEF Annotate, Annotated, List, Catalogs
  <2>2. CASE pc = "up"
    BY <1>1, <1>2, <1>3, <2>1, <2>2 DEF Tabled, Unwritten, List
  <2>3. CASE pc = "recoverUnlink"
    <3>1. journal.phase = "committed" /\ SameList(journal.intended, catalog)
      BY <1>1, <2>3 DEF Numbered, Known
    <3>2. SameList(journal'.intended, catalog')
      BY <1>2, <2>1, <3>1
    <3>3. Shown = List(journal.intended) /\ Shown' = List(journal'.intended)
      BY <1>1, <1>2, <2>3, <3>1, <3>2 DEF Tabled, Unwritten, List
    <3> QED
      BY <1>2, <1>3, <3>3
  <2> QED
    BY <1>4, <2>2, <2>3 DEF Annotate
<1>5. ASSUME NEW s \in Sessions, Restore(s) PROVE Simulated
  <2>1. /\ pc = "up" /\ catalog.life[s] \in {"active", "archived"}
        /\ catalog' = Rewritten(catalog, catalog.current, s, "active")
    BY <1>1, <1>5 DEF Restore, Listed, Catalogs, Lifecycles
  <2>2. /\ catalog'.current = catalog.current
        /\ \A t \in Sessions : catalog'.life[t] # catalog.life[t] =>
              catalog.life[t] = "archived" /\ catalog'.life[t] = "active"
    <3>1. PICK current \in Sessions : current = catalog.current
      BY <1>1 DEF Catalogs
    <3>2. /\ Rewritten(catalog, current, s, "active").current = current
          /\ Rewritten(catalog, current, s, "active").life[s] = "active"
          /\ \A t \in Sessions : t # s =>
                Rewritten(catalog, current, s, "active").life[t] = catalog.life[t]
      BY <1>1, MadeActive
    <3> QED
      BY <2>1, <3>1, <3>2
  <2>3. Shown = List(catalog) /\ Shown' = List(catalog') /\ Fallback' = Shown'
    BY <1>1, <1>2, <2>1 DEF Tabled, Unwritten, List, Fallback, OpenRoute, Routing
  <2>4. Conversations!Unarchived(Shown, Shown')
    BY <2>2, <2>3 DEF Conversations!Unarchived, Conversations!Differ, List
  <2>5. Conversations!Restore
    BY <1>2, <2>1, <2>3, <2>4 DEF Conversations!Restore
  <2> QED
    BY <2>5 DEF Simulated, Conversations!Next
<1>6. ASSUME NEW c \in Confirmations, NoteOrigin(c) PROVE Simulated
  <2>1. SameList(catalog, catalog') /\ List(catalog') = List(catalog) /\ Waiting
    BY <1>1, <1>6 DEF NoteOrigin, Noted, Catalogs, List
  <2>2. CASE Unwritten
    <3>1. Shown = List(catalog) /\ Shown' = List(catalog')
      BY <1>1, <1>2, <2>2 DEF Tabled, Unwritten, List
    <3> QED
      BY <1>3, <2>1, <3>1
  <2>3. CASE ~Unwritten /\ journal.phase = "prepared"
    <3>1. Shown = List(journal.previous) /\ Shown' = List(journal'.previous)
      BY <1>1, <1>2, <2>3 DEF Tabled, Unwritten, List
    <3> QED
      BY <1>2, <1>3, <3>1
  <2>4. CASE ~Unwritten /\ journal.phase # "prepared"
    <3>1. pc \in {"persist", "adopt", "dispose", "unlink", "undo"} /\ route.written
      BY <1>1, <2>1, <2>4 DEF Waiting, Unwritten, Moving
    <3>2. pc \in Routing
      BY <3>1 DEF Routing
    <3>3. journal.phase = "committed"
      BY <1>1, <2>4, <3>1, <3>2 DEF Marked, AgreeInv, SessionInv, FilesTyped, Prepareds,
         Committeds
    <3>4. SameList(journal.intended, catalog)
      BY <1>1, <3>1, <3>2, <3>3 DEF Known, Marked, SameSnapshot
    <3>5. SameList(journal'.intended, catalog')
      BY <1>2, <2>1, <3>4
    <3>6. Shown = List(journal.intended) /\ Shown' = List(journal'.intended)
      BY <1>1, <1>2, <2>4, <3>3, <3>4, <3>5 DEF Tabled, Unwritten, List
    <3> QED
      BY <1>2, <1>3, <3>6
  <2> QED
    BY <2>2, <2>3, <2>4
<1> QED
  BY <1>4, <1>5, <1>6 DEF Other

(* A failing write, and the end of the process. *)
LEMMA FailureSimulates ==
    ASSUME AgreeInv, AgreeInv', faults <= 1, faults' <= 1, WriteFails \/ UndoFails \/ Crash
    PROVE  Simulated
<1> USE DEF Goto, disk, memory, counts, SameList
<1>1. /\ Leaving /\ GivingUp /\ Moving /\ Marked /\ Known /\ Numbered /\ Tabled /\ Tabled' /\ Held
      /\ catalog \in Catalogs /\ faults \in Nat
      /\ journal \in {[phase |-> "none"]} \cup Prepareds \cup Committeds
  BY ShownIs, RouteAssumption DEF AgreeInv, Tidy, SessionInv, FilesTyped, Numbered
<1>2. CASE WriteFails
  <2>1. /\ pc \in {"journal", "apply", "commit", "persist", "unlink"} /\ pc' = "undo"
        /\ UNCHANGED <<catalog, journal>>
    BY <1>2 DEF WriteFails
  <2>2. pc \in Routing /\ route \in Routes
    BY <2>1 DEF AgreeInv, SessionInv, RouteSound, Routing
  <2>3. /\ route'.written = route.written /\ route'.adopted = route.adopted
        /\ pc # "journal" => route'.previous = route.previous
    BY <1>2, <2>2 DEF WriteFails, Routes
  <2>4. CASE ~route.written
    <3>1. pc \in {"journal", "apply"}
      BY <1>1, <2>1, <2>4 DEF Moving
    <3>2. Shown = List(catalog)
      <4>1. CASE pc = "journal"
        BY <1>1, <4>1 DEF Tabled, Unwritten
      <4>2. CASE pc = "apply"
        <5>1. journal \in Prepareds /\ catalog = journal.previous
          BY <4>2 DEF AgreeInv, SessionInv, EntryFresh
        <5>2. journal.phase = "prepared"
          BY <5>1 DEF Prepareds
        <5> QED
          BY <1>1, <4>2, <5>1, <5>2 DEF Tabled, Unwritten
      <4> QED
        BY <3>1, <4>1, <4>2
    <3>3. Shown' = List(catalog') /\ Fallback' = Shown'
      BY <1>1, <2>1, <2>3, <2>4 DEF Tabled, Unwritten, List, Fallback, OpenRoute
    <3> QED
      BY <2>1, <3>2, <3>3, Steadily
  <2>5. CASE route.written
    <3>1. pc \in {"commit", "persist", "unlink"}
      BY <1>1, <2>1, <2>5 DEF Leaving
    <3>2. Shown' = Shown
      BY <2>1, <2>3, <2>5, <3>1, FilesKept DEF Unwritten
    <3>3. CASE pc = "commit"
      <4>1. /\ journal \in Prepareds /\ journal.previous = route.previous /\ ~route.adopted
        BY <1>1, <2>2, <2>5, <3>3 DEF AgreeInv, SessionInv, EntryFresh, Known, Leaving
      <4>2. journal.phase = "prepared"
        BY <4>1 DEF Prepareds
      <4>3. Shown = List(route.previous)
        BY <1>1, <3>3, <4>1, <4>2 DEF Tabled, Unwritten
      <4>4. Fallback' = List(route.previous)
        BY <2>1, <2>3, <2>5, <3>3, <4>1 DEF Fallback, OpenRoute, Routing, List
      <4> QED
        BY <3>2, <4>3, <4>4, Steadily
    <3>4. CASE pc # "commit"
      <4>1. Fallback' = Fallback
        BY <2>1, <2>2, <2>3, <2>5, <3>1, <3>2, <3>4 DEF Fallback, OpenRoute, Routing, List
      <4> QED
        BY <2>1, <3>2, <4>1, Steadily
    <3> QED
      BY <3>3, <3>4
  <2> QED
    BY <2>4, <2>5
<1>3. CASE UndoFails
  <2>1. /\ pc \in {"undo", "undoProduct", "undoClear"} /\ pc' = "up"
        /\ journal' = journal /\ faults' = faults + 1
        /\ catalog' = IF Unapplied THEN catalog ELSE route.applied
        /\ pc = "undo" => Undone \/ Unapplied
    BY <1>3 DEF UndoFails, Fault, Ended
  <2>2. faults = 0 /\ pc \in Routing
    BY <1>1, <2>1 DEF Routing
  <2>3. Shown' = List(catalog') /\ Fallback' = Shown'
    BY <1>1, <2>1 DEF Tabled, Unwritten, List, Fallback, OpenRoute, Routing
  <2>4. CASE pc = "undo" /\ Unapplied
    <3>1. Shown = List(catalog) /\ catalog' = catalog
      BY <1>1, <2>1, <2>4 DEF Tabled, Unwritten, Unapplied
    <3> QED
      BY <2>1, <2>3, <3>1, Steadily
  <2>5. CASE ~(pc = "undo" /\ Unapplied)
    <3>1. /\ catalog' = route.applied /\ route.written /\ ~route.adopted
          /\ SameList(route.applied, route.previous)
      BY <1>1, <2>1, <2>2, <2>5 DEF GivingUp, Undone, Unapplied
    <3>2. journal.phase = "prepared" /\ journal.previous = route.previous
      BY <1>1, <2>1, <2>2, <3>1 DEF Held, Known
    <3>3. Shown = List(route.previous)
      BY <1>1, <2>1, <3>1, <3>2 DEF Tabled, Unwritten
    <3>4. List(route.previous) = List(catalog')
      BY <3>1 DEF List
    <3> QED
      BY <2>1, <2>3, <3>3, <3>4, Steadily
  <2> QED
    BY <2>4, <2>5
<1>4. CASE Crash
  <2>1. pc # "down" /\ pc' = "down" /\ UNCHANGED <<catalog, journal>>
    BY <1>4 DEF Crash
  <2>2. Fallback' = Shown'
    BY <2>1 DEF Fallback, OpenRoute, Routing
  <2>3. CASE ~Unwritten
    BY <2>1, <2>2, <2>3, FilesKept, Steadily DEF Unwritten
  <2>4. CASE Unwritten
    <3>1. Shown = List(catalog)
      BY <1>1, <2>4 DEF Tabled
    <3>2. CASE Shown' = Shown
      BY <2>2, <3>2, Steadily
    <3>3. CASE Shown' # Shown
      <4>1. PICK old : Shown' = List(old) /\ Reopened(old, catalog)
        <5>1. CASE journal.phase = "prepared"
          <6>1. Shown' = List(journal'.previous)
            BY <1>1, <2>1, <5>1 DEF Tabled, Unwritten, List
          <6> QED
            BY <1>1, <2>1, <2>4, <5>1, <6>1 DEF Known
        <5>2. CASE journal.phase = "committed"
          <6>1. Shown' = List(journal'.intended) \/ Shown' = List(catalog')
            BY <1>1, <2>1, <5>2 DEF Tabled, Unwritten, List
          <6>2. List(catalog') = List(catalog)
            BY <2>1
          <6> QED
            BY <1>1, <2>1, <2>4, <3>1, <3>3, <5>2, <6>1, <6>2 DEF Known
        <5>3. CASE journal.phase = "none"
          <6>1. Shown' = List(catalog')
            BY <1>1, <2>1, <5>3 DEF Tabled, Unwritten, List
          <6> QED
            BY <2>1, <3>1, <3>3, <6>1
        <5> QED
          BY <1>1, <5>1, <5>2, <5>3 DEF Prepareds, Committeds
      <4>2. Conversations!Unarchived(Shown', Shown)
        BY <3>1, <4>1 DEF Conversations!Unarchived, Conversations!Differ, List, Reopened
      <4>3. Conversations!Forget
        BY <2>1, <2>2, <4>2 DEF Conversations!Forget
      <4> QED
        BY <4>3 DEF Simulated, Conversations!Next
    <3> QED
      BY <3>2, <3>3
  <2> QED
    BY <2>3, <2>4
<1> QED
  BY <1>2, <1>3, <1>4

(* Every change of the list is whole or absent, and a failed route or a    *)
(* restart makes none of its own, as long as one write fails at most and   *)
(* no flag names the session.                                              *)
THEOREM AllOrNothingHolds == Flags = {} /\ MaxFaults <= 1 => (Spec => AllOrNothing)
<1> DEFINE Once == AgreeInv /\ MaxFaults <= 1
<1>1. Flags = {} /\ MaxFaults <= 1 /\ Init => Once
  BY AgreeInit
<1>2. Once /\ [Next]_vars => Once'
  BY AgreeNext
<1>3. Once /\ Init => Conversations!Init
  <2> SUFFICES ASSUME Once, Init PROVE Conversations!Init
    OBVIOUS
  <2>1. pc = "down" /\ journal.phase = "none" /\ Alive
    BY DEF Init, AgreeInv
  <2>2. Shown = List(catalog) /\ Fallback = Shown
    BY <2>1, ShownIs DEF Tabled, Unwritten, OpenRoute, Routing
  <2>3. /\ \/ Shown.life[Shown.current] = "active"
           \/ \A s \in Sessions : Shown.life[s] = "absent"
    BY <2>1, <2>2 DEF Alive, Live, Blank, List
  <2> QED
    BY <2>2, <2>3 DEF Conversations!Init
<1>4. Once /\ Once' /\ [Next]_vars => [Conversations!Next]_(Conversations!vars)
  <2> SUFFICES ASSUME Once, Once', [Next]_vars PROVE Simulated
    BY DEF Simulated
  <2>1. faults <= 1 /\ faults' <= 1
    BY RouteAssumption DEF AgreeInv, Numbered
  <2>2. CASE Next
    BY <2>1, <2>2, StartSimulates, BeginSimulates, RouteSimulates, OtherSimulates,
       FailureSimulates
    DEF Next
  <2>3. CASE UNCHANGED vars
    <3>1. UNCHANGED <<catalog, journal, pc, route>>
      BY <2>3 DEF vars, disk, memory, counts
    <3>2. Shown' = Shown
      BY <3>1, FilesKept DEF Unwritten
    <3>3. Fallback' = Fallback
      BY <3>1, <3>2 DEF Fallback, OpenRoute, List
    <3> QED
      BY <3>1, <3>2, <3>3 DEF Simulated, Conversations!vars
  <2> QED
    BY <2>2, <2>3
<1> HIDE DEF Once
<1> QED
  BY <1>1, <1>2, <1>3, <1>4, PTL DEF Spec, AllOrNothing, Conversations!Spec
=============================================================================
