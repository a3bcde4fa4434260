--------------------------- MODULE SessionProperties ---------------------------
(***************************************************************************)
(* What the conversations of a home must keep through routes, failures and *)
(* restarts.                                                               *)
(***************************************************************************)
EXTENDS SessionRoute

(* Whatever a write or a crash left, the next start can read it: the       *)
(* current session of each stored catalogue is active, and the entry of    *)
(* the journal passes the check made when it is read.                      *)
CurrentActive(cat) == Listed(cat) # {} => cat.current \in ActiveIn(cat)

StartReadable ==
    /\ CurrentActive(catalog)
    /\ journal.phase # "none" => JournalOK(journal) /\ CurrentActive(journal.previous)

(* Between routes the host, the catalogue and product.json name the same   *)
(* session, and an agent serves it.                                        *)
RouteAgrees ==
    pc = "up" =>
        /\ surface = catalog.current /\ surface = product
        /\ surface \in agents

(* No listed session has lost its transcript, as long as no write failed,  *)
(* nor has the list a restart would come up with.                          *)
TranscriptKept ==
    faults = 0 => discarded \cap (Listed(catalog) \cup Listed(Recovered(catalog, journal))) = {}

(* The list of conversations: what the catalogue shows between routes and  *)
(* until a route has written its entry, and what a restart would come up   *)
(* with from then on.                                                      *)
List(cat) == [life |-> cat.life, current |-> cat.current]

Unwritten ==
    \/ pc \in {"up", "open", "journal"}
    \/ pc = "undo" /\ ~route.written

Shown == IF Unwritten THEN List(catalog) ELSE List(Recovered(catalog, journal))

OpenRoute ==
    /\ pc \in Routing \ {"commit"}
    /\ route.written /\ ~route.adopted

Fallback == IF OpenRoute THEN List(route.previous) ELSE Shown

Conversations ==
    INSTANCE Topics WITH topics <- Shown, before <- Fallback, asked <- pc # "up"

(* Every change of the list is whole or absent, wherever the process dies, *)
(* and neither a failed route nor a restart makes one of its own.          *)
AllOrNothing == Conversations!Spec

-----------------------------------------------------------------------------
(* The inductive invariant behind StartReadable                            *)

Prepareds ==
    [phase : {"prepared"}, op : Ops, from : Sessions \cup {None}, to : Sessions,
     previous : Catalogs, unlink : SUBSET Sessions]

Committeds ==
    [phase : {"committed"}, op : Ops, from : Sessions \cup {None}, to : Sessions,
     previous : Catalogs, unlink : SUBSET Sessions, intended : Catalogs]

Routes ==
    [op : Ops, id : Sessions, from : Sessions \cup {None}, to : Sessions,
     opened : BOOLEAN, adopted : BOOLEAN, written : BOOLEAN,
     previous : Catalogs, applied : Catalogs]

FilesTyped ==
    /\ catalog \in Catalogs
    /\ journal \in {NoJournal} \cup Prepareds \cup Committeds
    /\ surface \in Sessions \cup {None} /\ made \in Sessions
    /\ pc \in {"down", "up"} \cup Starting \cup Routing

(* The route ends on the session it makes or moves to, and never on the    *)
(* one it takes away; what it may put back is as readable as what is there.*)
RouteSound ==
    pc \in Routing =>
        /\ route \in Routes
        /\ route.op \in {"create", "switch"} => route.id = route.to
        /\ route.op \in {"archive", "delete"} => route.id # route.to
        /\ CurrentActive(route.previous) /\ CurrentActive(route.applied)

(* Between the entry and the operation nothing moves. *)
EntryFresh ==
    /\ pc \in {"apply", "commit"} => journal \in Prepareds
    /\ pc = "apply" =>
          catalog = journal.previous /\ journal.op = route.op /\ journal.to = route.to

SessionInv == FilesTyped /\ StartReadable /\ RouteSound /\ EntryFresh
=============================================================================
