-------------------------------- MODULE SkillDesk --------------------------------
(***************************************************************************)
(* The Skills Center of the web console over the skill service: imported   *)
(* and drafted revisions with their hard dependencies, the view a tab      *)
(* shows, its armed buttons, and the decisions a person posts about a      *)
(* revision.  The server reads the body of a post, projects the store      *)
(* again, and carries out what still stands.  The directories of the store *)
(* are in SkillStore; here an operation of the service is one write of the *)
(* index.                                                                  *)
(***************************************************************************)
EXTENDS Naturals, SequencesExt

CONSTANTS
    Revisions,      \* <<name, version>>
    Requirements,   \* the exact revisions the descriptor of each one requires
    FirstInUse,     \* the revisions in the catalogue at the start, if any
    NoRevision,
    Rooms           \* bounds on the writes of the index, the posts under way, and
                    \* the steps of the workbench that take a revision back

ASSUME DeskAssumption ==
    /\ Requirements \in [Revisions -> SUBSET Revisions]
    /\ FirstInUse \subseteq Revisions /\ NoRevision \notin Revisions
    /\ Rooms \subseteq [writes : Nat, letters : Nat, detours : Nat]

(* Every revision has bytes of its own. *)
Shelf == INSTANCE SkillIndex WITH
    Names <- {r[1] : r \in Revisions}, Ids <- Revisions, Bytes <- Revisions,
    Passing <- Revisions, Policies <- {"both"}, PolicyOf <- [r \in Revisions |-> "both"],
    DefaultPolicy <- "both", None <- NoRevision

VARIABLES
    shelf,        \* index.json, with its generation
    desk,         \* "closed", or "open" or in "safe" mode
    tab,          \* what the page shows: a view, and the dependents it was told of
    letters,      \* the posts under way, and their answers
    room          \* the bounds of this behaviour

deskVars == <<shelf, desk, tab, letters, room>>

NoCause == [id |-> NoRevision, values |-> {}]

FreshTab(view) == [view |-> view, told |-> NoCause]

-----------------------------------------------------------------------------
(* The service                                                             *)

Entry(id) == shelf.index.records[id]
Shelved(id) == Entry(id).life # "none"

(* writeSkillIndex counts every write. *)
WriteShelf(new) ==
    /\ shelf.generation < room.writes
    /\ shelf' = [index |-> new, generation |-> shelf.generation + 1]

(* nextSkillVersion: one above the highest there is. *)
NextVersion(id) ==
    ~\E r \in Revisions : r[1] = id[1] /\ Shelved(r) /\ r[2] >= id[2]

(* publishCandidate of a revision with these hard dependencies. *)
DraftOf(id, required) ==
    [x \in {"requires"} \cup DOMAIN Shelf!Draft(id) |->
        IF x = "requires" THEN required ELSE Shelf!Draft(id)[x]]

Published(id, required) == Shelf!Update(shelf.index, id, DraftOf(id, required))

(* At the start nothing is stored, or some revisions are in the catalogue  *)
(* already; the generation counts from there.                              *)
InUse(inUse) ==
    LET stored(id) == [Shelf!Approved(Shelf!Sealed(Shelf!Validated(DraftOf(id, Requirements[id]), id), id))
                          EXCEPT !.life = "active"]
    IN  [Shelf!EmptyIndex EXCEPT
            !.records = [r \in Revisions |-> IF r \in inUse THEN stored(r) ELSE @[r]],
            !.active = [n \in DOMAIN @ |-> IF \E r \in inUse : r[1] = n
                                           THEN CHOOSE r \in inUse : r[1] = n ELSE NoRevision]]

DeskInit ==
    /\ \E inUse \in {{}, FirstInUse} : shelf = [index |-> InUse(inUse), generation |-> 0]
    /\ desk = "closed" /\ tab = FreshTab(shelf) /\ letters = <<>>
    /\ room \in Rooms

(* importLocal, by a command while nothing runs.  The same bytes again     *)
(* change nothing, and others under the same id are refused.               *)
ImportLocal(id) ==
    /\ desk = "closed" /\ ~Shelved(id)
    /\ WriteShelf(Published(id, Requirements[id]))
    /\ UNCHANGED <<desk, tab, letters>>

(* create, by the tool of the assistant: it names no dependencies. *)
CreateSkill(id) ==
    /\ desk = "open" /\ ~Shelved(id) /\ NextVersion(id)
    /\ WriteShelf(Published(id, {}))
    /\ UNCHANGED <<desk, tab, letters>>

(* writeFile on a sealed or active revision makes the next one of it. *)
Fork(base, id) ==
    /\ desk = "open" /\ Shelved(base) /\ base[1] = id[1] /\ ~Shelved(id) /\ NextVersion(id)
    /\ Entry(base).sealed \/ Entry(base).life = "active"
    /\ WriteShelf(Published(id, Entry(base).requires))
    /\ UNCHANGED <<desk, tab, letters>>

(* A step of the workbench that leaves the revision at this point. *)
Moves(id, life) ==
    IF Shelf!Rank[life] > Shelf!Rank[Entry(id).life]
    THEN UNCHANGED room
    ELSE room.detours > 0 /\ room' = [room EXCEPT !.detours = @ - 1]

(* validate takes a revision at any point of its life. *)
ValidateSkill(id) ==
    /\ desk = "open" /\ Shelved(id) /\ Moves(id, "validated")
    /\ WriteShelf(Shelf!Update(shelf.index, id, Shelf!Validated(Entry(id), id)))
    /\ UNCHANGED <<desk, tab, letters>>

(* seal, request_skill_review and request_skill_approval, likewise. *)
Submit(id) ==
    /\ desk = "open" /\ Shelved(id) /\ Entry(id).validated /\ Moves(id, "requested")
    /\ WriteShelf(Shelf!Update(shelf.index, id,
                              Shelf!Requested(Shelf!Reviewed(Shelf!Sealed(Entry(id), id)))))
    /\ UNCHANGED <<desk, tab, letters>>

(* dependentsOf: the active revisions that require exactly this one. *)
Dependents(index, id) ==
    {r \in Revisions : index.records[r].life = "active" /\ id \in index.records[r].requires}

Acknowledged(index, id, dependents) ==
    Dependents(index, id) # {} => dependents = Dependents(index, id)

-----------------------------------------------------------------------------
(* The projection and the page                                             *)

(* skillRollbackOf *)
Target(index) == index.last

(* The revision a decision is about. *)
Subject(act, id, index) == IF act = "rollback" THEN Target(index) ELSE id

(* The buttons of a card. *)
Offered(act, id) ==
    LET index == tab.view.index
        life == index.records[id].life
    IN  CASE act \in {"approve", "reject"} -> life = "requested"
          [] act = "activate" -> desk # "safe" /\ life = "approved"
          [] act = "reactivate" -> desk # "safe" /\ life = "disabled"
          [] act = "disable" -> life = "active"
          [] act = "uninstall" -> life \notin {"none", "uninstalled"}
          [] act = "rollback" -> Target(index) # NoRevision

Acts == {"approve", "reject", "activate", "reactivate", "disable", "uninstall", "rollback"}

(* What the page sends: the card as it shows it, and the dependents the    *)
(* person was told of.                                                     *)
PostOf(act, id) ==
    LET told == act \in {"disable", "uninstall"} /\ tab.told.id = id IN
    [act |-> act, id |-> Subject(act, id, tab.view.index), seen |-> tab.view,
     acknowledge |-> told, dependents |-> IF told THEN tab.told.values ELSE {},
     answer |-> [kind |-> "none"]]

(* requestSkillInteraction.  A first click arms the button and the second  *)
(* sends; it is what the view shows then that is sent, so the two are one  *)
(* here, but for what the first one forgets.                               *)
Click(act, id) ==
    /\ desk # "closed" /\ Offered(act, id) /\ Len(letters) < room.letters
    /\ letters' = Append(letters, PostOf(act, id))
    /\ tab' = IF act = "disable" /\ tab.told.id # id THEN [tab EXCEPT !.told = NoCause] ELSE tab
    /\ UNCHANGED <<shelf, desk>>

(* The first click at uninstall, and the cancelling of one. *)
AskAnew ==
    /\ tab.told # NoCause
    /\ tab' = [tab EXCEPT !.told = NoCause]
    /\ UNCHANGED <<shelf, desk, letters>>

(* The server pushes its view. *)
Refresh ==
    /\ desk # "closed" /\ tab.view # shelf
    /\ tab' = [tab EXCEPT !.view = shelf]
    /\ UNCHANGED <<shelf, desk, letters>>

-----------------------------------------------------------------------------
(* The server, in one segment from the projection to the answer.           *)

(* Fault: a post is bound to its card and not to the generation. *)
StandsAnyGeneration(post) ==
    LET rec == Entry(post.id)
        then == post.seen.index.records[post.id]
    IN  /\ Shelved(post.id) /\ rec.digest = then.digest
        /\ CASE post.act \in {"approve", "reject"} -> rec.life = "requested" /\ rec.fingerprint = then.fingerprint
             [] post.act = "activate" -> rec.life = "approved"
             [] post.act = "reactivate" -> rec.life = "disabled"
             [] post.act = "disable" -> rec.life = "active"
             [] post.act = "uninstall" -> rec.life # "uninstalled"
             [] OTHER -> post.id = Target(shelf.index)

(* bindSkillAction *)
StillStands(post) ==
    LET rec == Entry(post.id)
        then == post.seen.index.records[post.id]
    IN  /\ post.seen.generation = shelf.generation
        /\ Shelved(post.id) /\ rec.digest = then.digest
        /\ CASE post.act \in {"approve", "reject"} -> rec.life = "requested" /\ rec.fingerprint = then.fingerprint
             [] post.act = "activate" -> rec.life = "approved"
             [] post.act = "reactivate" -> rec.life = "disabled"
             [] post.act = "disable" -> rec.life = "active"
             [] post.act = "uninstall" -> rec.life # "uninstalled"
             [] OTHER -> post.id = Target(shelf.index)

(* withheldCatalogMutation *)
Withheld(act) == desk = "safe" /\ act \in {"activate", "reactivate"}

(* What the service makes of the index; it refuses a revision that is not  *)
(* approved as it is.                                                      *)
Decided(post) ==
    CASE post.act = "approve" -> Shelf!Update(shelf.index, post.id, Shelf!Approved(Entry(post.id)))
      [] post.act = "reject" -> Shelf!Update(shelf.index, post.id, Shelf!Rejected(Entry(post.id)))
      [] post.act = "disable" -> Shelf!Retired(shelf.index, post.id, "disabled")
      [] post.act = "uninstall" ->
            IF shelf.index.active[post.id[1]] = post.id
            THEN Shelf!Retired(shelf.index, post.id, "uninstalled")
            ELSE Shelf!Update(shelf.index, post.id, [Entry(post.id) EXCEPT !.life = "uninstalled"])
      [] OTHER -> Shelf!Activated(shelf.index, post.id)

Permitted(post) ==
    CASE post.act \in {"disable", "uninstall"} -> Acknowledged(shelf.index, post.id, post.dependents)
      [] post.act \in {"approve", "reject"} -> TRUE
      [] OTHER -> Shelf!Authorised(Entry(post.id))

Answer(n, reply) == letters' = [letters EXCEPT ![n].answer = reply]

Refusal(post) ==
    IF /\ ~Withheld(post.act) /\ StillStands(post)
       /\ post.act \in {"disable", "uninstall"}
       /\ Dependents(shelf.index, post.id) # {} /\ ~post.acknowledge
    THEN [kind |-> "dependents-required", values |-> Dependents(shelf.index, post.id)]
    ELSE [kind |-> "refused"]

(* handleWebUiSkillRequest; posts may overtake each other. *)
Serve(n) ==
    LET post == letters[n] IN
    /\ desk # "closed" /\ post.answer.kind = "none"
    /\ IF ~Withheld(post.act) /\ StillStands(post) /\ Permitted(post)
       THEN WriteShelf(Decided(post)) /\ Answer(n, [kind |-> "done", view |-> shelf'])
       ELSE UNCHANGED shelf /\ Answer(n, Refusal(post))
    /\ UNCHANGED <<desk, tab>>

(* The answer reaches the page, whatever it shows by then. *)
Receive(n) ==
    LET post == letters[n] IN
    /\ post.answer.kind # "none"
    /\ tab' = CASE post.answer.kind = "done" ->
                     IF post.act \in {"disable", "uninstall"}
                     THEN FreshTab(post.answer.view)
                     ELSE [tab EXCEPT !.view = post.answer.view]
                [] post.answer.kind = "dependents-required" ->
                     [tab EXCEPT !.told = [id |-> post.id, values |-> post.answer.values]]
                [] OTHER -> tab
    /\ letters' = RemoveAt(letters, n)
    /\ UNCHANGED <<shelf, desk>>

(* The next process has a session of its own, and so a page of its own; it *)
(* does not start on a catalogue with a revision that is not approved.     *)
OpenDesk ==
    /\ desk = "closed"
    /\ \A r \in Revisions : shelf.index.active[r[1]] = r => Shelf!Authorised(Entry(r))
    /\ desk' \in {"open", "safe"}
    /\ tab' = FreshTab(shelf) /\ letters' = <<>>
    /\ UNCHANGED shelf

CloseDesk ==
    /\ desk # "closed"
    /\ desk' = "closed" /\ tab' = FreshTab(shelf) /\ letters' = <<>>
    /\ UNCHANGED shelf

SkillDeskNext ==
    \/ \E id \in Revisions : ValidateSkill(id) \/ Submit(id)
    \/ /\ UNCHANGED room
       /\ \/ \E id \in Revisions :
                \/ ImportLocal(id) \/ CreateSkill(id)
                \/ \E base \in Revisions : Fork(base, id)
                \/ \E act \in Acts : Click(act, id)
          \/ \E n \in DOMAIN letters : Serve(n) \/ Receive(n)
          \/ AskAnew \/ Refresh \/ OpenDesk \/ CloseDesk

DeskSpec == DeskInit /\ [][SkillDeskNext]_deskVars

-----------------------------------------------------------------------------
Leaving == {"disable", "uninstall"}

(* A decision of a person is carried out on the store just as the page     *)
(* showed it when it was sent, however late it is served and whatever was  *)
(* served before it; and a revision that active ones depend on is disabled *)
(* or uninstalled only for someone who was told of exactly those.          *)
ActsAsShown ==
    [][\A n \in DOMAIN letters :
          (DOMAIN letters' = DOMAIN letters
             /\ letters[n].answer.kind = "none" /\ letters'[n].answer.kind = "done") =>
              /\ letters[n].seen = shelf
              /\ letters[n].act \in Leaving =>
                    LET users == {r \in Revisions : Entry(r).life = "active" /\ letters[n].id \in Entry(r).requires}
                    IN  users = {} \/ letters[n].dependents = users
      ]_deskVars

(* What docs/skills.md:50 says of uninstall: no revision leaves while one  *)
(* in the catalogue depends on it, but for someone who acknowledged that.  *)
DependentsTold ==
    [][\A n \in DOMAIN letters :
          (DOMAIN letters' = DOMAIN letters
             /\ letters[n].answer.kind = "none" /\ letters'[n].answer.kind = "done"
             /\ letters[n].act \in Leaving) =>
                LET users == {r \in Revisions : shelf.index.active[r[1]] = r /\ letters[n].id \in Entry(r).requires}
                IN  users \subseteq letters[n].dependents
      ]_deskVars
=============================================================================
