------------------------------ MODULE ProfileHome ------------------------------
(***************************************************************************)
(* What a home is bound to.  A start inspects the binding, takes the lease,*)
(* moves the sessions of an older Profile identity to the one it resolves, *)
(* claims their partition and only then binds a home that is not bound     *)
(* yet.  The shipped Profile changes with every upgrade of the program; a  *)
(* journal in four phases carries a move over the deaths of the runs that  *)
(* make it.                                                                *)
(***************************************************************************)
CONSTANTS
    Launches,      \* runs of `tars-ng start`
    Profiles,      \* identities of the Profiles that are shipped
    Unfit,         \* those whose composition fails the adapter contract
    ProfileName,   \* the identity an older home is bound to
    Unreadable,    \* a Profile that does not load
    Nobody, Missing,
    Transcripts

ASSUME ProfileAssumption ==
    /\ Unfit \subseteq Profiles
    /\ {ProfileName, Unreadable, Nobody} \cap Profiles = {}
    /\ Nobody \notin Launches \cup {ProfileName, Unreadable}
    /\ \A T \in SUBSET Transcripts : Missing # T

VARIABLES
    shipped,      \* what the Profile resolves to by now
    binding,      \* profileIdentity of state/runtime-context.json
    owner,        \* the identity the session root is stamped with
    partitions,   \* the transcripts under the partition of each identity
    spare,        \* state/recovery-sessions
    move,         \* state/profile-identity-migration.json
    holder,       \* who holds the lease
    launch,       \* the step, the context and the move each run has in memory
    kept, aside   \* transcripts of normal runs and of runs in Safe Mode

homeVars ==
    <<shipped, binding, owner, partitions, spare, move, holder, launch, kept, aside>>

Identities == Profiles \cup {ProfileName}
Move(from, to, phase) == [from |-> from, to |-> to, phase |-> phase]
NoMove == Move(Nobody, Nobody, "none")
Context(id, isBound, broken) == [id |-> id, bound |-> isBound, broken |-> broken]
NotStarted ==
    [at |-> "off", context |-> Context(Nobody, FALSE, FALSE), move |-> NoMove, stamped |-> FALSE]

(* A fresh home, one bound by this program and one bound by an older one,  *)
(* whose session root may not be stamped yet.                              *)
ProfileInit ==
    /\ shipped \in Profiles \ Unfit
    /\ binding \in {Nobody, ProfileName, shipped}
    /\ owner \in IF binding = ProfileName THEN {binding, Nobody} ELSE {binding}
    /\ kept \in {{}} \cup {{t} : t \in IF binding = Nobody THEN {} ELSE Transcripts}
    /\ partitions = [id \in Identities |-> IF id = binding THEN kept ELSE Missing]
    /\ spare = {} /\ aside = {}
    /\ move = NoMove
    /\ holder = Nobody
    /\ launch = [x \in Launches |-> NotStarted]

Is(x, step) == launch[x].at = step
Proceed(x, step) == launch' = [launch EXCEPT ![x].at = step]
Stands(x, step, context) == launch' = [launch EXCEPT ![x].at = step, ![x].context = context]

-----------------------------------------------------------------------------
(* inspectRuntimeContext                                                   *)

StampAllows(id) ==
    \/ owner = Nobody
    \/ IF move = NoMove THEN owner = id ELSE owner \in {move.from, move.to, id}

BoundRefused ==
    \/ /\ binding # ProfileName /\ shipped \notin {Unreadable, binding}
       /\ move = NoMove
    \/ ~StampAllows(binding)

HomeRefused ==
    IF binding # Nobody
    THEN BoundRefused
    ELSE shipped # Unreadable /\ owner \notin {Nobody, shipped}

Inspection ==
    IF binding # Nobody
    THEN Context(binding, TRUE, shipped = Unreadable)
    ELSE Context(shipped, FALSE, shipped = Unreadable)

Fits == shipped \in Profiles \ Unfit

(* A start inspects before it has the lease, and again for the contract. *)
InspectHome(x) ==
    /\ Is(x, "off") /\ ~HomeRefused
    /\ Stands(x, "inspected", [Inspection EXCEPT !.broken = ~Fits])
    /\ UNCHANGED <<shipped, binding, owner, partitions, spare, move, holder, kept, aside>>

TakeLease(x) ==
    /\ Is(x, "inspected") /\ holder = Nobody
    /\ holder' = x
    /\ Proceed(x, "held")
    /\ UNCHANGED <<shipped, binding, owner, partitions, spare, move, kept, aside>>

Vanish(x) ==
    /\ holder' = IF holder = x THEN Nobody ELSE holder
    /\ launch' = [launch EXCEPT ![x] = NotStarted]

StartDenied(x) ==
    /\ Is(x, "inspected") /\ holder # Nobody
    /\ Vanish(x)
    /\ UNCHANGED <<shipped, binding, owner, partitions, spare, move, kept, aside>>

(* A start that fails takes the stamp it made back, unless there are       *)
(* sessions under it.                                                      *)
FailStart(x) ==
    /\ LET id == launch[x].context.id IN
       owner' = IF launch[x].stamped /\ owner = id /\ partitions[id] \in {{}, Missing}
                THEN Nobody ELSE owner
    /\ Vanish(x)

-----------------------------------------------------------------------------
(* completeProfileIdentityMigration                                        *)

OlderBinding == binding = ProfileName

MoveMatches ==
    \/ move = NoMove
    \/ /\ move.to = shipped
       /\ binding = move.from \/ (binding = shipped /\ move.from = ProfileName)

Reinspect(x, step) ==
    IF HomeRefused
    THEN FailStart(x)
    ELSE Stands(x, step, Inspection) /\ UNCHANGED <<owner, holder>>

(* What follows a move: the claim, unless the run claimed before. *)
AfterMove(x) == IF launch[x].context.bound THEN "claim" ELSE "serve"

Complete(x) ==
    IF shipped = Unreadable \/ (move = NoMove /\ ~OlderBinding)
    THEN Reinspect(x, AfterMove(x)) /\ UNCHANGED move
    ELSE IF MoveMatches
         THEN LET current == IF move = NoMove THEN Move(binding, shipped, "started") ELSE move IN
              /\ move' = current
              /\ launch' = [launch EXCEPT ![x].at = current.phase, ![x].move = current]
              /\ UNCHANGED <<owner, holder>>
         ELSE FailStart(x) /\ UNCHANGED move

(* The contract is looked at again, and a bound home brought up to date. *)
Begin(x) ==
    /\ Is(x, "held")
    /\ LET context == launch[x].context IN
       IF ~context.broken /\ ~Fits
       THEN FailStart(x) /\ UNCHANGED move
       ELSE IF context.bound /\ ~context.broken
            THEN Complete(x)
            ELSE Proceed(x, "claim") /\ UNCHANGED <<owner, move, holder>>
    /\ UNCHANGED <<shipped, binding, partitions, spare, kept, aside>>

EnterPhase(x, phase) ==
    /\ move' = [launch[x].move EXCEPT !.phase = phase]
    /\ launch' = [launch EXCEPT ![x].at = phase, ![x].move.phase = phase]

(* Fault: what an interrupted copy left at the target is taken for a copy. *)
CopyOnce(x) ==
    /\ Is(x, "started")
    /\ LET m == launch[x].move IN
       IF partitions[m.from] = Missing \/ partitions[m.to] # Missing
       THEN EnterPhase(x, "copied") /\ UNCHANGED partitions
       ELSE /\ partitions' = [partitions EXCEPT ![m.to] = {}]
            /\ Proceed(x, "copying") /\ UNCHANGED move
    /\ UNCHANGED <<shipped, binding, owner, spare, holder, kept, aside>>

(* The target is cleared first; the copy is not done until it is written. *)
Copy(x) ==
    /\ Is(x, "started")
    /\ LET m == launch[x].move IN
       IF partitions[m.from] = Missing
       THEN EnterPhase(x, "copied") /\ UNCHANGED partitions
       ELSE /\ partitions' = [partitions EXCEPT ![m.to] = {}]
            /\ Proceed(x, "copying") /\ UNCHANGED move
    /\ UNCHANGED <<shipped, binding, owner, spare, holder, kept, aside>>

Copied(x) ==
    /\ Is(x, "copying")
    /\ LET m == launch[x].move IN
       partitions' = [partitions EXCEPT ![m.to] = partitions[m.from]]
    /\ Proceed(x, "copyEnded")
    /\ UNCHANGED <<shipped, binding, owner, spare, move, holder, kept, aside>>

NoteCopied(x) ==
    /\ Is(x, "copyEnded")
    /\ EnterPhase(x, "copied")
    /\ UNCHANGED <<shipped, binding, owner, partitions, spare, holder, kept, aside>>

Restamp(x) ==
    /\ Is(x, "copied")
    /\ LET m == launch[x].move IN
       owner' = IF owner \in {m.from, m.to} THEN m.to ELSE owner
    /\ Proceed(x, "stamped")
    /\ UNCHANGED <<shipped, binding, partitions, spare, move, holder, kept, aside>>

NoteOwner(x) ==
    /\ Is(x, "stamped")
    /\ EnterPhase(x, "owner")
    /\ UNCHANGED <<shipped, binding, owner, partitions, spare, holder, kept, aside>>

Rebind(x) ==
    /\ Is(x, "owner")
    /\ binding' = launch[x].move.to
    /\ Proceed(x, "rebound")
    /\ UNCHANGED <<shipped, owner, partitions, spare, move, holder, kept, aside>>

NoteBinding(x) ==
    /\ Is(x, "rebound")
    /\ EnterPhase(x, "binding")
    /\ UNCHANGED <<shipped, binding, owner, partitions, spare, holder, kept, aside>>

DropOld(x) ==
    /\ Is(x, "binding")
    /\ partitions' = [partitions EXCEPT ![launch[x].move.from] = Missing]
    /\ Proceed(x, "dropped")
    /\ UNCHANGED <<shipped, binding, owner, spare, move, holder, kept, aside>>

EndMove(x) ==
    /\ Is(x, "dropped")
    /\ move' = NoMove
    /\ Proceed(x, "moved")
    /\ UNCHANGED <<shipped, binding, owner, partitions, spare, holder, kept, aside>>

Review(x) ==
    /\ Is(x, "moved")
    /\ Reinspect(x, AfterMove(x))
    /\ UNCHANGED <<shipped, binding, partitions, spare, move, kept, aside>>

-----------------------------------------------------------------------------
(* claimSessionPartition and commitRuntimeContext                          *)

(* A partition is made when it is first wanted. *)
Opened(id) == IF partitions[id] = Missing THEN {} ELSE partitions[id]

Ephemeral(context) == ~context.bound /\ context.broken

MayStamp(id) == owner \in {Nobody, id}

Claim(x) ==
    /\ Is(x, "claim")
    /\ LET context == launch[x].context IN
       CASE Ephemeral(context) -> Proceed(x, "serve") /\ UNCHANGED <<owner, partitions, holder>>
         [] ~Ephemeral(context) /\ ~MayStamp(context.id) -> FailStart(x) /\ UNCHANGED partitions
         [] OTHER ->
               /\ owner' = context.id
               /\ partitions' = [partitions EXCEPT ![context.id] = Opened(context.id)]
               /\ launch' = [launch EXCEPT ![x].at = IF context.bound THEN "serve" ELSE "commit",
                                           ![x].stamped = owner = Nobody]
               /\ UNCHANGED holder
    /\ UNCHANGED <<shipped, binding, spare, move, kept, aside>>

FailCommit(x) ==
    /\ Is(x, "commit")
    /\ FailStart(x)
    /\ UNCHANGED <<shipped, binding, partitions, spare, move, kept, aside>>

(* A home that was bound since the inspection is brought up to date. *)
CommitHome(x) ==
    /\ Is(x, "commit")
    /\ IF binding = Nobody
       THEN /\ binding' = launch[x].context.id
            /\ Proceed(x, "serve")
            /\ UNCHANGED <<owner, move, holder>>
       ELSE Complete(x) /\ UNCHANGED binding
    /\ UNCHANGED <<shipped, partitions, spare, kept, aside>>

-----------------------------------------------------------------------------
(* The run, in a conversation, and its end                                 *)

Converse(x, t) ==
    /\ Is(x, "serve") /\ t \notin kept \cup aside
    /\ LET context == launch[x].context IN
       /\ IF Ephemeral(context)
          THEN spare' = spare \cup {t} /\ UNCHANGED partitions
          ELSE /\ partitions' = [partitions EXCEPT ![context.id] = Opened(context.id) \cup {t}]
               /\ UNCHANGED spare
       /\ IF context.broken
          THEN aside' = aside \cup {t} /\ UNCHANGED kept
          ELSE kept' = kept \cup {t} /\ UNCHANGED aside
    /\ UNCHANGED <<shipped, binding, owner, move, holder, launch>>

StopRun(x) ==
    /\ Is(x, "serve")
    /\ spare' = IF Ephemeral(launch[x].context) THEN {} ELSE spare
    /\ Vanish(x)
    /\ UNCHANGED <<shipped, binding, owner, partitions, move, kept, aside>>

KillRun(x) ==
    /\ launch[x].at # "off"
    /\ Vanish(x)
    /\ UNCHANGED <<shipped, binding, owner, partitions, spare, move, kept, aside>>

-----------------------------------------------------------------------------
(* An upgrade, and `migrate-profile`, which looks at the lease and does    *)
(* not take it: here its checks and its write are one step.                *)

Ship ==
    /\ shipped' \in (Profiles \cup {Unreadable}) \ {shipped}
    /\ UNCHANGED <<binding, owner, partitions, spare, move, holder, launch, kept, aside>>

Authorize ==
    /\ holder = Nobody
    /\ binding # Nobody /\ shipped \notin {Unreadable, binding} /\ move = NoMove
    /\ move' = Move(binding, shipped, "started")
    /\ UNCHANGED <<shipped, binding, owner, partitions, spare, holder, launch, kept, aside>>

Launch(x) ==
    \/ InspectHome(x) \/ TakeLease(x) \/ StartDenied(x) \/ Begin(x)
    \/ Copy(x) \/ Copied(x) \/ NoteCopied(x) \/ Restamp(x) \/ NoteOwner(x)
    \/ Rebind(x) \/ NoteBinding(x) \/ DropOld(x) \/ EndMove(x) \/ Review(x)
    \/ Claim(x) \/ FailCommit(x) \/ CommitHome(x)
    \/ StopRun(x) \/ KillRun(x)
    \/ \E t \in Transcripts : Converse(x, t)

ProfileNext == (\E x \in Launches : Launch(x)) \/ Ship \/ Authorize

ProfileSpec == ProfileInit /\ [][ProfileNext]_homeVars

-----------------------------------------------------------------------------
(* Whichever step a death, an upgrade or a second start falls into, the    *)
(* partition the home is bound to holds every transcript a normal run has  *)
(* written, the copies and removals of half-made moves notwithstanding;    *)
(* and a normal run converses there, under the home's own stamp.           *)
HistoryFollows ==
    /\ binding # Nobody => kept \subseteq partitions[binding]
    /\ \A x \in Launches :
          Is(x, "serve") /\ ~launch[x].context.broken =>
              /\ launch[x].context.id = binding /\ owner = binding
              /\ partitions[binding] # Missing

(* "An interrupt leaves either the old-readable state or a journal that    *)
(* the next start can complete": the journal of a move no run is making,   *)
(* to the Profile that is shipped, is one the start's own checks accept.   *)
MoveResumes == holder = Nobody /\ move.to = shipped /\ Fits => ~HomeRefused /\ MoveMatches
=============================================================================
