------------------------------- MODULE Console -------------------------------
(***************************************************************************)
(* The web console over the extension governance: the cards the workspace  *)
(* projects from the authority, and the requests a browser posts about     *)
(* them.  A post carries the card as it was when the operator clicked; the *)
(* server reads its body, projects the workspace again and acts only if    *)
(* the card still stands.  However old the view of a tab is and however    *)
(* long a request is on its way, the two show alike: as a post made early  *)
(* and served late.                                                        *)
(***************************************************************************)
EXTENDS Governance, FiniteSets

CONSTANTS
    Newer,       \* the pairs <<x, y>> of rows where x has the higher version
    MaxPosts     \* bound on the requests on their way at once

ASSUME ConsoleAssumption ==
    /\ \A pair \in Newer : pair[1] \in Rows /\ pair[2] \in Rows
    /\ MaxPosts \in Nat

VARIABLES
    approvalId,   \* the number in the id of each candidate's approval record
    posts,        \* the requests that were sent and not yet read
    serving       \* the card on whose post the console is running a mutation

consoleVars == <<approvalId, posts, serving>>

NoCard == [kind |-> "none"]

ConsoleInit ==
    /\ approvalId = [c \in Candidates |-> 0]
    /\ posts = {} /\ serving = NoCard

-----------------------------------------------------------------------------
(* The projection.                                                         *)

(* denials: why the candidate may not be activated now. *)
Denials(c) ==
    {reason \in {"digest-mismatch", "base-changed", "approval-required", "approval-rejected",
                 "approval-stale", "ownership-conflict", "recovery-required", "safe-mode"} :
        CASE reason = "digest-mismatch"    -> c \notin intact
          [] reason = "base-changed"       -> ~BaseHolds(c)
          [] reason = "approval-required"  -> approvals[c].decision \in {"none", "approval-requested"}
          [] reason = "approval-rejected"  -> approvals[c].decision = "rejected"
          [] reason = "approval-stale"     -> \/ approvals[c].decision = "superseded"
                                              \/ /\ approvals[c].decision = "approved-for-exact-diff"
                                                 /\ approvals[c].fp # Fingerprint(c)
          [] reason = "ownership-conflict" -> ~ConflictFree(Active(registry))
          [] reason = "recovery-required"  -> RecoveryRequired(gov)
          [] reason = "safe-mode"          -> gov.safeMode}

(* isTerminalStaleDenial, of the reasons a sealed, reviewed candidate meets. *)
Terminal(reason) == reason \in {"digest-mismatch", "approval-stale", "base-changed", "approval-rejected"}

(* isBlockedActivationDenial *)
Blocking(reason) ==
    Terminal(reason) \/ reason \in {"recovery-required", "safe-mode", "ownership-conflict"}

(* newerAuthoritative *)
Outdated(c) == \E x \in Active(registry) : SameOwner(x, c) /\ <<x, c>> \in Newer

(* extensionLifecycleOf, on what status() shows: Safe Mode hides the state. *)
Lifecycle(c) ==
    LET approved == approvals[c].decision = "approved-for-exact-diff"
        state    == IF gov.safeMode THEN "safe-mode" ELSE gov.state
    IN
    CASE approvals[c].decision = "superseded" \/ Outdated(c) -> "SUPERSEDED"
      [] OTHER ->
    CASE registry[c] = "active" -> "ACTIVE"
      [] registry[c] = "disabled" ->
            IF approved /\ ~\E reason \in Denials(c) : Blocking(reason) THEN "DISABLED_REACTIVATABLE"
                                                                       ELSE "DISABLED_BLOCKED"
      [] OTHER ->
    CASE approved /\ \E reason \in Denials(c) : Terminal(reason) -> "SUPERSEDED"
      [] OTHER ->
    CASE state \in {"activating", "activation-pending"} /\ gov.pending = c -> "ACTIVATING"
      [] state = "activation-failed" /\ gov.failure.cand = c -> "ACTIVATION_FAILED"
      [] OTHER -> IF approved THEN "APPROVED_NOT_ACTIVE" ELSE "APPROVAL_REQUIRED"

(* isActivationRetryEligible, of a failed activation. *)
RetryEligible(c) ==
    ~RecoveryRequired(gov) /\ ~gov.safeMode /\ Denials(c) = {}

(* projectActivationCards *)
ActivationCard(c) ==
    [kind |-> "activation", id |-> approvalId[c], cand |-> c, fp |-> approvals[c].fp,
     status |-> Lifecycle(c)]

ActivationCards ==
    {ActivationCard(c) : c \in
        {x \in Candidates :
            /\ approvals[x].decision = "approved-for-exact-diff"
            /\ \/ Lifecycle(x) \in {"APPROVED_NOT_ACTIVE", "ACTIVATING", "DISABLED_REACTIVATABLE"}
               \/ Lifecycle(x) = "ACTIVATION_FAILED" /\ RetryEligible(x)}}

(* selfExtensionCard: only a request that waits for a decision has a card. *)
ApprovalCards ==
    {[kind |-> "approval", id |-> approvalId[c], cand |-> c, fp |-> approvals[c].fp] :
        c \in {x \in Candidates : approvals[x].decision = "approval-requested"}}

(* projectUserPlugins; the generation is that of the current snapshot. *)
PluginCards ==
    {[kind |-> "plugin", cand |-> c, current |-> gov.current] : c \in ActiveGenerated(registry)}

(* rollbackDenials of the target and rollbackPlan *)
RollbackOpen(g, target) ==
    /\ g.current.owners # target.owners \/ RecoveryRequired(g)
    /\ \A x \in target.owners : registry[x] # "absent"
    /\ target.owners \cap Candidates \subseteq intact

(* projectRollbackCard: no card while anything else is going on. *)
RollbackCards ==
    {card \in {[kind |-> "rollback", current |-> gov.current, target |-> Fallback(gov),
                mounted |-> rt.mounted]} :
        /\ LifecycleIdle /\ ~gov.safeMode /\ ~RecoveryRequired(gov)
        /\ RollbackOpen(gov, card.target)}

Cards == ActivationCards \cup ApprovalCards \cup PluginCards \cup RollbackCards

-----------------------------------------------------------------------------
(* The tab.  Approve and reject post at once; every other decision arms    *)
(* the card with a first click and posts the card shown at the second.     *)

Verbs(card) ==
    CASE card.kind = "approval"   -> {"approve", "deny"}
      [] card.kind = "activation" -> IF card.status = "ACTIVATION_FAILED" THEN {"activate", "abandon"}
                                                                          ELSE {"activate"}
      [] card.kind = "plugin"     -> {"uninstall"}
      [] OTHER                    -> {"rollback"}

(* The request of a decision: the card as the screen shows it. *)
Posted(verb, card) == [verb |-> verb, card |-> card]

Click ==
    /\ up = "up" /\ Cardinality(posts) < MaxPosts
    /\ \/ \E card \in Cards : \E verb \in Verbs(card) :
             posts' = posts \cup {Posted(verb, card)}
       \/ \E verb \in {"recovery-rollback", "exit-safe-mode"} :
             gov.safeMode /\ posts' = posts \cup {Posted(verb, NoCard)}
    /\ UNCHANGED <<vars, approvalId, serving>>

-----------------------------------------------------------------------------
(* The server.  Everything from the projection that binds a post to the    *)
(* first wait of the mutation is one segment, so what was bound is what    *)
(* the mutation starts from.                                               *)

(* inFlight: a mutation of the console itself, or any the authority runs. *)
InFlight ==
    \/ serving # NoCard \/ mutation # "idle"
    \/ gov.state \in {"activating", "activation-pending", "rollback-pending"}

(* Fault: the card is looked up by its candidate alone. *)
BoundByCandidate(post) ==
    {card \in Cards : /\ card.kind = post.card.kind
                      /\ card.kind # "rollback" => card.cand = post.card.cand}

(* bindApproval *)
BoundApproval(shown) == {card \in ApprovalCards : card = shown}

(* bindActivation: of the status only a failed attempt shows in the id. *)
BoundActivation(shown) ==
    {card \in ActivationCards :
        /\ card.status # "ACTIVATING" /\ shown.kind = "activation"
        /\ <<card.id, card.cand, card.fp>> = <<shown.id, shown.cand, shown.fp>>
        /\ (card.status = "ACTIVATION_FAILED") <=> (shown.status = "ACTIVATION_FAILED")}

(* bindUninstall *)
BoundPlugin(shown) == {card \in PluginCards : card = shown}

(* bindRollback *)
BoundRollback(shown) == {card \in RollbackCards : card = shown}

Bound(post) ==
    BoundApproval(post.card) \cup BoundActivation(post.card)
        \cup BoundPlugin(post.card) \cup BoundRollback(post.card)

Decide(c, decision) ==
    /\ RecordApproval(c, decision)
    /\ approvalId' = [approvalId EXCEPT ![c] = spent'.approvals]
    /\ UNCHANGED serving

(* Mutations.run, of a mutation the authority does not deny; one that ends *)
(* at once, done or failed, is no longer being served.                     *)
Run(mutate, shown) ==
    /\ mutate
    /\ serving' = IF th'["op"].pc = "idle" THEN NoCard ELSE shown
    /\ UNCHANGED approvalId

ActivateCard(card, shown) == Run(ActivateStart(card.cand), shown)

AbandonCard(card) ==
    /\ card.status = "ACTIVATION_FAILED"
    /\ AbandonFailedActivation(card.cand) /\ UNCHANGED <<approvalId, serving>>

UninstallCard(card, shown) == Run(RemoveStart(card.cand, "uninstall"), shown)

RollbackCard(shown) == Run(Rollback, shown)

Execute(post, card) ==
    \/ post.verb = "approve"   /\ Decide(card.cand, "approved-for-exact-diff")
    \/ post.verb = "deny"      /\ Decide(card.cand, "rejected")
    \/ post.verb = "activate"  /\ ActivateCard(card, post.card)
    \/ post.verb = "abandon"   /\ AbandonCard(card)
    \/ post.verb = "uninstall" /\ UninstallCard(card, post.card)
    \/ post.verb = "rollback"  /\ RollbackCard(post.card)

(* recoveryRollback is bound to no card: it goes back to whatever is there. *)
RecoveryRollback == (gov.safeMode \/ RecoveryRequired(gov)) /\ Run(Rollback, NoCard)

LeaveSafeMode == Run(ExitSafeMode, NoCard)

(* handleRecovery *)
Recover(verb) ==
    \/ verb = "recovery-rollback" /\ RecoveryRollback
    \/ verb = "exit-safe-mode" /\ LeaveSafeMode

(* Approvals are not held off by a mutation in flight. *)
Serve(post) ==
    /\ up = "up" /\ Settled
    /\ InFlight => post.card.kind = "approval"
    /\ \/ \E card \in Bound(post) : Execute(post, card)
       \/ post.card = NoCard /\ Recover(post.verb)
    /\ posts' = posts \ {post}

(* A post that is stale, held off, denied or never arrives has no effect. *)
Refuse(post) ==
    /\ posts' = posts \ {post}
    /\ UNCHANGED <<vars, approvalId, serving>>

(* The agent asks for approvals; the terminal and the chats can disable an *)
(* extension or enter Safe Mode while a tab is open.                       *)
Elsewhere ==
    /\ Settled
    /\ \/ \E c \in Candidates : /\ RequestApproval(c)
                                 /\ approvalId' = [approvalId EXCEPT ![c] = spent'.approvals]
       \/ (EnterSafeMode \/ \E x \in Rows : RemoveStart(x, "disable")) /\ UNCHANGED approvalId
    /\ UNCHANGED <<posts, serving>>

(* A step of the authority; `run` counts its mutation down when it ends.   *)
Onward ==
    /\ Boot \/ \E t \in Threads : Advance(t)
    /\ serving' = IF th'["op"].pc = "idle" THEN NoCard ELSE serving
    /\ UNCHANGED <<approvalId, posts>>

ConsoleNext == Click \/ Elsewhere \/ Onward \/ \E post \in posts : Serve(post) \/ Refuse(post)

-----------------------------------------------------------------------------
(* A decision is about the candidate, the record and the diff of its card. *)
DecidesShown ==
    \A post \in posts \ posts' : \A c \in Candidates :
        approvals'[c].decision \notin {approvals[c].decision, "superseded"} =>
            /\ c = post.card.cand /\ approvalId[c] = post.card.id
            /\ approvals'[c].fp = post.card.fp

(* The rows switch to the candidate of the card, whose approval still is   *)
(* the one the card showed.                                                *)
ActivatesShown ==
    serving # NoCard /\ registry' # registry /\ th["op"].pc = "health" =>
        LET c == serving.cand IN
        /\ \A x \in Candidates : registry'[x] = "active" => registry[x] = "active" \/ x = c
        /\ Approved(c) /\ approvals[c].fp = serving.fp /\ approvalId[c] = serving.id

(* The snapshot that was offered is the one gone back to.                  *)
RollsBackToShown ==
    serving # NoCard /\ gov'.state = "rolled-back" /\ th["op"].pc = "rollback" =>
        gov'.current = serving.target

(* An approval, a rejection, an activation and a rollback that the console *)
(* carries out are about exactly what the card on the operator's screen    *)
(* said: the diff that was read, the version that was approved and the     *)
(* snapshot that was offered, however late the request is read and         *)
(* whatever the agent and other surfaces did in between.                   *)
DecidedAsShown ==
    [][DecidesShown /\ ActivatesShown /\ RollsBackToShown]_<<vars, consoleVars>>
=============================================================================
