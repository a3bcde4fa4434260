----------------------------- MODULE Resolution -----------------------------
(***************************************************************************)
(* What should change for a capability the user asks for (domain/resolution*)
(* on the facts of domain/registry and domain/discovery), and what becomes *)
(* of the answer: the workbench makes a candidate of the plan, governance  *)
(* activates it when the compatibility rules and the registry let it.      *)
(* The callers are the workbench and a tool of the model; neither supplies *)
(* permission options, plugins or providers of its own, so the steps of    *)
(* the ladder that need them (configure, an explicit swap) never succeed.  *)
(***************************************************************************)
EXTENDS Naturals, FiniteSets

CONSTANTS
    Capabilities,
    DomainOf,      \* [Capabilities -> domains]: the part before the first dot
    Catalogs,      \* what discovery may find: [status, offers] each
    Wishes,        \* bound: what authors and bundles may claim, but for the advice
    NoBase,        \* the base of a candidate that replaces no version
    NoProvider,
    MaxDrafts      \* bound: candidates made

(* A version is a number, and no base is none of them.                     *)
ASSUME ResolutionAssumption ==
    /\ NoBase \notin Nat
    /\ \A answer \in Catalogs : \A offer \in answer.offers : offer.version \in Nat

VARIABLES
    entries,       \* the rows of the registry
    drafts,        \* the candidates of the workspace
    catalog        \* what discovery answers in this process

resolutionVars == <<entries, drafts, catalog>>

-----------------------------------------------------------------------------
(* Rows and candidates *)

Row(who, version, kind, origin, claims, seams, provider) ==
    [owner |-> who, version |-> version, kind |-> kind, origin |-> origin,
     claims |-> claims, seams |-> seams, provider |-> provider, status |-> "active"]

Managed(name) == <<"managed", name>>

(* The inventory every home starts with: in-process owners with services,  *)
(* one that has a provider behind a seam and one that draws the console.   *)
CoreRows ==
    {Row(Managed("integrations"), 1, "managed", "human",
         {c \in Capabilities : DomainOf[c] = "calendar"}, {"calendar"}, "fake"),
     Row(Managed("surface"), 1, "managed", "human",
         {c \in Capabilities : DomainOf[c] = "ui"}, {"ui"}, NoProvider)}

HostOwned == {r.owner : r \in CoreRows}

ActiveRows == {r \in entries : r.status = "active"}
Mentioned(cap) == {r \in entries : cap \in r.claims}
OwnersOf(cap) == Mentioned(cap) \cap ActiveRows
InDomain(cap) == {r \in ActiveRows : \E c \in r.claims : DomainOf[c] = DomainOf[cap]}

RanAlone(x) ==
    \/ x.owner[1] \in {"generated", "third-party"}
    \/ x.kind \in {"generated", "third-party"}
    \/ x.origin \in {"assistant", "import"}

HostProduct(cap) == DomainOf[cap] = "ui"

(* An isolated candidate has no services of its own, replaces no owner     *)
(* that lives in the host, and draws nothing in the console.               *)
Compatible(draft, cap) ==
    ~RanAlone(draft) \/
        /\ draft.owner \notin HostOwned
        /\ \A c \in draft.claims \cup {cap} : ~HostProduct(c)

(* The owner a row may be registered under, by its provenance. *)
WellFormed(draft) ==
    /\ draft.owner[1] = draft.kind
    /\ draft.kind = "third-party" => draft.origin = "import"

MayBeActive(draft) ==
    \A r \in ActiveRows : r.owner # draft.owner => r.claims \cap draft.claims = {}

-----------------------------------------------------------------------------
(* Discovery.  An offer is a record of a catalogue: whether the host       *)
(* vouches for the catalogue, what the record claims, and what speaks      *)
(* against it.                                                             *)

Matches(offer, cap) == \E c \in offer.claims : DomainOf[c] = DomainOf[cap]

(* Metadata that was read, and not compiled in, is never trusted, whatever *)
(* provenance it gives itself.                                             *)
Trusted(offer) == offer.host /\ offer.provenance \in {"dsh-core", "dsh-official", "managed"}

Sound(offer, cap) == ~offer.installs /\ Matches(offer, cap) /\ ~offer.unbound

EligibleOffer(offer, cap) ==
    /\ Sound(offer, cap)
    /\ Trusted(offer) \/ (offer.release = "supported" /\ offer.seams # {})

Found(cap) ==
    IF catalog.status = "unavailable" THEN {}
    ELSE {offer \in catalog.offers : EligibleOffer(offer, cap)}

Providers(cap) == {offer \in Found(cap) : offer.provider # NoProvider /\ offer.seams # {}}
Plugins(cap) == {offer \in Found(cap) : offer.provider = NoProvider /\ cap \in offer.claims}

Swaps(row, cap) ==
    {offer \in Providers(cap) : offer.seams \cap row.seams # {} /\ offer.provider # row.provider}

-----------------------------------------------------------------------------
(* The ladder.  holders is the active owner of the capability or one of    *)
(* its domain, as a set of at most one row; whichever the listing puts     *)
(* first.  complete says whether the caller vouches for the inventory.     *)

Advice(kind, who, version) == [kind |-> kind, owner |-> who, version |-> version]
NoTarget(kind) == Advice(kind, Managed("none"), NoBase)
Of(kind, row) == Advice(kind, row.owner, row.version)

Holders(cap) ==
    LET candidates == IF OwnersOf(cap) # {} THEN OwnersOf(cap) ELSE InDomain(cap)
    IN  IF candidates = {} THEN {{}} ELSE {{r} : r \in candidates}

EvolvableAny(row) == TRUE
Evolvable(row) == row.owner \notin HostOwned

Inactive(cap) ==
    IF OwnersOf(cap) # {} THEN {}
    ELSE {r \in Mentioned(cap) : r.status = "disabled"}

(* Where no owner is to be evolved: what is there already, a provider      *)
(* behind a seam, or something new, when nothing is known to be missed.    *)
Otherwise(cap, complete, holders) ==
    IF Inactive(cap) # {} THEN {Of("adopt-existing", r) : r \in Inactive(cap)}
    ELSE IF Plugins(cap) # {} THEN {Advice("adopt-existing", o.identity, o.version) : o \in Plugins(cap)}
    ELSE IF Providers(cap) # {}
         THEN IF holders = {} THEN {NoTarget("implement-provider")}
              ELSE {Of("implement-provider", r) : r \in holders}
    ELSE IF holders # {} THEN {NoTarget("host-product-change-required")}
    ELSE IF complete \/ catalog.status = "ok" THEN {NoTarget("new-plugin")}
    ELSE {NoTarget("insufficient-information")}

Ladder(cap, behavior, complete, holders) ==
    LET swaps == UNION {Swaps(r, cap) : r \in holders \cap OwnersOf(cap)}
        evolved == {r \in holders : Evolvable(r) /\ swaps = {}}
    IN  IF Cardinality(OwnersOf(cap)) > 1 THEN {NoTarget("conflict")}
        ELSE IF OwnersOf(cap) # {} /\ ~behavior THEN {Of("reuse", r) : r \in holders}
        ELSE IF HostProduct(cap) THEN {NoTarget("host-product-change-required")}
        ELSE IF evolved # {} THEN {Of("evolve-owner", r) : r \in evolved}
        ELSE Otherwise(cap, complete, holders)

Reviews(cap, behavior, complete) ==
    UNION {Ladder(cap, behavior, complete, holders) : holders \in Holders(cap)}

ChangeKinds == {"evolve-owner", "adopt-existing", "implement-provider", "new-plugin"}

-----------------------------------------------------------------------------
(* From a plan to a candidate *)

ProvenanceOf(kind, who) ==
    IF who[1] = "third-party" THEN <<"third-party", "import">>
    ELSE IF kind = "new-plugin" \/ who[1] = "generated" THEN <<"generated", "assistant">>
    ELSE <<"managed", "assistant">>

(* Owner, version and base come from the host's plan, never from the       *)
(* caller; what the candidate claims is up to its author.                  *)
DraftOf(advice, cap, claims, writable) ==
    LET new == advice.kind = "new-plugin"
        who == IF new THEN <<"generated", cap>> ELSE advice.owner
        provenance == ProvenanceOf(advice.kind, who)
    IN  [owner |-> who,
         version |-> IF new THEN 1
                     ELSE IF advice.kind = "adopt-existing" THEN advice.version
                     ELSE advice.version + 1,
         base |-> IF new THEN NoBase ELSE advice.version,
         kind |-> provenance[1], origin |-> provenance[2],
         claims |-> claims, asked |-> cap, writable |-> writable]

HeldBy(advice) ==
    UNION {r.claims : r \in {x \in entries : <<x.owner, x.version>> = <<advice.owner, advice.version>>}}

Fresh(draft) == \A d \in drafts : <<d.owner, d.version>> # <<draft.owner, draft.version>>

(* The workspace has taken the candidate when create writes the stamp of   *)
(* the specification into it: into the new version of an imported owner,   *)
(* which is read-only, it cannot, and leaves what it made.                 *)
CreateCandidate(cap, behavior) ==
    \E advice \in Reviews(cap, behavior, TRUE) :
        \E claims \in Wishes \cup {HeldBy(advice) \cup {cap}} :
        LET draft == DraftOf(advice, cap, claims, advice.owner[1] # "third-party") IN
        /\ advice.kind \in ChangeKinds
        /\ advice.kind = "implement-provider" => advice.version # NoBase
        /\ Cardinality(drafts) < MaxDrafts /\ Fresh(draft)
        /\ drafts' = drafts \cup {draft}
        /\ UNCHANGED <<entries, catalog>>

ImportBundle(claims) ==
    LET draft == [owner |-> <<"third-party", "bundle">>, version |-> 1, base |-> NoBase,
                  kind |-> "third-party", origin |-> "import",
                  claims |-> claims, asked |-> CHOOSE c \in claims : TRUE, writable |-> TRUE] IN
    /\ Cardinality(drafts) < MaxDrafts /\ Fresh(draft)
    /\ drafts' = drafts \cup {draft}
    /\ UNCHANGED <<entries, catalog>>

-----------------------------------------------------------------------------
(* From a candidate to a row *)

BaseHolds(draft) ==
    draft.base # NoBase => \E r \in ActiveRows : <<r.owner, r.version>> = <<draft.owner, draft.base>>

RowOf(draft) ==
    Row(draft.owner, draft.version, draft.kind, draft.origin, draft.claims, {}, NoProvider)

(* Validation, request and activation of a candidate somebody approved:    *)
(* the outgoing version is disabled, and the row registered or, if there   *)
(* is one, switched on again.                                              *)
ActivateDraft(draft) ==
    /\ draft.writable /\ WellFormed(draft) /\ BaseHolds(draft) /\ Compatible(draft, draft.asked)
    /\ RowOf(draft) \notin entries /\ MayBeActive(draft)
    /\ entries' =
          {IF r.owner = draft.owner /\ r.status = "active" THEN [r EXCEPT !.status = "disabled"] ELSE r
             : r \in {x \in entries : <<x.owner, x.version>> # <<draft.owner, draft.version>>}}
          \cup {RowOf(draft)}
    /\ UNCHANGED <<drafts, catalog>>

DisableRow(row) ==
    /\ row.status = "active"
    /\ entries' = (entries \ {row}) \cup {[row EXCEPT !.status = "disabled"]}
    /\ UNCHANGED <<drafts, catalog>>

-----------------------------------------------------------------------------
ResolutionInit == entries = CoreRows /\ drafts = {} /\ catalog \in Catalogs

ResolutionNext ==
    \/ \E cap \in Capabilities, behavior \in BOOLEAN : CreateCandidate(cap, behavior)
    \/ \E claims \in Wishes : ImportBundle(claims)
    \/ \E draft \in drafts : ActivateDraft(draft)
    \/ \E row \in entries : DisableRow(row)

-----------------------------------------------------------------------------
(* The candidate a plan asks for: what its owner has now, and the          *)
(* capability.                                                             *)
AdvisedDraft(advice, cap) == DraftOf(advice, cap, HeldBy(advice) \cup {cap}, TRUE)

(* Advice that can be followed (docs/capability-resolution.md, the ordered *)
(* algorithm): when the review says that an owner can be evolved or a new  *)
(* plugin made, for the workbench or for the model's tool, a candidate     *)
(* made exactly so is one that the compatibility rules of activation       *)
(* accept, may be registered and clashes with no active owner.             *)
AdviceWorks ==
    \A cap \in Capabilities, behavior, complete \in BOOLEAN :
        \A advice \in Reviews(cap, behavior, complete) :
            advice.kind \in {"evolve-owner", "new-plugin"} =>
                LET draft == AdvisedDraft(advice, cap)
                IN  WellFormed(draft) /\ Compatible(draft, cap) /\ MayBeActive(draft)

(* ... after every step, whatever was created, imported, activated and     *)
(* disabled before it.                                                     *)
AdviceFollowed == [][UNCHANGED resolutionVars \/ AdviceWorks']_resolutionVars
=============================================================================
