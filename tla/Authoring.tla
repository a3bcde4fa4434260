------------------------------ MODULE Authoring ------------------------------
(***************************************************************************)
(* The candidate workbench: specifications and plans, candidate workspaces *)
(* and their index, validation, sealing, review, repair, import, and the   *)
(* request for approval.  Every operation is one call without an await, so *)
(* nothing interleaves with it but the death of the process; what can go   *)
(* wrong is a write that fails or never happens.  An operation therefore   *)
(* decides on the state it is called in, and leaves in todo the sequence   *)
(* of its effects, in the order of the code: changes of memory, and writes *)
(* to the candidate's directory, the index, the workbench file, the review *)
(* lineage and the authority file.  A step names the handler that runs     *)
(* when it fails; "none" is the error reaching the caller.                 *)
(***************************************************************************)
EXTENDS Naturals, Review

CONSTANTS
    MaxRevision,    \* revisions of the generated candidate: 1 from a plan, n + 1 the repair of n
    MaxSpecs,       \* revisions of the capability specification
    Fixtures,       \* those of them whose acceptance examples are executable
    Budgets,        \* how many inputs of each kind one behaviour has: a set of records
    NoRecord

ASSUME AuthoringAssumption ==
    /\ MaxRevision \in Nat \ {0} /\ MaxSpecs \in Nat \ {0} /\ Fixtures \subseteq 1 .. MaxSpecs
    /\ Budgets \subseteq [specs: Nat, edits: Nat, reviews: Nat, imports: Nat, crashes: Nat, faults: Nat]

Generated == 1 .. MaxRevision
Imported == MaxRevision + 1
RevisionIds == 1 .. MaxRevision + 1
LegacySpec == MaxSpecs + 1      \* the specification made up for a plan that has none of its own

VARIABLES
    rec,        \* CandidateService.records
    tree,       \* the candidate's directory on disk
    wb,         \* WorkbenchService: specifications, plans and bindings
    reports,    \* ReviewService.byDigest, in insertion order
    last,       \* ReviewService.byCandidate
    approval,   \* the governance decision on each candidate (authority.json)
    disk,       \* index.json, workbench.json, review-lineage.json and its generation
    todo,       \* the effects the current call still has to make
    up, lost,   \* the process runs; the lineage it expected was missing at its start
    left        \* the inputs that may still come

authoringVars == <<rec, tree, wb, reports, last, approval, disk, todo, up, lost, left>>

Plan(kind, n) == <<kind, n>>
SpecOf(plan) == IF plan[1] = "spec" THEN plan[2] ELSE LegacySpec

Record(life, sealed, digest, model) == [life |-> life, sealed |-> sealed, digest |-> digest, model |-> model]
CandidateTree(model, code, stamp, suite) == [model |-> model, code |-> code, stamp |-> stamp, suite |-> suite]

\* The digest covers every file outside .dsh: the manifest, the sources and the specification
\* stamp, and not the evaluation suite.
Digest(c, t) == <<c, t.model, t.code, t.stamp>>

\* repair recomputes the digest over a listing that includes .dsh.
SnapshotDigest(c, t) == IF t.suite THEN <<c, t>> ELSE Digest(c, t)

Step(do, c, val, else) == [do |-> do, at |-> c, val |-> val, else |-> else]
SetRec(c, r, else) == Step("rec", c, r, else)
SetTree(c, t, else) == Step("tree", c, t, else)
WriteIndex(c, else) == Step("index", c, NoRecord, else)
SetWb(w) == Step("wb", 0, w, "none")
Save(c, else) == Step("save", c, NoRecord, else)

Do(steps) == todo' = steps /\ UNCHANGED <<rec, tree, wb, reports, last, approval, disk, up, lost>>
Idle == up /\ todo = <<>>
Spend(what) == left[what] > 0 /\ left' = [left EXCEPT ![what] = @ - 1]

Bound(c) == wb.bind[c] # NoRecord
Binding(plan, parent, digest, spec) ==
    [plan |-> plan, parent |-> parent, digest |-> digest, spec |-> spec, leftover |-> FALSE]

CandidateTrees ==
    [model : Models \cup {"none"}, code : {"none", "good", "broken"}, stamp : 0 .. MaxSpecs, suite : BOOLEAN]

Lives == {"planned", "developing", "validated", "validation-failed", "validation-incomplete"}

DigestsOf(c) == {Digest(c, t) : t \in CandidateTrees}

Records(c) == [life : Lives, sealed : BOOLEAN, digest : DigestsOf(c) \cup {NoDigest}, model : Models]

Reports(c) == [candidate : {c}, digest : DigestsOf(c) \cup {NoDigest}, open : SUBSET Claims]

(* What stands for nothing is no digest, record or report.                 *)
ASSUME NothingAssumption ==
    \A c \in RevisionIds :
        /\ \A t \in CandidateTrees : NoDigest \notin {Digest(c, t), SnapshotDigest(c, t)}
        /\ NoRecord \notin Records(c) /\ NoReport \notin Reports(c)

(* Specifications and plans. Only the latest revision can be revised.      *)
DefineSpecification ==
    /\ Idle /\ wb.specs < MaxSpecs
    /\ Do(<<SetWb([wb EXCEPT !.specs = @ + 1]), Save(1, "none")>>)
    /\ Spend("specs")

MakePlan(s) ==
    /\ Idle /\ s <= wb.specs /\ Plan("spec", s) \notin wb.plans
    /\ Do(<<SetWb([wb EXCEPT !.plans = @ \cup {Plan("spec", s)}]), Save(1, "none")>>)
    /\ UNCHANGED left

(* A new workspace: the directory with its manifest, the record, the index.*)
Developing(r) == [r EXCEPT !.life = "developing", !.digest = NoDigest]

CreateSteps(c, model, else) ==
    <<SetTree(c, CandidateTree(model, "none", 0, FALSE), "none"),
      SetRec(c, Record("planned", FALSE, NoDigest, model), "none"), WriteIndex(c, "none")>>

WriteSteps(c, t, r, else) == <<SetTree(c, t, else), SetRec(c, Developing(r), else), WriteIndex(c, else)>>

Create(s, model) ==
    LET plan == Plan("spec", s)
        bare == Record("planned", FALSE, NoDigest, model)
        stamped == CandidateTree(model, "none", s, FALSE)
    IN  /\ Idle /\ plan \in wb.plans /\ rec[1] = NoRecord
        /\ Do(CreateSteps(1, model, "none") \o WriteSteps(1, stamped, bare, "none")
              \o (IF s \in Fixtures THEN WriteSteps(1, [stamped EXCEPT !.suite = TRUE], bare, "none") ELSE <<>>)
              \o <<SetWb([wb EXCEPT !.bind[1] = Binding(plan, 0, NoDigest, s)]), Save(1, "none")>>)
        /\ UNCHANGED left

(* Files and manifest of an unsealed candidate that was not imported.      *)
Editable(c) == rec[c] # NoRecord /\ c # Imported /\ ~rec[c].sealed

WithCode(c, code) ==
    IF tree[c] = NoRecord THEN CandidateTree("none", code, 0, FALSE) ELSE [tree[c] EXCEPT !.code = code]

WriteFile(c, code) ==
    /\ Idle /\ Editable(c)
    /\ Do(WriteSteps(c, WithCode(c, code), rec[c], "none") \o <<Save(c, "none")>>)
    /\ Spend("edits")

\* The record takes the manifest before the file does.
ManifestSteps(c, t, model) ==
    LET r == [rec[c] EXCEPT !.model = model]
    IN  <<SetRec(c, r, "none")>> \o WriteSteps(c, [t EXCEPT !.model = model], r, "none")

SetManifest(c, model) ==
    /\ Idle /\ Editable(c)
    /\ Do(ManifestSteps(c, IF tree[c] = NoRecord THEN CandidateTree(model, "none", 0, FALSE) ELSE tree[c], model)
          \o <<Save(c, "none")>>)
    /\ Spend("edits")

Scaffold(c) ==
    /\ Idle /\ Editable(c) /\ (tree[c] # NoRecord => tree[c].code = "none")
    /\ Do(WriteSteps(c, WithCode(c, "good"), rec[c], "none") \o <<Save(c, "none")>>
          \o ManifestSteps(c, WithCode(c, "good"), rec[c].model) \o <<Save(c, "none")>>)
    /\ Spend("edits")

(* Validation reads the directory and binds its report to the digest.  An  *)
(* evaluation suite is unresolved where the host has no sandbox for it.    *)
Stamped(c) ==
    Bound(c) /\ c # Imported =>
        tree[c].stamp = wb.bind[c].spec /\ (tree[c].suite <=> wb.bind[c].spec \in Fixtures)

ReviewOutcomes(t) ==
    IF t.code = "broken" THEN {"validation-failed"}
    ELSE IF t.code = "none" THEN {"validated", "validation-failed"}
    ELSE {"validated"} \cup (IF t.suite THEN {"validation-failed", "validation-incomplete"} ELSE {})

Validate(c) ==
    /\ Idle /\ rec[c] # NoRecord /\ ~rec[c].sealed /\ tree[c] # NoRecord /\ Stamped(c)
    /\ \E life \in ReviewOutcomes(tree[c]) :
          Do(<<SetRec(c, [rec[c] EXCEPT !.life = life, !.digest = Digest(c, tree[c])], "none"),
               WriteIndex(c, "none"), Save(c, "none")>>)
    /\ UNCHANGED left

Seal(c) ==
    /\ Idle /\ rec[c] # NoRecord /\ ~rec[c].sealed
    /\ rec[c].life \in {"validated", "validation-failed", "validation-incomplete"}
    /\ Do(<<SetRec(c, [rec[c] EXCEPT !.sealed = TRUE], "none"), WriteIndex(c, "none"), Save(c, "none")>>)
    /\ UNCHANGED left

(* A review remembers its report, then writes the lineage and counts it in *)
(* the authority file.  Without the lineage it expected it only reports.   *)
PackageOf(c) == Package(rec[c].sealed, rec[c].digest, rec[c].life = "validated", rec[c].model)

ParentDigest(c) == IF Bound(c) THEN wb.bind[c].digest ELSE NoDigest
Declared(c) ==
    IF Bound(c) /\ wb.bind[c].parent # 0 /\ last[wb.bind[c].parent] # NoReport
    THEN last[wb.bind[c].parent].open ELSE {}

ReviewCandidate(c) ==
    LET pkg == PackageOf(c)
        report == [candidate |-> c, digest |-> pkg.digest,
                   open |-> OpenFindings(pkg, reports, last[c], ParentDigest(c), Declared(c))]
    IN  /\ Idle /\ rec[c] # NoRecord /\ ~lost
        /\ Do(<<Step("report", c, report, "none"), Step("lineage", 0, NoRecord, "none"),
                Step("generation", 0, NoRecord, "none")>>)
        /\ Spend("reviews")

StateOf(c) == ReviewState(last[c], rec[c].digest)

(* Repair copies a sealed revision the review or the owner turned down. A  *)
(* parent without a binding gets a plan of its own.                        *)
Repairable(c) ==
    /\ rec[c] # NoRecord /\ c # Imported /\ rec[c].sealed
    /\ \/ last[c] # NoReport /\ last[c].open # {}
       \/ approval[c] = "rejected"

Repair(c) ==
    LET child == c + 1
        plan == IF Bound(c) THEN wb.bind[c].plan ELSE Plan("inherited", c)
        spec == IF Bound(c) THEN wb.bind[c].spec ELSE LegacySpec
        bare == Record("planned", FALSE, NoDigest, rec[c].model)
    IN  /\ Idle /\ c < MaxRevision /\ Repairable(c) /\ rec[child] = NoRecord
        /\ tree[c] # NoRecord /\ SnapshotDigest(c, tree[c]) = rec[c].digest
        /\ Do(CreateSteps(child, rec[c].model, "none")
              \o <<SetWb([wb EXCEPT !.plans = @ \cup {plan},
                                    !.bind[child] = Binding(plan, c, rec[c].digest, spec)])>>
              \o WriteSteps(child, [tree[c] EXCEPT !.model = rec[c].model], bare, "rollback")
              \o <<Save(child, "rollback")>>)
        /\ UNCHANGED left

(* What the code does when a step of a repair or an import throws.         *)
UnlinkedPlanOnly(c) == [wb EXCEPT !.plans = {p \in @ : ~(p[1] = "inherited" /\ p[2] + 1 = c)}]

Unlinked(c) ==
    [wb EXCEPT !.plans = {p \in @ : ~(p[1] = "inherited" /\ p[2] + 1 = c)}, !.bind[c] = NoRecord]

Leftover(c) == IF Bound(c) THEN [wb EXCEPT !.bind[c].leftover = TRUE] ELSE wb

Handler(name, c) ==
    CASE name = "none" -> <<>>
      [] name = "rollback" -> <<SetTree(c, NoRecord, "leftover"), SetRec(c, NoRecord, "leftover"),
                                WriteIndex(c, "leftover"), SetWb(Unlinked(c)), Save(c, "none")>>
      [] name = "leftover" -> <<SetWb(Leftover(c)), Save(c, "none")>>
      [] name = "unpublish" -> <<SetRec(c, NoRecord, "none"), SetTree(c, NoRecord, "none")>>
      [] name = "discard" -> <<SetTree(c, NoRecord, "none"), SetRec(c, NoRecord, "none"), WriteIndex(c, "none")>>

(* A third-party bundle is staged, renamed into place and adopted. Adopting*)
(* again, after an earlier import, is the same call without a workspace.   *)
AdoptSteps(else) ==
    LET plan == Plan("import", 0)
        planned == [wb EXCEPT !.plans = @ \cup {plan}]
    IN  IF Bound(Imported) THEN <<>>
        ELSE <<SetWb(planned), Save(Imported, else),
               SetWb([planned EXCEPT !.bind[Imported] = Binding(plan, 0, NoDigest, LegacySpec)]),
               Save(Imported, else)>>

Import(code) ==
    LET t == CandidateTree("plain", code, 0, FALSE)
    IN  /\ Idle
        /\ \/ /\ rec[Imported] = NoRecord
              /\ Do(<<SetTree(Imported, t, "none"),
                      SetRec(Imported, Record("developing", FALSE, NoDigest, "plain"), "none"),
                      WriteIndex(Imported, "unpublish")>> \o AdoptSteps("discard"))
           \/ /\ rec[Imported] # NoRecord /\ tree[Imported] = t
              /\ Do(AdoptSteps("none"))
        /\ Spend("imports")

(* The request for approval, and the owner's refusal of it.                *)
LiveDigestSkipped(c) == TRUE

LiveDigest(c) == tree[c] # NoRecord => Digest(c, tree[c]) = rec[c].digest

Eligible(c) ==
    /\ rec[c] # NoRecord /\ rec[c].sealed /\ rec[c].life = "validated" /\ rec[c].digest # NoDigest
    /\ LiveDigest(c)
    /\ StateOf(c) = "review-complete" /\ last[c].digest = rec[c].digest

RequestApproval(c) ==
    /\ Idle /\ Eligible(c) /\ approval[c] # "requested"
    /\ approval' = [approval EXCEPT ![c] = "requested"]
    /\ UNCHANGED <<rec, tree, wb, reports, last, disk, todo, up, lost, left>>

Reject(c) ==
    /\ Idle /\ approval[c] = "requested"
    /\ approval' = [approval EXCEPT ![c] = "rejected"]
    /\ UNCHANGED <<rec, tree, wb, reports, last, disk, todo, up, lost, left>>

(* One effect of the current call.                                         *)
Next_(step) == up /\ todo # <<>> /\ Head(todo).do = step /\ todo' = Tail(todo)

ChangeRecord ==
    /\ Next_("rec") /\ rec' = [rec EXCEPT ![Head(todo).at] = Head(todo).val]
    /\ UNCHANGED <<tree, wb, reports, last, approval, disk, up, lost, left>>

ChangeTree ==
    /\ Next_("tree") /\ tree' = [tree EXCEPT ![Head(todo).at] = Head(todo).val]
    /\ UNCHANGED <<rec, wb, reports, last, approval, disk, up, lost, left>>

ChangeWorkbench ==
    /\ Next_("wb") /\ wb' = Head(todo).val
    /\ UNCHANGED <<rec, tree, reports, last, approval, disk, up, lost, left>>

ChangeReports ==
    /\ Next_("report")
    /\ reports' = RememberReport(reports, Head(todo).val)
    /\ last' = [last EXCEPT ![Head(todo).at] = Head(todo).val]
    /\ UNCHANGED <<rec, tree, wb, approval, disk, up, lost, left>>

PersistIndex ==
    /\ Next_("index") /\ disk' = [disk EXCEPT !.rec = rec]
    /\ UNCHANGED <<rec, tree, wb, reports, last, approval, up, lost, left>>

\* The file is parsed before it is written: a binding names a plan of the file, and the plan's
\* specification.
Parses(w) ==
    \A c \in RevisionIds : w.bind[c] # NoRecord =>
        w.bind[c].plan \in w.plans /\ (c # Imported => w.bind[c].spec = SpecOf(w.bind[c].plan))

PersistWorkbench ==
    /\ Next_("save") /\ Parses(wb) /\ disk' = [disk EXCEPT !.wb = wb]
    /\ UNCHANGED <<rec, tree, wb, reports, last, approval, up, lost, left>>

PersistLineage ==
    /\ Next_("lineage") /\ disk' = [disk EXCEPT !.lineage = [present |-> TRUE, reports |-> reports]]
    /\ UNCHANGED <<rec, tree, wb, reports, last, approval, up, lost, left>>

PersistGeneration ==
    /\ Next_("generation") /\ disk' = [disk EXCEPT !.expected = TRUE]
    /\ UNCHANGED <<rec, tree, wb, reports, last, approval, up, lost, left>>

(* The file system refuses a write, or the workbench file does not parse.  *)
Throw ==
    LET step == Head(todo)
    IN  /\ up /\ todo # <<>>
        /\ step.do \in {"tree", "index", "save", "lineage", "generation"}
        /\ IF step.do = "save" /\ ~Parses(wb) THEN UNCHANGED left ELSE Spend("faults")
        /\ todo' = Handler(step.else, step.at)
        /\ UNCHANGED <<rec, tree, wb, reports, last, approval, disk, up, lost>>

AuthoringCrash ==
    /\ up /\ Spend("crashes")
    /\ up' = FALSE /\ todo' = <<>>
    /\ UNCHANGED <<rec, tree, wb, reports, last, approval, disk, lost>>

\* Someone removes review-lineage.json while the process is down.
LoseLineage ==
    /\ ~up /\ disk.lineage.present /\ Spend("faults")
    /\ disk' = [disk EXCEPT !.lineage = [present |-> FALSE, reports |-> <<>>]]
    /\ UNCHANGED <<rec, tree, wb, reports, last, approval, todo, up, lost>>

AuthoringBoot ==
    /\ ~up /\ up' = TRUE
    /\ rec' = disk.rec /\ wb' = disk.wb
    /\ lost' = (disk.expected /\ ~disk.lineage.present)
    /\ reports' = disk.lineage.reports
    /\ last' \in [RevisionIds -> {disk.lineage.reports[i] : i \in DOMAIN disk.lineage.reports} \cup {NoReport}]
    /\ \A c \in RevisionIds : IsLast(disk.lineage.reports, c, last'[c])
    /\ disk' = [disk EXCEPT !.expected = @ \/ disk.lineage.present]
    /\ UNCHANGED <<tree, approval, todo, left>>

Empty == [specs |-> 0, plans |-> {}, bind |-> [c \in RevisionIds |-> NoRecord]]

AuthoringInit ==
    /\ rec = [c \in RevisionIds |-> NoRecord] /\ tree = [c \in RevisionIds |-> NoRecord] /\ wb = Empty
    /\ reports = <<>> /\ last = [c \in RevisionIds |-> NoReport] /\ approval = [c \in RevisionIds |-> "none"]
    /\ disk = [rec |-> rec, wb |-> Empty, lineage |-> [present |-> FALSE, reports |-> <<>>],
               expected |-> FALSE]
    /\ todo = <<>> /\ up = TRUE /\ lost = FALSE
    /\ left \in Budgets

AuthoringNext ==
    \/ DefineSpecification
    \/ \E s \in 1 .. MaxSpecs : MakePlan(s) \/ \E m \in Models : Create(s, m)
    \/ \E c \in Generated :
          \/ \E code \in {"good", "broken"} : WriteFile(c, code)
          \/ \E m \in Models : SetManifest(c, m)
          \/ Scaffold(c) \/ Repair(c)
    \/ \E c \in RevisionIds : Validate(c) \/ Seal(c) \/ ReviewCandidate(c) \/ RequestApproval(c) \/ Reject(c)
    \/ \E code \in {"good", "broken"} : Import(code)
    \/ ChangeRecord \/ ChangeTree \/ ChangeWorkbench \/ ChangeReports
    \/ PersistIndex \/ PersistWorkbench \/ PersistLineage \/ PersistGeneration
    \/ Throw \/ AuthoringCrash \/ LoseLineage \/ AuthoringBoot

AuthoringSpec == AuthoringInit /\ [][AuthoringNext]_authoringVars
-------------------------------------------------------------------------------
(* The blockers of a parent revision (WorkbenchService.repair, then        *)
(* ReviewService.review): no review of a child revision completes without  *)
(* a report on the parent its binding names, nor while a blocker of that   *)
(* report is open that the child itself does not disprove, across failed   *)
(* writes, crashes, reviews made too early and repeated, and a lost        *)
(* lineage file.                                                           *)
BlockersCarried ==
    [][\A c \in Generated :
          (/\ up /\ last'[c] # last[c] /\ Bound(c) /\ wb.bind[c].parent # 0
           /\ rec[c] # NoRecord /\ ReviewState(last'[c], rec[c].digest) = "review-complete") =>
             /\ rec[c].sealed
             /\ ReportFor(reports, wb.bind[c].digest) # NoReport
             /\ \A claim \in ReportFor(reports, wb.bind[c].digest).open :
                   \/ claim \in {"candidate-not-sealed", "missing-digest", "validation-not-passed"}
                   \/ claim = "retry" /\ rec[c].model = "sound"]_authoringVars

(* The workbench file (DurableWorkbenchStore.save) is never one the next   *)
(* start would refuse, and memory is never one that could no longer be     *)
(* saved: a failed repair takes back its plan and its binding together, and*)
(* keeps both when the child cannot be discarded.                          *)
BindingsResolve == Parses(disk.wb) /\ (Idle => Parses(wb))

(* Approval is asked only for files that were validated as they are        *)
(* (GovernanceService.approvalRequestDenials): a crash or a failed write   *)
(* between a file and the index leaves a record that says validated over a *)
(* directory that no longer is, and sealing and reviewing it go through.   *)
RequestedSound ==
    [][\A c \in RevisionIds :
          (approval[c] # "requested" /\ approval'[c] = "requested" /\ tree[c] # NoRecord) =>
              tree[c].code # "broken"]_authoringVars

(* A sealed revision a review turned down can be repaired as long as       *)
(* nobody touched its files (docs/independent-review.md:16).               *)
RepairPossible ==
    \A c \in 1 .. MaxRevision - 1 :
        (/\ Idle /\ Repairable(c) /\ rec[c + 1] = NoRecord
         /\ tree[c] # NoRecord /\ LiveDigest(c) /\ rec[c].digest # NoDigest)
        => SnapshotDigest(c, tree[c]) = rec[c].digest
===============================================================================
