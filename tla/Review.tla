-------------------------------- MODULE Review --------------------------------
(***************************************************************************)
(* Independent Review of a candidate revision: the findings of one review  *)
(* (prechecks, policy reviewer and host-owned lineage), as operators over  *)
(* a package, the report the host derives as its parent, and the blockers  *)
(* the caller declares.  A finding is named by its claim; only the claims  *)
(* that block are kept, and a report is the set of claims left open.       *)
(***************************************************************************)
EXTENDS Naturals, Sequences, FiniteSets

CONSTANTS NoDigest, NoReport

\* "retry" stands for the claims of the policy reviewer: the model of the candidate raises it,
\* resolves it, or (an R0 candidate without a risk model) says nothing about it.
Claims == {"candidate-not-sealed", "missing-digest", "validation-not-passed", "retry",
           "invalid-parent-revision", "omitted-blocker"}

Models == {"plain", "risky", "sound"}

Package(sealed, digest, passed, model) ==
    [sealed |-> sealed, digest |-> digest, passed |-> passed, model |-> model]

Gates(pkg) ==
    {claim \in {"candidate-not-sealed", "missing-digest", "validation-not-passed"} :
        \/ claim = "candidate-not-sealed" /\ ~pkg.sealed
        \/ claim = "missing-digest" /\ pkg.digest = NoDigest
        \/ claim = "validation-not-passed" /\ ~pkg.passed}

SemanticReview(pkg) == IF pkg.model = "risky" THEN {"retry"} ELSE {}

\* Silence is no proof: a model that says nothing leaves the claim open, and two claims about the
\* lineage itself have no host check at all.
Evidence(claim, pkg) ==
    \/ claim \in {"candidate-not-sealed", "missing-digest", "validation-not-passed"} \ Gates(pkg)
    \/ claim = "retry" /\ pkg.model = "sound"

\* The reports by digest, in the order the digests were first reviewed.
RememberReport(reports, report) ==
    IF report.digest = NoDigest THEN reports
    ELSE IF \E i \in DOMAIN reports : reports[i].digest = report.digest
         THEN [i \in DOMAIN reports |-> IF reports[i].digest = report.digest THEN report ELSE reports[i]]
         ELSE Append(reports, report)

ReportFor(reports, digest) ==
    IF \E i \in DOMAIN reports : reports[i].digest = digest
    THEN reports[CHOOSE i \in DOMAIN reports : reports[i].digest = digest] ELSE NoReport

\* What a start reconstructs: the last report of the candidate in the order of the file.
IsLast(reports, candidate, report) ==
    \/ report = NoReport /\ \A i \in DOMAIN reports : reports[i].candidate # candidate
    \/ \E i \in DOMAIN reports :
          /\ report = reports[i] /\ report.candidate = candidate
          /\ \A j \in DOMAIN reports : reports[j].candidate = candidate => j <= i

\* previous: the last report of the same candidate; claimed: the digest its binding names as parent.
SameLineage(pkg, previous) == previous # NoReport /\ previous.digest # pkg.digest

HostParent(pkg, reports, previous, claimed) ==
    IF SameLineage(pkg, previous) THEN previous
    ELSE IF claimed = NoDigest THEN NoReport ELSE ReportFor(reports, claimed)

InvalidParent(pkg, reports, previous, claimed) ==
    claimed # NoDigest
        /\ \/ ReportFor(reports, claimed) = NoReport
           \/ SameLineage(pkg, previous) /\ claimed # previous.digest

Inherited(parent) == IF parent = NoReport THEN {} ELSE parent.open

Omissions(inherited, declared) == IF inherited \subseteq declared THEN {} ELSE {"omitted-blocker"}

CarriedDropped(inherited, pkg) == {}

Carried(inherited, pkg) == {claim \in inherited : ~Evidence(claim, pkg)}

OpenFindings(pkg, reports, previous, claimed, declared) ==
    LET inherited == Inherited(HostParent(pkg, reports, previous, claimed))
    IN  Gates(pkg) \cup SemanticReview(pkg) \cup Carried(inherited, pkg) \cup Omissions(inherited, declared)
        \cup (IF InvalidParent(pkg, reports, previous, claimed) THEN {"invalid-parent-revision"} ELSE {})

ReviewState(last, digest) ==
    IF last = NoReport THEN "not-reviewed"
    ELSE IF digest # NoDigest /\ digest # last.digest THEN "stale"
    ELSE IF last.open = {} THEN "review-complete" ELSE "changes-required"
===============================================================================
