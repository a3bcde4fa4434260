------------------------------ MODULE Registry ------------------------------
(***************************************************************************)
(* The capability registry (src/domain/registry): which owner@version rows *)
(* exist, which are active, and the rule that no capability is claimed by  *)
(* two active rows.  A row stands for one `owner@version` key; a registry  *)
(* is a function from rows to statuses, "absent" where no record exists.   *)
(***************************************************************************)
CONSTANTS
    Rows,         \* owner@version keys the registry may ever hold
    Candidates,   \* the rows backed by a sealed candidate of an isolated owner
    OwnerOf,      \* [Rows -> owners]
    Claims        \* [Rows -> sets of capability ids]

ASSUME RowsAssumption == Candidates \subseteq Rows

Statuses == {"absent", "active", "disabled"}

Registries == [Rows -> Statuses]

Known(reg) == {x \in Rows : reg[x] # "absent"}

Active(reg) == {x \in Rows : reg[x] = "active"}

(* isolatedRuntimeOwner: the active rows that run in an isolated child. *)
ActiveGenerated(reg) == Active(reg) \cap Candidates

SameOwner(x, y) == OwnerOf[x] = OwnerOf[y]

(* Two rows that may not be active together. *)
Clash(x, y) == x # y /\ Claims[x] \cap Claims[y] # {}

ConflictFree(S) == \A x, y \in S : ~Clash(x, y)

(* assertNoActiveConflict accepts turning row x active. *)
MayActivate(reg, x) == \A y \in Active(reg) : ~Clash(x, y)

(* transitionStatus applied to every row of S. *)
SetStatus(reg, S, status) == [x \in Rows |-> IF x \in S THEN status ELSE reg[x]]

DisableGenerated(reg) == SetStatus(reg, ActiveGenerated(reg), "disabled")

(***************************************************************************)
(* commitRegistry: the active version of the candidate's owner is          *)
(* disabled, then the candidate is registered or turned active.            *)
(***************************************************************************)
Outgoing(reg, c) == {x \in Active(reg) : SameOwner(x, c) /\ x # c}

(* Fault: a registration is not checked for conflicts. *)
MayCommitUnchecked(reg, c) == TRUE

MayCommit(reg, c) == MayActivate(SetStatus(reg, Outgoing(reg, c), "disabled"), c)

CommitRow(reg, c) == SetStatus(SetStatus(reg, Outgoing(reg, c), "disabled"), {c}, "active")

(***************************************************************************)
(* applyRegistryOwners: unwanted active rows are disabled, wanted rows     *)
(* that exist are turned active.                                           *)
(***************************************************************************)
ApplyOwners(reg, owners) ==
    [x \in Rows |-> IF reg[x] = "absent" THEN "absent"
                    ELSE IF x \in owners THEN "active"
                    ELSE IF reg[x] = "active" THEN "disabled"
                    ELSE reg[x]]
=============================================================================
