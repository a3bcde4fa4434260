----------------------------- MODULE MCGovernance -----------------------------
(***************************************************************************)
(* Small homes.  In the first, v1 and v2 are versions of one owner, v2 *)
(* proposed as a change of v1.  In the second, the extension w was sealed  *)
(* before the authoring contract, v1 claims the same capability, and the   *)
(* managed row core depends on v1.                                         *)
(***************************************************************************)
EXTENDS GovernanceInvariant, Console

CONSTANTS v1, v2, w, core

PairRows == {v1, v2}
PairOwner == [x \in PairRows |-> "notes"]
PairClaims == [x \in PairRows |-> {"notes.read"}]
PairBase == [c \in PairRows |-> IF c = v2 THEN v1 ELSE None]
PairDependents == [c \in PairRows |-> {}]
PairNewer == {<<v2, v1>>}

TrioRows == {v1, v2, w}
TrioOwner == [x \in TrioRows |-> IF x = w THEN "tasks" ELSE "notes"]
TrioClaims == [x \in TrioRows |-> {TrioOwner[x]}]
TrioBase == [c \in TrioRows |-> IF c = v2 THEN v1 ELSE None]
TrioDependents == [c \in TrioRows |-> {}]

MixedRows == {v1, w, core}
MixedCandidates == {v1, w}
MixedOwner == [x \in MixedRows |-> x]
MixedClaims == [x \in MixedRows |-> IF x = core THEN {core} ELSE {"notes.read"}]
MixedBase == [c \in MixedCandidates |-> None]
MixedDependents == [c \in MixedCandidates |-> IF c = v1 THEN {core} ELSE {}]

SoloRows == {v1}
SoloCandidates == {v1}
SoloOwner == [x \in SoloRows |-> x]
SoloClaims == [x \in SoloRows |-> {x}]
SoloBase == [c \in SoloCandidates |-> None]
SoloDependents == [c \in SoloCandidates |-> {}]

VARIABLE byConsole

(* The mutations are asked for directly, one call after the other.         *)
Direct == Next /\ UNCHANGED <<consoleVars, byConsole>>

DirectInit == Init /\ ConsoleInit /\ byConsole = FALSE

DirectSpec == DirectInit /\ [][Direct]_<<vars, consoleVars, byConsole>>

DirectFairSpec == DirectSpec /\ Fairness

(* The same, or the posts of a browser tab beside those of the agent.      *)
RestartInit == Init /\ ConsoleInit /\ byConsole \in BOOLEAN

RestartSpec ==
    /\ RestartInit
    /\ [][IF byConsole THEN ConsoleNext /\ UNCHANGED byConsole ELSE Direct]_<<vars, consoleVars, byConsole>>
=============================================================================
