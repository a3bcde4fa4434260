-------------------------------- MODULE OneShot --------------------------------
(***************************************************************************)
(* What a confirmation promises, whichever approval system asks for it:    *)
(* it is asked once and decided once, what it asks for happens at most     *)
(* once, and only if it was granted.                                       *)
(***************************************************************************)
EXTENDS Naturals

CONSTANT Asks

VARIABLES
    phase,     \* "none", "open", "granted" (and under way) or "closed"
    effects    \* how often what was asked for was set off

vars == <<phase, effects>>

Init ==
    /\ phase = [a \in Asks |-> "none"]
    /\ effects = [a \in Asks |-> 0]

(* A confirmation whose asker is already gone is closed at once. *)
Ask(a) ==
    /\ phase[a] = "none"
    /\ \E next \in {"open", "closed"} : phase' = [phase EXCEPT ![a] = next]
    /\ UNCHANGED effects

(* Granting sets the effect off; some effects are over at once. *)
Grant(a) ==
    /\ phase[a] = "open"
    /\ \E next \in {"granted", "closed"} : phase' = [phase EXCEPT ![a] = next]
    /\ effects' = [effects EXCEPT ![a] = 1]

Close(a) ==
    /\ phase[a] \in {"open", "granted"}
    /\ phase' = [phase EXCEPT ![a] = "closed"]
    /\ UNCHANGED effects

(* Several confirmations may be closed together when the asker goes away. *)
CloseAll ==
    /\ phase' = [a \in Asks |-> IF phase[a] = "open" THEN "closed" ELSE phase[a]]
    /\ UNCHANGED effects

Next == CloseAll \/ \E a \in Asks : Ask(a) \/ Grant(a) \/ Close(a)

Spec == Init /\ [][Next]_vars
=============================================================================
