--------------------------- MODULE ActivationRuntime ---------------------------
(***************************************************************************)
(* The runtime half of an activation: CordisActivationRuntime restricted   *)
(* to isolated candidates, each run by a child process.  A runtime state   *)
(* is a record                                                             *)
(*   generated  the map of runners: a runner leaves it once its child is   *)
(*              gone                                                       *)
(*   live       candidates whose proxy tools are registered and whose      *)
(*              child is answered for by the failure handler               *)
(*   mounted    currentMounted: the candidates a snapshot records          *)
(*   parked     for each candidate, the prior runners it displaced and     *)
(*              that its failure would put back                            *)
(*   swapped    candidates whose start replaced a prior owner              *)
(*   recipes    candidates this process has prepared and could start again *)
(* A call that waits for a child process is split at the wait: one         *)
(* operator for what it does before, one for what it does after.           *)
(***************************************************************************)
EXTENDS Registry

NobodyParked == [c \in Candidates |-> {}]

FreshRuntime == [generated |-> {}, live |-> {}, mounted |-> {}, parked |-> NobodyParked,
                 swapped |-> {}, recipes |-> {}]

Runtimes == [generated : SUBSET Candidates, live : SUBSET Candidates, mounted : SUBSET Candidates,
             parked : [Candidates -> SUBSET Candidates], swapped : SUBSET Candidates,
             recipes : SUBSET Candidates]

-----------------------------------------------------------------------------
(* Starting a candidate.                                                   *)

(* swapIsolatedOwner: the runners of the same owner give way to c.          *)
Displaced(rt, c) == {d \in rt.generated : d # c /\ SameOwner(d, c)}

(* prepare up to its wait; evolves: the candidate names a base version.     *)
Park(rt, c, evolves) ==
    IF c \in rt.generated \/ (Displaced(rt, c) = {} /\ ~evolves) THEN rt
    ELSE LET prior == Displaced(rt, c) IN
         [rt EXCEPT !.generated = @ \ prior, !.live = @ \ prior, !.mounted = @ \ prior,
                    !.parked[c] = prior, !.swapped = @ \cup {c}]

(* Versions of one owner declare the same tools: none may be left behind.   *)
ToolsFree(rt, c) == \A d \in rt.live : ~SameOwner(d, c)

(* prepareGenerated once the child is up. *)
Started(rt, c) ==
    [rt EXCEPT !.generated = @ \cup {c}, !.live = @ \cup {c}, !.recipes = @ \cup {c}]

(* remountParkedRunner for every runner of S.  (It skips a tool that an     *)
(* orphaned runner of the same owner still holds; such a runner counts as   *)
(* live here, for its failure handler is attached all the same.)            *)
Unparked(rt, S) ==
    [rt EXCEPT !.generated = @ \cup S, !.live = @ \cup S, !.mounted = @ \cup S]

(* restoreIsolatedSwap: what c displaced is mounted again. *)
Unpark(rt, c) ==
    Unparked([rt EXCEPT !.generated = @ \ {c}, !.parked[c] = {}, !.swapped = @ \ {c}], rt.parked[c])

(* The start failed, with its recipe recorded if only the tools clashed. *)
StartFailed(rt, c, clash) ==
    Unpark(IF clash THEN [rt EXCEPT !.recipes = @ \cup {c}] ELSE rt, c)

(* commit: discardParked, then the push on currentMounted. *)
DiscardParked(rt, S) == [rt EXCEPT !.parked = [c \in Candidates |-> IF c \in S THEN {} ELSE @[c]]]

(* Fault: commit lists the candidate alone. *)
MountedAlone(rt, c) == [rt EXCEPT !.mounted = {c}]

Mounted(rt, c) == [rt EXCEPT !.mounted = @ \cup {c}]

-----------------------------------------------------------------------------
(* Stopping candidates.                                                    *)

(* dropGenerated up to the exit of the children, then after it. *)
Dropping(rt, S) == [rt EXCEPT !.live = @ \ S]

Dropped(rt, S) == [rt EXCEPT !.generated = @ \ S, !.mounted = @ \ S]

(* unloadGenerated *)
Unloading(rt, S) == DiscardParked(Dropping(rt, S \cap rt.generated), S)

UnloadWaits(rt, S) == S \cap rt.generated # {} \/ \E c \in S : rt.parked[c] # {}

-----------------------------------------------------------------------------
(* restore(snapshot).  Every runner the snapshot does not mount is         *)
(* dropped, and the runners parked behind an unwanted candidate come back; *)
(* once the children are gone, the wanted candidates that have no runner   *)
(* are started one by one from their recipes, and currentMounted is cut to *)
(* the candidates that have one.                                           *)

(* Fault: restore drops no runner. *)
UnwantedNone(rt, snap) == {}

Unwanted(rt, snap) == rt.generated \ snap.mounted

BeginRestore(rt, snap) ==
    LET gone == rt.swapped \ snap.mounted
        back == UNION {rt.parked[c] : c \in gone}
        kept == [Dropping(rt, Unwanted(rt, snap)) EXCEPT !.generated = @ \ gone,
                                                         !.parked = NobodyParked, !.swapped = @ \ gone]
    IN  Unparked(kept, back)

RestoreWaits(rt, snap) ==
    Unwanted(rt, snap) # {} \/ \E c \in rt.swapped \cap snap.mounted : rt.parked[c] # {}

(* Fault: a runner that was dropped is not started again. *)
RestartableNone(rt, S) == {}

Restartable(rt, S) == (S \ rt.generated) \cap rt.recipes

(* Fault: currentMounted takes the snapshot's list as it is. *)
EndRestoreUncut(rt, snap) == [rt EXCEPT !.mounted = snap.mounted]

EndRestore(rt, snap) == [rt EXCEPT !.mounted = snap.mounted \cap rt.generated]
=============================================================================
