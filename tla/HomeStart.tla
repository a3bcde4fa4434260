------------------------------- MODULE HomeStart -------------------------------
(***************************************************************************)
(* A run of the program from its lease to its release.  `tars-ng start`    *)
(* stamps its lease, claims the partition of its sessions, boots and       *)
(* publishes its endpoint; `doctor`, `skill` and `self-extension` boot     *)
(* over the home with the lease alone.                                     *)
(***************************************************************************)
EXTENDS RuntimeLease

VARIABLE partition    \* run the .writer.lock of the sessions names

vars == <<leaseVars, partition>>

Init == LeaseInit /\ partition \in {None, Past}

-----------------------------------------------------------------------------
(* After the lease                                                         *)

(* A start refreshes the stamp of its lease when it completes a bound home.*)
Stamp(r) == At(r, "hold") /\ Rewrite(r, "stamp")

ClaimHome(r) ==
    /\ At(r, "hold")
    /\ Goto(r, "inspect")
    /\ UNCHANGED <<lock, tombs, seen, writing, attempts, dead, crashes>>

Command(r) ==
    /\ At(r, "hold")
    /\ Goto(r, "serve")
    /\ UNCHANGED <<lock, tombs, seen, writing, attempts, dead, crashes>>

(* claimSessionPartition: an unowned partition is published in one rename, *)
(* a dead owner is evicted, a live one ends the start.                     *)
Inspect(r) ==
    /\ At(r, "inspect")
    /\ Goto(r, CASE partition = None -> "publish"
                 [] partition \in dead -> "evict"
                 [] OTHER -> "leave")
    /\ seen' = [seen EXCEPT ![r] = partition]
    /\ UNCHANGED <<lock, tombs, writing, attempts, dead, crashes, partition>>

(* removePartitionLockIfRunId: read ... *)
Evict(r) ==
    /\ At(r, "evict")
    /\ Goto(r, IF partition = seen[r] THEN "evicting" ELSE "inspect")
    /\ UNCHANGED <<lock, tombs, seen, writing, attempts, dead, crashes, partition>>

(* ... and remove, without a second look at what was moved. *)
Evicting(r) ==
    /\ At(r, "evicting")
    /\ partition' = None
    /\ Goto(r, "inspect")
    /\ UNCHANGED <<lock, tombs, seen, writing, attempts, dead, crashes>>

Publish(r) ==
    /\ At(r, "publish")
    /\ IF partition = None
       THEN partition' = r /\ Goto(r, "boot")
       ELSE Goto(r, "leave") /\ UNCHANGED partition
    /\ UNCHANGED <<lock, tombs, seen, writing, attempts, dead, crashes>>

(* The boot and the Web UI, either of which may fail. *)
Boot(r) ==
    /\ At(r, "boot")
    /\ \E next \in {"announce", "leave"} : Goto(r, next)
    /\ UNCHANGED <<lock, tombs, seen, writing, attempts, dead, crashes>>

Announce(r) == At(r, "announce") /\ Rewrite(r, "endpoint")

Stop(r) ==
    /\ At(r, "serve")
    /\ Goto(r, "leave")
    /\ UNCHANGED <<lock, tombs, seen, writing, attempts, dead, crashes>>

(* The partition is released before the lease. *)
Leave(r) ==
    /\ At(r, "leave")
    /\ Goto(r, IF partition = r THEN "leaving" ELSE "release")
    /\ UNCHANGED <<lock, tombs, seen, writing, attempts, dead, crashes, partition>>

Unclaim(r) ==
    /\ At(r, "leaving")
    /\ partition' = None
    /\ Goto(r, "release")
    /\ UNCHANGED <<lock, tombs, seen, writing, attempts, dead, crashes>>

StartNext(r) ==
    \/ Inspect(r) \/ Evict(r) \/ Evicting(r) \/ Publish(r) \/ Leave(r) \/ Unclaim(r)
    \/ /\ Stamp(r) \/ ClaimHome(r) \/ Command(r) \/ Boot(r) \/ Announce(r) \/ Stop(r)
       /\ UNCHANGED partition

Next ==
    \E r \in Starts :
        \/ StartNext(r)
        \/ LeaseNext(r) /\ UNCHANGED partition

Spec == Init /\ [][Next]_vars
=============================================================================
