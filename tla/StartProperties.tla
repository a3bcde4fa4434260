---------------------------- MODULE StartProperties ----------------------------
(***************************************************************************)
(* What a home owes to the runs that share it.                             *)
(***************************************************************************)
EXTENDS HomeStart

(* The runs that were given the lease and did not begin to release it. *)
Holding ==
    {"hold", "inspect", "evict", "evicting", "publish", "boot", "announce", "serve",
     "leave", "leaving"}

Holds(r) ==
    /\ r \notin dead
    /\ \/ pc[r] \in Holding
       \/ pc[r] \in {"temp", "rename"} /\ writing[r] # "lease"

Labels ==
    Holding \cup {"mkdir", "read", "classify", "verify", "bury", "check", "putback", "temp",
                  "rename", "wipe", "release", "refused", "ended"}

Dirs == [there : BOOLEAN, owner : Runs \cup {None}, files : SUBSET Starts]

(* A home has at most one run that holds its lease. *)
SingleWriter == \A r, s \in Starts : Holds(r) /\ Holds(s) => r = s

(* "A TARS-NG Home has at most one verified writer": no two runs have      *)
(* booted over it and not begun to stop.  Refuted by a run of its own.     *)
Serves(r) == At(r, "serve")

OneServes == \A r, s \in Starts : Serves(r) /\ Serves(s) => r = s

(* The record of a living holder is on the disk: at the path, or moved     *)
(* aside by a run that looks at what it took.                              *)
OwnerKept ==
    \A r \in Starts : Holds(r) =>
        \/ lock.owner = r
        \/ \E s \in Starts \ {r} :
              pc[s] \in {"check", "putback"} /\ tombs[seen[s]].owner = r

-----------------------------------------------------------------------------
(* The inductive invariant of a home that started clean, until a run ends  *)
(* without its release: the directory has one run that made it and will    *)
(* remove it, and no other run gets past a look at it.                     *)

Keeping == Holding \cup {"temp", "rename", "release"}

Keeps(r) ==
    \/ pc[r] \in Keeping
    \/ Leaving(r) /\ pc[r] \in {"verify", "bury"}

Took(r) == Keeps(r) \/ pc[r] \in {"check", "ended"}

(* What the run that made the directory finds in it. *)
Intact(r) ==
    /\ lock.there
    /\ lock.owner = IF pc[r] \in {"temp", "rename"} /\ writing[r] = "lease" THEN None ELSE r
    /\ pc[r] = "rename" => r \in lock.files

CleanTyped ==
    /\ lock \in Dirs /\ tombs \in [Runs -> Dirs]
    /\ pc \in [Starts -> Labels] /\ seen \in [Starts -> Runs \cup {None}]
    /\ writing \in [Starts -> Purposes]
    /\ dead \in SUBSET Runs /\ partition \in Runs \cup {None}

Undisturbed ==
    /\ \A r \in Starts : Keeps(r) => Intact(r)
    /\ \A r, s \in Starts : Keeps(r) /\ Keeps(s) => r = s
    /\ lock.owner # None => lock.owner \in Starts /\ Keeps(lock.owner)

Orderly ==
    \A r \in Starts :
        /\ pc[r] \notin {"putback", "wipe"}
        /\ pc[r] \in {"bury", "check"} => Leaving(r)
        /\ pc[r] = "verify" => Leaving(r) \/ seen[r] \in dead
        /\ IF pc[r] = "check" THEN tombs[r].owner = r ELSE tombs[r] = NoDir
        /\ r \in dead => pc[r] \in {"refused", "ended"}
        /\ Took(r) \/ writing[r] = "lease"

SomeoneTook ==
    \/ \E r \in Starts : Took(r)
    \/ ~lock.there /\ \A r \in Starts : pc[r] = "mkdir"

CleanInv == CleanTyped /\ Undisturbed /\ Orderly /\ SomeoneTook

(* On a home nobody left in use, until a run ends without its release, the *)
(* directory belongs to one run from its mkdir to its removal, and of the  *)
(* runs that start together one is not turned away.                        *)
Answered == \E r \in Starts : pc[r] # "refused"

CleanStart == lock = NoDir => [](crashes = 0 => Undisturbed /\ Answered)
=============================================================================
