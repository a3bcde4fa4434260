------------------------------ MODULE RuntimeLease ------------------------------
(***************************************************************************)
(* The lease of a home: state/runtime.lock, a directory whose              *)
(* identity.json names the run that owns the home.  Operating-system       *)
(* processes race on it with the file system as their only memory: one     *)
(* action is one call, and every call may fall between any two of another  *)
(* process.                                                                *)
(***************************************************************************)
EXTENDS Naturals

CONSTANTS
    Starts,        \* runs of the program on this home
    Past,          \* a run that ended before them
    None,
    MaxAttempts,   \* attempts to take the lease (8 in the code)
    MaxCrashes     \* bound on the runs that end without their release

ASSUME LeaseAssumption ==
    /\ Starts # {} /\ Past \notin Starts /\ None \notin Starts \cup {Past}
    /\ MaxAttempts \in Nat \ {0} /\ MaxCrashes \in Nat

Runs == Starts \cup {Past}

VARIABLES
    lock,        \* runtime.lock
    tombs,       \* runtime.lock.<runId>.retired
    pc,          \* the next call of each run
    seen,        \* the run whose lease it would remove
    writing,     \* what it writes its identity for
    attempts,
    dead,        \* runs without a process
    crashes

leaseVars == <<lock, tombs, pc, seen, writing, attempts, dead, crashes>>

(* A directory: the run its identity.json names, the temporary files in it.*)
Dir(there, owner, files) == [there |-> there, owner |-> owner, files |-> files]
NoDir == Dir(FALSE, None, {})
NewDir == Dir(TRUE, None, {})

(* A directory can be renamed onto a path that is free or an empty one. *)
Replaceable(dir) == dir.owner = None /\ dir.files = {}

(* A first start, or one after a run that left its lease. *)
LeaseInit ==
    /\ lock \in {NoDir, Dir(TRUE, Past, {})}
    /\ tombs = [r \in Runs |-> NoDir]
    /\ pc = [r \in Starts |-> "mkdir"]
    /\ seen = [r \in Starts |-> None]
    /\ writing = [r \in Starts |-> "lease"]
    /\ attempts = [r \in Starts |-> 0]
    /\ dead = {Past}
    /\ crashes = 0

At(r, label) == r \notin dead /\ pc[r] = label
Goto(r, label) == pc' = [pc EXCEPT ![r] = label]

-----------------------------------------------------------------------------
(* acquireRuntimeLease                                                     *)

(* The next attempt, if there is one. *)
Retry(r) ==
    /\ attempts' = [attempts EXCEPT ![r] = @ + 1]
    /\ Goto(r, IF attempts[r] + 1 < MaxAttempts THEN "mkdir" ELSE "refused")

MakeLock(r) ==
    /\ At(r, "mkdir")
    /\ IF lock.there
       THEN Goto(r, "read") /\ UNCHANGED lock
       ELSE Goto(r, "temp") /\ lock' = NewDir
    /\ UNCHANGED <<tombs, seen, writing, attempts, dead, crashes>>

(* Without an identity to read the run waits a little and tries again. *)
ReadOwner(r) ==
    /\ At(r, "read")
    /\ IF lock.owner = None
       THEN Retry(r) /\ UNCHANGED seen
       ELSE /\ seen' = [seen EXCEPT ![r] = lock.owner]
            /\ Goto(r, "classify")
            /\ UNCHANGED attempts
    /\ UNCHANGED <<lock, tombs, writing, dead, crashes>>

(* A live owner is left alone, whether or not it answers the challenge. *)
Classify(r) ==
    /\ At(r, "classify")
    /\ Goto(r, IF seen[r] \in dead THEN "verify" ELSE "refused")
    /\ UNCHANGED <<lock, tombs, seen, writing, attempts, dead, crashes>>

-----------------------------------------------------------------------------
(* removeLeaseIfRunId: of a dead owner, or of the run itself               *)

Leaving(r) == seen[r] = r

Removed(r) ==
    IF Leaving(r)
    THEN Goto(r, "ended") /\ UNCHANGED attempts
    ELSE Retry(r)

(* Fault: what was moved is not looked at. *)
MovedAny(dir, id) == dir.there

Moved(dir, id) == dir.owner = id

Verify(r) ==
    /\ At(r, "verify")
    /\ IF lock.owner = seen[r]
       THEN Goto(r, "bury") /\ UNCHANGED attempts
       ELSE Removed(r)
    /\ UNCHANGED <<lock, tombs, seen, writing, dead, crashes>>

(* The rename takes whatever is at the path by now. *)
Bury(r) ==
    /\ At(r, "bury")
    /\ IF lock.there /\ Replaceable(tombs[seen[r]])
       THEN /\ tombs' = [tombs EXCEPT ![seen[r]] = lock]
            /\ lock' = NoDir
            /\ Goto(r, "check")
            /\ UNCHANGED attempts
       ELSE Removed(r) /\ UNCHANGED <<lock, tombs>>
    /\ UNCHANGED <<seen, writing, dead, crashes>>

Check(r) ==
    /\ At(r, "check")
    /\ IF Moved(tombs[seen[r]], seen[r])
       THEN Removed(r) /\ tombs' = [tombs EXCEPT ![seen[r]] = NoDir]
       ELSE Goto(r, "putback") /\ UNCHANGED <<tombs, attempts>>
    /\ UNCHANGED <<lock, seen, writing, dead, crashes>>

(* Fault: a directory moved by mistake stays aside. *)
PutBackNever(r) ==
    /\ At(r, "putback")
    /\ Removed(r)
    /\ UNCHANGED <<lock, tombs, seen, writing, dead, crashes>>

PutBack(r) ==
    /\ At(r, "putback")
    /\ IF Replaceable(lock)
       THEN lock' = tombs[seen[r]] /\ tombs' = [tombs EXCEPT ![seen[r]] = NoDir]
       ELSE UNCHANGED <<lock, tombs>>
    /\ Removed(r)
    /\ UNCHANGED <<seen, writing, dead, crashes>>

-----------------------------------------------------------------------------
(* writeIdentity: a temporary file in the directory, renamed over the      *)
(* identity.  A new lease that cannot be written is removed, whoever's it  *)
(* is by then; a hold that cannot be rewritten ends the start.             *)

Purposes == {"lease", "stamp", "endpoint"}

Unwritten(r) == Goto(r, IF writing[r] = "lease" THEN "wipe" ELSE "leave")

(* What follows the write: the hold, the claim of the partition, the work. *)
Written(r) ==
    Goto(r, CASE writing[r] = "lease" -> "hold"
              [] writing[r] = "stamp" -> "inspect"
              [] OTHER -> "serve")

WriteTemp(r) ==
    /\ At(r, "temp")
    /\ IF lock.there
       THEN lock' = [lock EXCEPT !.files = @ \cup {r}] /\ Goto(r, "rename")
       ELSE Unwritten(r) /\ UNCHANGED lock
    /\ UNCHANGED <<tombs, seen, writing, attempts, dead, crashes>>

Rename(r) ==
    /\ At(r, "rename")
    /\ IF r \in lock.files
       THEN lock' = Dir(TRUE, r, lock.files \ {r}) /\ Written(r)
       ELSE Unwritten(r) /\ UNCHANGED lock
    /\ UNCHANGED <<tombs, seen, writing, attempts, dead, crashes>>

Wipe(r) ==
    /\ At(r, "wipe")
    /\ lock' = NoDir
    /\ Goto(r, "refused")
    /\ UNCHANGED <<tombs, seen, writing, attempts, dead, crashes>>

-----------------------------------------------------------------------------
(* The hold: publishControlEndpoint, refreshContextStamp and release       *)

Rewrite(r, purpose) ==
    /\ IF lock.owner = r
       THEN Goto(r, "temp") /\ writing' = [writing EXCEPT ![r] = purpose]
       ELSE Goto(r, "leave") /\ UNCHANGED writing
    /\ UNCHANGED <<lock, tombs, seen, attempts, dead, crashes>>

Release(r) ==
    /\ At(r, "release")
    /\ seen' = [seen EXCEPT ![r] = r]
    /\ Goto(r, "verify")
    /\ UNCHANGED <<lock, tombs, writing, attempts, dead, crashes>>

-----------------------------------------------------------------------------
(* The end of a process, in order or not                                   *)

Exit(r) ==
    /\ pc[r] \in {"refused", "ended"} /\ r \notin dead
    /\ dead' = dead \cup {r}
    /\ UNCHANGED <<lock, tombs, pc, seen, writing, attempts, crashes>>

(* A kill, or a stop that could not flush its session and keeps the lease. *)
Crash(r) ==
    /\ pc[r] \notin {"refused", "ended"} /\ r \notin dead
    /\ crashes < MaxCrashes
    /\ dead' = dead \cup {r} /\ crashes' = crashes + 1
    /\ UNCHANGED <<lock, tombs, pc, seen, writing, attempts>>

LeaseNext(r) ==
    \/ MakeLock(r) \/ ReadOwner(r) \/ Classify(r)
    \/ Verify(r) \/ Bury(r) \/ Check(r) \/ PutBack(r)
    \/ WriteTemp(r) \/ Rename(r) \/ Wipe(r)
    \/ Release(r) \/ Exit(r) \/ Crash(r)
=============================================================================
