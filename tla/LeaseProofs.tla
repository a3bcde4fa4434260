------------------------------ MODULE LeaseProofs ------------------------------
(***************************************************************************)
(* A home that started clean has one writer at a time, for every number of *)
(* runs, until a run ends without its release; any home has one at a time  *)
(* when two runs start on it, whatever ends without its release.           *)
(***************************************************************************)
EXTENDS StartProperties, TLAPS

LEMMA CleanInit == Init /\ lock = NoDir => CleanInv
  BY LeaseAssumption
  DEF Init, LeaseInit, CleanInv, CleanTyped, Undisturbed, Orderly, SomeoneTook, Intact, Keeps,
      Took, Keeping, Holding, Labels, Purposes, Dirs, NoDir, Dir, Runs, Leaving

(* A step of a run that takes no directory, or keeps the one it took,      *)
(* changes nothing else that the invariant speaks of.                      *)
LEMMA Elsewhere ==
  ASSUME CleanInv, NEW r \in Starts, NEW label \in Labels, r \notin dead,
         Goto(r, label), UNCHANGED <<lock, tombs, dead>>,
         partition' \in Runs \cup {None},
         seen' \in [Starts -> Runs \cup {None}], writing' \in [Starts -> Purposes],
         \A s \in Starts \ {r} : seen'[s] = seen[s] /\ writing'[s] = writing[s],
         pc[r] # "check", Keeps(r) <=> Keeps(r)', Took(r) => Took(r)',
         Took(r) \/ writing'[r] = writing[r],
         pc[r] # "mkdir" \/ lock.there, Keeps(r)' => Intact(r)',
         label \notin {"putback", "wipe", "check"},
         label = "bury" => Leaving(r)', label = "verify" => Leaving(r)' \/ seen'[r] \in dead
  PROVE  CleanInv'
  <1> USE DEF CleanInv, Goto, Leaving
  <1>1. CleanTyped'
    BY DEF CleanTyped
  <1>2. pc'[r] = label /\ \A s \in Starts \ {r} : pc'[s] = pc[s]
    BY DEF CleanTyped
  <1>3. \A s \in Starts : Keeps(s) <=> Keeps(s)'
    BY <1>2 DEF Keeps
  <1>4. Undisturbed'
    <2>1. \A s \in Starts \ {r} : Keeps(s)' => Intact(s)'
      BY <1>2, <1>3 DEF Undisturbed, Intact
    <2> QED
      BY <2>1, <1>3 DEF Undisturbed
  <1>5. Orderly'
    BY <1>2 DEF Orderly, Took, Keeps
  <1>6. SomeoneTook'
    BY <1>2 DEF SomeoneTook, Took, Keeps
  <1> QED
    BY <1>1, <1>4, <1>5, <1>6

(* The looks at the lease and at its owner. *)
LEMMA AskKeeps ==
  ASSUME CleanInv, NEW r \in Starts,
         (MakeLock(r) /\ lock.there) \/ ReadOwner(r) \/ Classify(r) \/ Verify(r),
         UNCHANGED partition
  PROVE  CleanInv'
  <1> USE DEF CleanInv, CleanTyped, At
  <1>1. CASE MakeLock(r) /\ lock.there
    BY <1>1, Elsewhere DEF MakeLock, Keeps, Took, Keeping, Holding, Labels, Leaving, Goto
  <1>2. CASE ReadOwner(r)
    <2>1. lock.owner \in Runs \cup {None} /\ lock.owner # r
      BY <1>2, LeaseAssumption DEF ReadOwner, Dirs, Undisturbed, Keeps, Keeping, Holding, Leaving
    <2>2. CASE lock.owner = None
      BY <1>2, <2>2, Elsewhere
      DEF ReadOwner, Retry, Keeps, Took, Keeping, Holding, Labels, Leaving, Goto
    <2>3. CASE lock.owner # None
      BY <1>2, <2>1, <2>3, Elsewhere
      DEF ReadOwner, Keeps, Took, Keeping, Holding, Labels, Leaving, Goto
    <2> QED
      BY <2>2, <2>3
  <1>3. CASE Classify(r)
    BY <1>3, Elsewhere DEF Classify, Keeps, Took, Keeping, Holding, Labels, Leaving, Goto
  <1>4. CASE Verify(r)
    <2>1. CASE Leaving(r)
      <3>1. Keeps(r) /\ Intact(r) /\ lock.owner = seen[r]
        BY <1>4, <2>1 DEF Verify, Keeps, Leaving, Undisturbed, Intact
      <3> QED
        BY <1>4, <2>1, <3>1, Elsewhere
        DEF Verify, Keeps, Took, Keeping, Holding, Labels, Leaving, Goto, Intact
    <2>2. CASE ~Leaving(r)
      <3>1. lock.owner # seen[r]
        BY <1>4, <2>2, LeaseAssumption
        DEF Verify, Orderly, Undisturbed, Keeps, Keeping, Holding, Leaving, Runs
      <3> QED
        BY <1>4, <2>2, <3>1, Elsewhere
        DEF Verify, Removed, Retry, Keeps, Took, Keeping, Holding, Labels, Leaving, Goto
    <2> QED
      BY <2>1, <2>2
  <1> QED
    BY <1>1, <1>2, <1>3, <1>4

(* The work of a run that holds the lease. *)
LEMMA WorkKeeps ==
  ASSUME CleanInv, NEW r \in Starts, StartNext(r) \/ (Release(r) /\ UNCHANGED partition)
  PROVE  CleanInv'
  <1> USE DEF CleanInv, CleanTyped, At, Goto, Leaving
  <1>1. pc[r] \in Holding \cup {"release"} /\ r \notin dead
    BY DEF StartNext, Release, Inspect, Evict, Evicting, Publish, Leave, Unclaim, Stamp, ClaimHome,
           Command, Boot, Announce, Stop, Holding
  <1>2. Keeps(r) /\ Intact(r) /\ lock.there /\ lock.owner = r
    BY <1>1 DEF Undisturbed, Keeps, Keeping, Intact, Holding
  <1>3. \E label \in Holding \cup {"release", "temp", "verify"} : Goto(r, label)
    <2>1. CASE Stamp(r) \/ Announce(r)
      BY <2>1, <1>2 DEF Stamp, Announce, Rewrite
    <2>2. CASE Boot(r)
      BY <2>2 DEF Boot, Holding
    <2> QED
      BY <2>1, <2>2
      DEF StartNext, Release, Inspect, Evict, Evicting, Publish, Leave, Unclaim, ClaimHome, Command,
          Stop, Holding
  <1>4. PICK label \in Holding \cup {"release", "temp", "verify"} : Goto(r, label)
    BY <1>3
  <1>5. label = "verify" => seen'[r] = r
    BY <1>4 DEF StartNext, Release, Inspect, Evict, Evicting, Publish, Leave, Unclaim, ClaimHome,
           Command, Stop, Stamp, Announce, Rewrite, Boot, Holding, Labels
  <1>6. label = "temp" => writing'[r] # "lease"
    BY <1>4 DEF StartNext, Release, Inspect, Evict, Evicting, Publish, Leave, Unclaim, ClaimHome,
           Command, Stop, Stamp, Announce, Rewrite, Boot, Holding, Labels, Purposes
  <1>7. /\ UNCHANGED <<lock, tombs, dead>>
        /\ seen' \in [Starts -> Runs \cup {None}] /\ writing' \in [Starts -> Purposes]
        /\ \A s \in Starts \ {r} : seen'[s] = seen[s] /\ writing'[s] = writing[s]
        /\ partition' \in Runs \cup {None}
    BY DEF StartNext, Release, Inspect, Evict, Evicting, Publish, Leave, Unclaim, ClaimHome,
           Command, Stop, Stamp, Announce, Rewrite, Boot, Purposes, Runs
  <1>8. pc'[r] = label /\ label \in Labels
    BY <1>4 DEF Labels, Holding
  <1>9. Keeps(r)' /\ Took(r) /\ Took(r)'
    BY <1>2, <1>5, <1>8 DEF Keeps, Keeping, Took
  <1>10. Intact(r)'
    BY <1>2, <1>5, <1>6, <1>7, <1>8 DEF Intact, Holding
  <1>11. pc[r] # "check" /\ pc[r] # "mkdir"
    BY <1>1 DEF Holding
  <1>12. /\ label \notin {"putback", "wipe", "check", "bury"}
         /\ label = "verify" => Leaving(r)'
    BY <1>4, <1>5 DEF Holding
  <1> HIDE DEF CleanInv, CleanTyped, At, Leaving
  <1> QED
    BY <1>1, <1>2, <1>4, <1>7, <1>8, <1>9, <1>10, <1>11, <1>12, Elsewhere

(* The directory is made: nobody kept one, so it is the run's alone. *)
LEMMA MakeKeeps ==
  ASSUME CleanInv, NEW r \in Starts, MakeLock(r), ~lock.there, UNCHANGED partition
  PROVE  CleanInv'
  <1> USE DEF CleanInv
  <1>1. /\ pc' = [pc EXCEPT ![r] = "temp"] /\ pc[r] = "mkdir" /\ r \notin dead
        /\ lock' = NewDir /\ UNCHANGED <<tombs, seen, writing, dead, partition>>
    BY DEF MakeLock, At, Goto
  <1>2. CleanTyped'
    BY <1>1 DEF CleanTyped, Labels, NewDir, Dir, Dirs
  <1>3. \A s \in Starts : ~Keeps(s)
    BY DEF Undisturbed, Intact
  <1>4. pc'[r] = "temp" /\ \A s \in Starts \ {r} : pc'[s] = pc[s]
    BY <1>1 DEF CleanTyped
  <1>5. \A s \in Starts : Keeps(s)' => s = r
    BY <1>1, <1>3, <1>4 DEF Keeps, Leaving
  <1>6. Undisturbed'
    <2>1. Intact(r)'
      BY <1>1, <1>4 DEF Orderly, Took, Keeps, Keeping, Holding, Leaving, Intact, NewDir, Dir
    <2> QED
      BY <2>1, <1>1, <1>5 DEF Undisturbed, NewDir, Dir
  <1>7. Orderly'
    BY <1>1, <1>4 DEF Orderly, Took, Keeps, Keeping, Leaving
  <1>8. SomeoneTook'
    BY <1>4 DEF SomeoneTook, Took, Keeps, Keeping
  <1> QED
    BY <1>2, <1>6, <1>7, <1>8

(* The write of the identity finds the directory the run made. *)
LEMMA WriteKeeps ==
  ASSUME CleanInv, NEW r \in Starts, WriteTemp(r) \/ Rename(r), UNCHANGED partition
  PROVE  CleanInv'
  <1> USE DEF CleanInv
  <1>1. Keeps(r) /\ Intact(r)
    BY DEF WriteTemp, Rename, At, Keeps, Keeping, Undisturbed
  <1>2. /\ r \notin dead /\ UNCHANGED <<tombs, seen, writing, dead, partition>>
        /\ pc[r] \in {"temp", "rename"} /\ lock.there
    BY <1>1 DEF WriteTemp, Rename, At, Intact
  <1>3. CASE WriteTemp(r)
    <2>1. lock' = [lock EXCEPT !.files = @ \cup {r}] /\ pc' = [pc EXCEPT ![r] = "rename"]
      BY <1>2, <1>3 DEF WriteTemp, Goto
    <2>2. /\ lock' \in Dirs /\ lock'.there /\ lock'.owner = lock.owner /\ r \in lock'.files
      BY <1>2, <2>1 DEF CleanTyped, Dirs
    <2>3. pc'[r] = "rename" /\ \A s \in Starts \ {r} : pc'[s] = pc[s]
      BY <2>1 DEF CleanTyped
    <2>4. \A s \in Starts : Keeps(s)' <=> Keeps(s)
      BY <1>1, <1>2, <2>3 DEF Keeps, Leaving, Keeping
    <2>5. CleanTyped'
      BY <1>2, <2>1, <2>2 DEF CleanTyped, Labels
    <2>6. pc[r] = "temp"
      BY <1>3 DEF WriteTemp, At
    <2>7. Intact(r)'
      BY <1>1, <1>2, <2>2, <2>3, <2>6 DEF Intact
    <2>8. Undisturbed'
      BY <1>1, <2>2, <2>4, <2>7 DEF Undisturbed
    <2>9. Orderly'
      BY <1>2, <2>3, <2>4 DEF Orderly, Took, Leaving
    <2>10. SomeoneTook'
      BY <1>1, <2>4 DEF SomeoneTook, Took
    <2> QED
      BY <2>5, <2>8, <2>9, <2>10
  <1>4. CASE Rename(r)
    <2>1. pc[r] = "rename" /\ r \in lock.files
      BY <1>1, <1>4 DEF Rename, At, Intact
    <2>2. lock' = Dir(TRUE, r, lock.files \ {r}) /\ Written(r)
      BY <1>4, <2>1 DEF Rename
    <2>3. \E label \in {"hold", "inspect", "serve"} : pc' = [pc EXCEPT ![r] = label]
      BY <2>2 DEF Written, Goto
    <2>4. PICK label \in {"hold", "inspect", "serve"} : pc' = [pc EXCEPT ![r] = label]
      BY <2>3
    <2>5. /\ lock' \in Dirs /\ lock'.there /\ lock'.owner = r
      BY <2>2 DEF CleanTyped, Dirs, Dir, Runs
    <2>6. pc'[r] = label /\ \A s \in Starts \ {r} : pc'[s] = pc[s]
      BY <2>4 DEF CleanTyped
    <2>7. \A s \in Starts : Keeps(s)' <=> Keeps(s)
      BY <1>1, <1>2, <2>6 DEF Keeps, Leaving, Keeping, Holding
    <2>8. CleanTyped'
      BY <1>2, <2>4, <2>5 DEF CleanTyped, Labels, Holding
    <2>9. Intact(r)'
      BY <2>5, <2>6 DEF Intact
    <2>10. Undisturbed'
      BY <1>1, <2>5, <2>7, <2>9 DEF Undisturbed
    <2>11. Orderly'
      BY <1>2, <2>6, <2>7 DEF Orderly, Took, Leaving
    <2>12. SomeoneTook'
      BY <1>1, <2>7 DEF SomeoneTook, Took
    <2> QED
      BY <2>8, <2>10, <2>11, <2>12
  <1> QED
    BY <1>3, <1>4

(* The directory leaves the path with the identity of the run that leaves, *)
(* and is removed.                                                         *)
LEMMA RemoveKeeps ==
  ASSUME CleanInv, NEW r \in Starts, Bury(r) \/ Check(r), UNCHANGED partition
  PROVE  CleanInv'
  <1> USE DEF CleanInv
  <1>1. /\ r \notin dead /\ Leaving(r) /\ UNCHANGED <<seen, writing, dead, partition>>
        /\ pc[r] \in {"bury", "check"}
    BY DEF Bury, Check, At, Orderly
  <1>2. CASE Bury(r)
    <2>1. Keeps(r) /\ Intact(r) /\ lock.there /\ lock.owner = r
      BY <1>1, <1>2 DEF Bury, At, Keeps, Undisturbed, Intact
    <2>2. tombs[r] = NoDir
      BY <1>2 DEF Orderly, Bury, At
    <2>3. /\ tombs' = [tombs EXCEPT ![r] = lock] /\ lock' = NoDir
          /\ pc' = [pc EXCEPT ![r] = "check"]
      BY <1>1, <1>2, <2>1, <2>2 DEF Bury, Replaceable, NoDir, Dir, Leaving, Goto
    <2>4. /\ pc'[r] = "check" /\ tombs'[r].owner = r
          /\ \A s \in Starts \ {r} : pc'[s] = pc[s] /\ tombs'[s] = tombs[s]
      BY <2>1, <2>3 DEF CleanTyped, Runs
    <2>5. \A s \in Starts : ~Keeps(s)'
      BY <1>1, <2>1, <2>4 DEF Keeps, Leaving, Keeping, Holding, Undisturbed
    <2>6. CleanTyped'
      BY <1>1, <2>3 DEF CleanTyped, Labels, NoDir, Dir, Dirs, Runs
    <2>7. Undisturbed'
      BY <2>3, <2>5 DEF Undisturbed, NoDir, Dir
    <2>8. Orderly'
      BY <1>1, <2>4 DEF Orderly, Took, Leaving, Keeps
    <2>9. SomeoneTook'
      BY <2>4 DEF SomeoneTook, Took
    <2> QED
      BY <2>6, <2>7, <2>8, <2>9
  <1>3. CASE Check(r)
    <2>1. tombs[r].owner = r /\ seen[r] = r /\ pc[r] = "check"
      BY <1>1, <1>3 DEF Orderly, Check, At, Leaving
    <2>2. /\ tombs' = [tombs EXCEPT ![r] = NoDir] /\ UNCHANGED lock
          /\ pc' = [pc EXCEPT ![r] = "ended"]
      BY <1>3, <2>1 DEF Check, Moved, Removed, Leaving, Goto
    <2>3. /\ pc'[r] = "ended" /\ tombs'[r] = NoDir
          /\ \A s \in Starts \ {r} : pc'[s] = pc[s] /\ tombs'[s] = tombs[s]
      BY <2>2 DEF CleanTyped, Runs
    <2>4. \A s \in Starts : Keeps(s)' <=> Keeps(s)
      BY <1>1, <2>1, <2>3 DEF Keeps, Leaving, Keeping, Holding
    <2>5. CleanTyped'
      BY <1>1, <2>2 DEF CleanTyped, Labels, NoDir, Dir, Dirs, Runs
    <2>6. Undisturbed'
      BY <1>1, <2>1, <2>2, <2>3, <2>4 DEF Undisturbed, Intact, Keeps, Keeping, Holding
    <2>7. Orderly'
      BY <1>1, <2>3, <2>4 DEF Orderly, Took, Leaving
    <2>8. SomeoneTook'
      BY <2>3 DEF SomeoneTook, Took
    <2> QED
      BY <2>5, <2>6, <2>7, <2>8
  <1> QED
    BY <1>2, <1>3

LEMMA ExitKeeps ==
  ASSUME CleanInv, NEW r \in Starts, Exit(r), UNCHANGED partition
  PROVE  CleanInv'
  <1> USE DEF CleanInv
  <1>1. /\ pc[r] \in {"refused", "ended"} /\ dead' = dead \cup {r}
        /\ UNCHANGED <<lock, tombs, pc, seen, writing, partition>>
    BY DEF Exit
  <1>2. CleanTyped' /\ Undisturbed' /\ SomeoneTook'
    BY <1>1 DEF CleanTyped, Runs, Undisturbed, Intact, Keeps, Leaving, SomeoneTook, Took
  <1>3. Orderly'
    BY <1>1 DEF Orderly, Took, Keeps, Leaving
  <1> QED
    BY <1>2, <1>3

(* Only a crash counts. *)
LEMMA Uncounted ==
  ASSUME NEW r \in Starts, StartNext(r) \/ LeaseNext(r)
  PROVE  crashes' = crashes \/ Crash(r)
  <1>1. CASE StartNext(r)
    BY <1>1 DEF StartNext, Inspect, Evict, Evicting, Publish, Leave, Unclaim, Stamp, ClaimHome,
                Command, Boot, Announce, Stop, Rewrite
  <1>2. CASE LeaseNext(r)
    BY <1>2 DEF LeaseNext, MakeLock, ReadOwner, Classify, Verify, Bury, Check, PutBack, WriteTemp,
                Rename, Wipe, Release, Exit
  <1> QED
    BY <1>1, <1>2

UntilCrash == crashes \in Nat /\ (crashes = 0 => CleanInv)

LEMMA CleanNext == UntilCrash /\ [Next]_vars => UntilCrash'
  <1> SUFFICES ASSUME UntilCrash, [Next]_vars PROVE UntilCrash'
    OBVIOUS
  <1>0. crashes' \in Nat
    BY Uncounted DEF UntilCrash, Next, vars, leaseVars, Crash
  <1> SUFFICES ASSUME crashes' = 0 PROVE CleanInv'
    BY <1>0 DEF UntilCrash
  <1>1. CASE UNCHANGED vars
    BY <1>1 DEF UntilCrash, vars, leaseVars, CleanInv, CleanTyped, Undisturbed, Intact, Orderly, SomeoneTook,
                Took, Keeps, Leaving
  <1>2. CASE Next
    <2>1. PICK r \in Starts : StartNext(r) \/ (LeaseNext(r) /\ UNCHANGED partition)
      BY <1>2 DEF Next
    <2>2. CASE StartNext(r)
      <3>1. crashes = 0
        BY <2>2, Uncounted DEF UntilCrash, Crash
      <3> QED
        BY <2>2, <3>1, WorkKeeps DEF UntilCrash
    <2>3. CASE LeaseNext(r) /\ UNCHANGED partition
      <3>1. crashes = 0 /\ ~Crash(r)
        BY <2>3, Uncounted DEF UntilCrash, Crash
      <3>2. ~PutBack(r) /\ ~Wipe(r)
        BY <3>1 DEF UntilCrash, PutBack, Wipe, At, CleanInv, Orderly
      <3> QED
        BY <2>3, <3>1, <3>2, AskKeeps, WorkKeeps, MakeKeeps, WriteKeeps, RemoveKeeps, ExitKeeps
        DEF LeaseNext, UntilCrash
    <2> QED
      BY <2>1, <2>2, <2>3
  <1> QED
    BY <1>1, <1>2

(* A home that started clean: the directory of the lease belongs to one    *)
(* run from its mkdir to its removal, and one of the runs is not turned    *)
(* away, however many start and in whatever order their calls fall.        *)
THEOREM CleanHome == Spec => CleanStart
  <1>1. Init /\ lock = NoDir => UntilCrash
    BY CleanInit DEF UntilCrash, Init, LeaseInit
  <1>2. CleanInv => Answered
    BY LeaseAssumption DEF CleanInv, SomeoneTook, Took, Keeps, Keeping, Holding, Answered
  <1>3. UntilCrash => (crashes = 0 => Undisturbed /\ Answered)
    BY <1>2 DEF UntilCrash, CleanInv
  <1> QED
    BY <1>1, <1>3, CleanNext, PTL DEF Spec, CleanStart

(* The home then has at most one run that holds its lease. *)
THEOREM CleanHomeOneWriter == Spec => (lock = NoDir => [](crashes = 0 => SingleWriter))
  <1>1. Undisturbed => SingleWriter
    BY DEF Undisturbed, SingleWriter, Holds, Keeps, Keeping
  <1> QED
    BY <1>1, CleanHome, PTL DEF CleanStart

-----------------------------------------------------------------------------
(* Two runs on any home                                                    *)

(* A run before its own mkdir, and one that has taken the directory of     *)
(* another away to look at it. *)
Early(r) == pc[r] \in {"mkdir", "read", "classify"} \/ (pc[r] \in {"verify", "bury"} /\ ~Leaving(r))
Moving(r) == pc[r] \in {"check", "putback"} /\ ~Leaving(r)

(* A run from its mkdir to the end of its own release. *)
Making(r) == pc[r] \in {"temp", "rename"} /\ writing[r] = "lease"
Owns(r) == r \notin dead /\ Keeps(r)

Its(dir, r) ==
    /\ dir.there
    /\ dir.owner = IF Making(r) THEN None ELSE r
    /\ pc[r] = "rename" => r \in dir.files

(* The directory of a run is at the path or with the one run that took it  *)
(* away, and then nothing is at the path.                                  *)
Away(r, o) == Moving(o) /\ ~lock.there /\ Its(tombs[seen[o]], r)
InPlace(r) == Its(lock, r) \/ \E o \in Starts \ {r} : Away(r, o)

(* A run that could not write its identity removes a directory nobody has. *)
Wiping(r) == r \notin dead /\ pc[r] = "wipe"
Unowned(r) ==
    \/ \E o \in Starts \ {r} : Moving(o) /\ ~lock.there /\ tombs[seen[o]].there /\ tombs[seen[o]].owner = None
    \/ lock.there /\ lock.owner = None /\ \A o \in Starts \ {r} : ~Owns(o) /\ ~Wiping(o)

(* What a run moved is of the dead run it meant, or the other run is past  *)
(* its own mkdir and can make no other directory. *)
Meant(o) == pc[o] = "check" /\ tombs[seen[o]].owner = seen[o]
Answerable(o) ==
    \/ Meant(o)
    \/ ~lock.there /\ \A r \in Starts \ {o} : r \in dead \/ ~Early(r)

(* A run that has seen a dead owner twice. *)
Sure(r) == r \notin dead /\ pc[r] = "bury" /\ ~Leaving(r)

Unknown(r) ==
    /\ lock.owner # r /\ \A x \in Runs : tombs[x].owner # r
    /\ seen[r] # r /\ writing[r] = "lease"

PairInv ==
    /\ CleanTyped /\ Past \in dead
    /\ ~lock.there => lock = NoDir
    /\ \A x \in Runs : ~tombs[x].there => tombs[x] = NoDir
    /\ \A r \in Starts :
          /\ Owns(r) => InPlace(r)
          /\ Wiping(r) => Unowned(r)
          /\ Early(r) \/ Moving(r) => Unknown(r)
          /\ pc[r] = "classify" => seen[r] # None
          /\ pc[r] \in {"verify", "bury", "check", "putback"} => Leaving(r) \/ seen[r] \in dead
          /\ pc[r] = "putback" => ~Leaving(r)
          /\ pc[r] = "check" /\ Leaving(r) /\ r \notin dead => tombs[r].owner = r
          /\ Moving(r) => Answerable(r)
    /\ \A r, o \in Starts : r # o =>
          /\ ~(Owns(r) /\ Owns(o))
          /\ ~(Moving(r) /\ Moving(o))
          /\ Moving(o) /\ Early(r) /\ r \notin dead => ~lock.there
          /\ Sure(r) /\ Early(o) /\ o \notin dead /\ lock.there => lock.owner = seen[r]

AtMostTwo == \A r, s, t \in Starts : r = s \/ s = t \/ r = t

LEMMA PairInit == Init => PairInv
  <1> SUFFICES ASSUME Init PROVE PairInv
    OBVIOUS
  <1>1. /\ CleanTyped /\ Past \in dead /\ (~lock.there => lock = NoDir)
        /\ \A x \in Runs : ~tombs[x].there => tombs[x] = NoDir
    <2>1. NoDir \in Dirs /\ Dir(TRUE, Past, {}) \in Dirs /\ Past \in Runs /\ Dir(TRUE, Past, {}).there
      BY DEF NoDir, Dir, Dirs, Runs
    <2> QED
      BY <2>1 DEF Init, LeaseInit, CleanTyped, Labels, Purposes
  <1>2. /\ \A r \in Starts : pc[r] = "mkdir" /\ seen[r] = None /\ writing[r] = "lease" /\ lock.owner # r
        /\ \A x \in Runs : tombs[x].owner = None
    BY LeaseAssumption DEF Init, LeaseInit, NoDir, Dir, Runs
  <1>3. \A r \in Starts : ~Owns(r) /\ ~Wiping(r) /\ ~Moving(r) /\ Unknown(r)
    BY <1>2, LeaseAssumption DEF Owns, Keeps, Keeping, Holding, Wiping, Moving, Unknown
  <1> QED
    BY <1>1, <1>2, <1>3 DEF PairInv, Sure

(* A step of a run that leaves the directories where they are, and the run *)
(* on its side of its own mkdir. *)
LEMMA Quiet ==
  ASSUME PairInv, NEW r \in Starts, NEW label \in Labels, Goto(r, label),
         UNCHANGED <<lock, tombs, dead>>, r \notin dead, partition' \in Runs \cup {None},
         seen' \in [Starts -> Runs \cup {None}], writing' \in [Starts -> Purposes],
         \A s \in Starts \ {r} : seen'[s] = seen[s] /\ writing'[s] = writing[s],
         ~Moving(r), label \notin {"check", "putback", "wipe"},
         Owns(r)' => Owns(r), Owns(r)' => \A dir \in Dirs : Its(dir, r) => Its(dir, r)',
         Early(r)' => Early(r) /\ seen'[r] # r /\ writing'[r] = "lease",
         label = "classify" => seen'[r] # None,
         label \in {"verify", "bury"} => seen'[r] = r \/ seen'[r] \in dead,
         label = "bury" /\ seen'[r] # r /\ lock.there => lock.owner = seen'[r]
  PROVE  PairInv'
  <1>1. pc'[r] = label /\ \A s \in Starts \ {r} : pc'[s] = pc[s]
    BY DEF PairInv, CleanTyped, Goto
  <1>2. /\ CleanTyped' /\ (Past \in dead)' /\ (~lock.there => lock = NoDir)'
        /\ (\A x \in Runs : ~tombs[x].there => tombs[x] = NoDir)'
    BY DEF PairInv, CleanTyped, Goto
  <1>3. ~Moving(r)' /\ ~Wiping(r)'
    BY <1>1 DEF Moving, Wiping
  <1>4. \A s \in Starts \ {r} : /\ Owns(s)' <=> Owns(s)
                                /\ Wiping(s)' <=> Wiping(s)
                                /\ Early(s)' <=> Early(s)
                                /\ Moving(s)' <=> Moving(s)
                                /\ Leaving(s)' <=> Leaving(s)
                                /\ Meant(s)' <=> Meant(s)
                                /\ Unknown(s) => Unknown(s)'
                                /\ \A dir \in Dirs : Its(dir, s) <=> Its(dir, s)'
    BY <1>1 DEF Owns, Keeps, Wiping, Early, Moving, Leaving, Meant, Unknown, Its, Making
  <1>5. lock \in Dirs /\ \A s \in Starts : tombs[s] \in Dirs
    BY DEF PairInv, CleanTyped, Runs
  <1>6. \A s \in Starts : Moving(s) => seen[s] \in Runs /\ tombs[seen[s]] \in Dirs
    BY DEF PairInv, CleanTyped, Moving, Runs
  <1>7. \A s \in Starts : Owns(s)' => InPlace(s)'
    <2> SUFFICES ASSUME NEW s \in Starts, Owns(s)' PROVE InPlace(s)'
      OBVIOUS
    <2>1. Owns(s) /\ InPlace(s)
      BY <1>4 DEF PairInv
    <2>2. CASE Its(lock, s)
      BY <1>4, <1>5, <2>2 DEF InPlace
    <2>3. ASSUME NEW o \in Starts \ {s}, Away(s, o) PROVE InPlace(s)'
      <3>1. o # r /\ Moving(o)' /\ seen'[o] = seen[o]
        BY <1>4, <2>3 DEF Away
      <3>2. Its(tombs[seen[o]], s)'
        BY <1>4, <1>6, <2>3, <3>1 DEF Away, Its, Making
      <3> QED
        BY <2>3, <3>1, <3>2 DEF Away, InPlace
    <2> QED
      BY <2>1, <2>2, <2>3 DEF InPlace
  <1>8. \A s \in Starts : Wiping(s)' => Unowned(s)'
    <2> SUFFICES ASSUME NEW s \in Starts, Wiping(s)' PROVE Unowned(s)'
      OBVIOUS
    <2>1. s # r /\ Unowned(s)
      BY <1>3, <1>4 DEF PairInv
    <2> QED
      BY <1>3, <1>4, <2>1 DEF Unowned
  <1>9. \A s \in Starts : Early(s)' \/ Moving(s)' => Unknown(s)'
    BY <1>3, <1>4 DEF PairInv, Unknown
  <1>10. \A s \in Starts : Moving(s)' => Answerable(s)'
    <2>1. \A s \in Starts \ {r} : Moving(s)' => Answerable(s)
      BY <1>4 DEF PairInv
    <2> QED
      BY <1>3, <1>4, <2>1 DEF Answerable
  <1>11. \A s \in Starts :
            /\ pc'[s] = "classify" => seen'[s] # None
            /\ pc'[s] \in {"verify", "bury", "check", "putback"} => Leaving(s)' \/ seen'[s] \in dead'
            /\ pc'[s] = "putback" => ~Leaving(s)'
            /\ pc'[s] = "check" /\ Leaving(s)' /\ s \notin dead' => tombs'[s].owner = s
    BY <1>1, <1>4 DEF PairInv, Leaving
  <1>12. \A s, o \in Starts : s # o =>
            /\ ~(Owns(s) /\ Owns(o))'
            /\ ~(Moving(s) /\ Moving(o))'
            /\ (Moving(o) /\ Early(s) /\ s \notin dead => ~lock.there)'
            /\ (Sure(s) /\ Early(o) /\ o \notin dead /\ lock.there => lock.owner = seen[s])'
    BY <1>1, <1>3, <1>4 DEF PairInv, Sure, Leaving
  <1> QED
    BY <1>2, <1>7, <1>8, <1>9, <1>10, <1>11, <1>12 DEF PairInv

(* What a run sees of the other, of two. *)
LEMMA TheOther ==
  ASSUME AtMostTwo, PairInv, NEW r \in Starts, NEW o \in Starts \ {r}
  PROVE  /\ Owns(o) => Its(lock, o) \/ Away(o, r)
         /\ Wiping(o) => \/ Moving(r) /\ ~lock.there /\ tombs[seen[r]].there /\ tombs[seen[r]].owner = None
                         \/ lock.there /\ lock.owner = None /\ ~Owns(r) /\ ~Wiping(r)
         /\ \A s \in Starts : s = r \/ s = o
  BY DEF AtMostTwo, PairInv, InPlace, Unowned

LEMMA MakesPair ==
  ASSUME AtMostTwo, PairInv, NEW r \in Starts, MakeLock(r), ~lock.there, UNCHANGED partition
  PROVE  PairInv'
  <1>1. /\ pc' = [pc EXCEPT ![r] = "temp"] /\ pc[r] = "mkdir" /\ r \notin dead
        /\ lock' = NewDir /\ UNCHANGED <<tombs, seen, writing, dead, partition>>
    BY DEF MakeLock, At, Goto
  <1>2. /\ CleanTyped' /\ (Past \in dead)' /\ (~lock.there => lock = NoDir)'
        /\ (\A x \in Runs : ~tombs[x].there => tombs[x] = NoDir)'
    BY <1>1 DEF PairInv, CleanTyped, Labels, NewDir, Dir, Dirs
  <1>3. pc'[r] = "temp" /\ \A s \in Starts \ {r} : pc'[s] = pc[s]
    BY <1>1 DEF PairInv, CleanTyped
  <1>4. Early(r) /\ ~Moving(r) /\ Unknown(r)
    BY <1>1 DEF Early, Moving, PairInv
  <1>5. \A o \in Starts \ {r} : /\ ~Owns(o)' /\ ~Wiping(o)' /\ (Moving(o)' => Moving(o) /\ Meant(o) /\ Meant(o)')
                                /\ (Early(o)' => Early(o) /\ ~Moving(o)) /\ (Leaving(o)' <=> Leaving(o))
                                /\ (Unknown(o) => Unknown(o)')
    <2> SUFFICES ASSUME NEW o \in Starts \ {r}
                 PROVE  /\ ~Owns(o)' /\ ~Wiping(o)' /\ (Moving(o)' => Moving(o) /\ Meant(o) /\ Meant(o)')
                        /\ (Early(o)' => Early(o) /\ ~Moving(o)) /\ (Leaving(o)' <=> Leaving(o))
                        /\ (Unknown(o) => Unknown(o)')
      OBVIOUS
    <2>1. ~Owns(o) /\ ~Wiping(o)
      BY <1>4, TheOther DEF Its, Away
    <2>2. Moving(o) => Meant(o)
      BY <1>1, <1>4 DEF PairInv, Answerable
    <2> QED
      BY <1>1, <1>3, <2>1, <2>2, LeaseAssumption
      DEF Owns, Keeps, Leaving, Wiping, Moving, Meant, Early, Unknown, NewDir, Dir
  <1>6. ~Early(r)' /\ ~Moving(r)' /\ ~Wiping(r)' /\ InPlace(r)'
    BY <1>1, <1>3, <1>4 DEF Early, Moving, Wiping, InPlace, Its, Making, NewDir, Dir, Unknown
  <1> QED
    BY <1>1, <1>2, <1>3, <1>5, <1>6, TheOther DEF PairInv, Answerable, Leaving, Sure, Early

(* The identity of a run goes into the directory it owns. *)
LEMMA WritesPair ==
  ASSUME AtMostTwo, PairInv, NEW r \in Starts, Owns(r), lock.there, NEW label \in Labels, Goto(r, label),
         NEW dir \in Dirs, lock' = dir, Its(dir, r)', dir.owner \in {lock.owner, r}, r \notin dead,
         ~Moving(r), Owns(r)', ~Moving(r)', ~Early(r)', ~Wiping(r)',
         label \notin {"classify", "verify", "bury", "check", "putback"},
         UNCHANGED <<tombs, seen, writing, dead, partition>>
  PROVE  PairInv'
  <1>1. /\ CleanTyped' /\ (Past \in dead)' /\ (~lock.there => lock = NoDir)'
        /\ (\A x \in Runs : ~tombs[x].there => tombs[x] = NoDir)'
    BY DEF PairInv, CleanTyped, Goto, Its
  <1>2. pc'[r] = label /\ \A s \in Starts \ {r} : pc'[s] = pc[s]
    BY DEF PairInv, CleanTyped, Goto
  <1>3. \A o \in Starts \ {r} : /\ ~Owns(o)' /\ ~Wiping(o)' /\ (Moving(o)' => Moving(o) /\ Meant(o) /\ Meant(o)')
                                /\ (Early(o)' => Early(o) /\ ~Moving(o)) /\ (Leaving(o)' <=> Leaving(o))
                                /\ (Unknown(o) => Unknown(o)')
    <2> SUFFICES ASSUME NEW o \in Starts \ {r}
                 PROVE  /\ ~Owns(o)' /\ ~Wiping(o)' /\ (Moving(o)' => Moving(o) /\ Meant(o) /\ Meant(o)')
                        /\ (Early(o)' => Early(o) /\ ~Moving(o)) /\ (Leaving(o)' <=> Leaving(o))
                        /\ (Unknown(o) => Unknown(o)')
      OBVIOUS
    <2>1. ~Owns(o) /\ ~Wiping(o)
      BY TheOther DEF PairInv
    <2>2. Moving(o) => Meant(o)
      BY DEF PairInv, Answerable
    <2> QED
      BY <1>2, <2>1, <2>2 DEF Owns, Keeps, Leaving, Wiping, Moving, Meant, Early, Unknown
  <1>4. InPlace(r)'
    BY DEF InPlace
  <1> QED
    BY <1>1, <1>2, <1>3, <1>4, TheOther DEF PairInv, Answerable, Leaving, Sure, Early

(* Without its directory a run gives its new lease up, and removes what is *)
(* at the path.                                                            *)
LEMMA WipesPair ==
  ASSUME AtMostTwo, PairInv, NEW r \in Starts, Wipe(r) \/ (Owns(r) /\ Making(r) /\ ~Its(lock, r) /\ Goto(r, "wipe")),
         Goto(r, "wipe") => UNCHANGED <<lock, tombs, seen, writing, dead>>, UNCHANGED partition
  PROVE  PairInv'
  <1>0. UNCHANGED <<tombs, seen, writing, dead>> /\ r \notin dead /\ pc[r] \in {"wipe", "temp", "rename"}
    BY DEF Wipe, Owns, Making, At
  <1>1. CASE Wipe(r)
    <2>1. pc' = [pc EXCEPT ![r] = "refused"] /\ lock' = NoDir /\ Wiping(r)
      BY <1>1 DEF Wipe, At, Goto, Wiping
    <2>2. /\ CleanTyped' /\ (Past \in dead)' /\ (~lock.there => lock = NoDir)'
        /\ (\A x \in Runs : ~tombs[x].there => tombs[x] = NoDir)'
      BY <1>0, <2>1, LeaseAssumption DEF PairInv, CleanTyped, Labels, NoDir, Dir, Dirs
    <2>3. pc'[r] = "refused" /\ \A s \in Starts \ {r} : pc'[s] = pc[s]
      BY <2>1 DEF PairInv, CleanTyped
    <2>4. ~Owns(r)' /\ ~Moving(r)' /\ ~Early(r)' /\ ~Wiping(r)'
      BY <2>3 DEF Owns, Keeps, Keeping, Holding, Moving, Early, Wiping
    <2>5. \A o \in Starts \ {r} : /\ ~Owns(o)' /\ ~Wiping(o)' /\ (Moving(o)' => Moving(o))
                                  /\ (Early(o)' => Early(o) /\ ~Moving(o)) /\ (Leaving(o)' <=> Leaving(o))
                                  /\ (Unknown(o) => Unknown(o)')
      <3> SUFFICES ASSUME NEW o \in Starts \ {r}
                   PROVE  /\ ~Owns(o)' /\ ~Wiping(o)' /\ (Moving(o)' => Moving(o))
                          /\ (Early(o)' => Early(o) /\ ~Moving(o)) /\ (Leaving(o)' <=> Leaving(o))
                          /\ (Unknown(o) => Unknown(o)')
        OBVIOUS
      <3>1. Unowned(r) /\ ~Moving(r)
        BY <2>1 DEF PairInv, Wiping, Moving
      <3>2. ~Owns(o) /\ ~Wiping(o)
        BY <2>1, <3>1, TheOther DEF Unowned, Owns, Wiping, Moving, Keeps, Keeping, Holding
      <3> QED
        BY <1>0, <2>1, <2>3, <3>2, LeaseAssumption
        DEF Owns, Keeps, Leaving, Wiping, Moving, Early, Unknown, NoDir, Dir
    <2>6. ~lock'.there
      BY <2>1 DEF NoDir, Dir
    <2>7. \A o \in Starts : Moving(o)' => Answerable(o)'
      BY <1>0, <2>4, <2>5, <2>6, TheOther DEF PairInv, Answerable, Meant
    <2>8. \A o \in Starts :
            /\ Early(o)' \/ Moving(o)' => Unknown(o)'
            /\ pc'[o] = "classify" => seen'[o] # None
            /\ pc'[o] \in {"verify", "bury", "check", "putback"} => Leaving(o)' \/ seen'[o] \in dead'
            /\ pc'[o] = "putback" => ~Leaving(o)'
            /\ pc'[o] = "check" /\ Leaving(o)' /\ o \notin dead' => tombs'[o].owner = o
      BY <1>0, <2>3, <2>4, <2>5 DEF PairInv, Leaving
    <2>9. \A s, o \in Starts : s # o =>
            /\ ~(Owns(s) /\ Owns(o))'
            /\ ~(Moving(s) /\ Moving(o))'
      BY <2>4, <2>5 DEF PairInv
    <2> QED
      BY <2>2, <2>4, <2>5, <2>6, <2>7, <2>8, <2>9 DEF PairInv
  <1>2. CASE ~Wipe(r)
    <2>1. pc' = [pc EXCEPT ![r] = "wipe"] /\ UNCHANGED lock /\ Owns(r) /\ Making(r) /\ ~Its(lock, r)
      BY <1>2 DEF Goto
    <2>2. /\ CleanTyped' /\ (Past \in dead)' /\ (~lock.there => lock = NoDir)'
        /\ (\A x \in Runs : ~tombs[x].there => tombs[x] = NoDir)'
      BY <1>0, <2>1 DEF PairInv, CleanTyped, Labels
    <2>3. pc'[r] = "wipe" /\ \A s \in Starts \ {r} : pc'[s] = pc[s]
      BY <2>1 DEF PairInv, CleanTyped
    <2>4. ~Owns(r)' /\ ~Moving(r)' /\ ~Early(r)'
      BY <2>3 DEF Owns, Keeps, Keeping, Holding, Moving, Early
    <2>5. PICK o \in Starts \ {r} : Moving(o) /\ ~lock.there /\ tombs[seen[o]].there /\ tombs[seen[o]].owner = None
      BY <2>1 DEF PairInv, InPlace, Away, Its
    <2>6. /\ \A s \in Starts : s = r \/ s = o
          /\ ~Owns(o) /\ ~Wiping(o) /\ ~Early(o)
      BY <2>5, TheOther DEF Owns, Keeps, Keeping, Holding, Wiping, Early, Moving
    <2>7. ~Owns(o)' /\ ~Wiping(o)' /\ ~Early(o)' /\ Moving(o)' /\ Unowned(r)' /\ Unknown(o)' /\ (Leaving(o)' <=> Leaving(o))
      BY <1>0, <2>1, <2>3, <2>5, <2>6 DEF PairInv, Owns, Keeps, Wiping, Early, Moving, Unowned, Unknown, Leaving
    <2>8. (seen[o] \in dead)'
      BY <1>0, <2>5 DEF PairInv, Moving
    <2>9. Answerable(o)'
      BY <1>0, <2>1, <2>4, <2>5, <2>6 DEF Answerable
    <2>10. \A s \in Starts : (pc[s] = "putback" => ~Leaving(s))' /\ (pc[s] # "classify" \/ s # r)'
      BY <2>3, <2>6, <2>7 DEF Moving
    <2>11. pc'[o] \in {"check", "putback"} /\ ~Leaving(o)'
      BY <2>7 DEF Moving
    <2> QED
      BY <2>2, <2>3, <2>4, <2>6, <2>7, <2>8, <2>9, <2>10, <2>11 DEF PairInv, Sure, Early
  <1> QED
    BY <1>1, <1>2

(* A directory goes from the path to where a run can look at it: its own,  *)
(* or that of the dead owner it has seen.                                  *)
LEMMA BuriesPair ==
  ASSUME AtMostTwo, PairInv, NEW r \in Starts, At(r, "bury"), lock.there,
         tombs' = [tombs EXCEPT ![seen[r]] = lock], lock' = NoDir, Goto(r, "check"),
         UNCHANGED <<seen, writing, dead, partition>>
  PROVE  PairInv'
  <1>0. /\ pc' = [pc EXCEPT ![r] = "check"] /\ pc[r] = "bury" /\ r \notin dead
        /\ seen[r] \in Runs /\ (Leaving(r) \/ seen[r] \in dead)
    BY DEF At, Goto, PairInv, CleanTyped, Leaving, Runs
  <1>1. /\ CleanTyped' /\ (Past \in dead)' /\ (~lock.there => lock = NoDir)'
        /\ (\A x \in Runs : ~tombs[x].there => tombs[x] = NoDir)'
    <2>1. NoDir \in Dirs
      BY DEF NoDir, Dir, Dirs
    <2> QED
      BY <1>0, <2>1 DEF PairInv, CleanTyped, Labels
  <1>2. /\ pc'[r] = "check" /\ \A s \in Starts \ {r} : pc'[s] = pc[s]
        /\ tombs'[seen[r]] = lock /\ \A x \in Runs \ {seen[r]} : tombs'[x] = tombs[x]
        /\ ~lock'.there /\ lock'.owner = None
    BY <1>0 DEF PairInv, CleanTyped, NoDir, Dir
  <1>3. ~Owns(r)' /\ ~Wiping(r)' /\ ~Early(r)' /\ (Moving(r)' <=> ~Leaving(r)) /\ (Leaving(r)' <=> Leaving(r))
    BY <1>2 DEF Owns, Keeps, Keeping, Holding, Wiping, Early, Moving, Leaving
  <1>4. \A o \in Starts \ {r} : /\ Owns(o)' <=> Owns(o)
                                /\ Wiping(o)' <=> Wiping(o)
                                /\ Moving(o)' <=> Moving(o)
                                /\ (Early(o)' <=> Early(o)) /\ (Leaving(o)' <=> Leaving(o))
    BY <1>2 DEF Owns, Keeps, Leaving, Wiping, Moving, Early
  <1>5. CASE Leaving(r)
    <2>1. Owns(r) /\ ~Moving(r) /\ Its(lock, r) /\ lock.owner = r
      <3>1. Owns(r) /\ ~Moving(r)
        BY <1>0, <1>5 DEF Owns, Keeps, Moving
      <3>2. Its(lock, r)
        BY <3>1 DEF PairInv, InPlace, Away
      <3> QED
        BY <1>0, <3>1, <3>2 DEF Its, Making
    <2>2. \A o \in Starts \ {r} : ~Owns(o) /\ ~Wiping(o) /\ (Moving(o) => Meant(o) /\ Meant(o)')
      <3> SUFFICES ASSUME NEW o \in Starts \ {r} PROVE ~Owns(o) /\ ~Wiping(o) /\ (Moving(o) => Meant(o) /\ Meant(o)')
        OBVIOUS
      <3>1. ~Owns(o) /\ ~Wiping(o)
        BY <2>1, TheOther DEF PairInv
      <3>2. Moving(o) => Meant(o) /\ seen[o] # r /\ seen[o] \in Runs
        BY <1>0, <2>1 DEF PairInv, CleanTyped, Answerable, Moving, Runs
      <3> QED
        BY <1>2, <1>5, <3>1, <3>2 DEF Meant, Leaving
    <2>3. \A o \in Starts : Early(o)' \/ Moving(o)' => Unknown(o)'
      BY <1>2, <1>3, <1>4, <1>5, <2>1, LeaseAssumption DEF PairInv, Unknown, Leaving
    <2>4. \A o \in Starts :
            /\ pc'[o] = "classify" => seen'[o] # None
            /\ pc'[o] \in {"verify", "bury", "check", "putback"} => Leaving(o)' \/ seen'[o] \in dead'
            /\ pc'[o] = "putback" => ~Leaving(o)'
            /\ pc'[o] = "check" /\ Leaving(o)' /\ o \notin dead' => tombs'[o].owner = o
      BY <1>0, <1>2, <1>3, <1>4, <1>5, <2>1 DEF PairInv, Leaving, Runs
    <2> QED
      BY <1>1, <1>2, <1>3, <1>4, <1>5, <2>2, <2>3, <2>4 DEF PairInv, Answerable
  <1>6. CASE ~Leaving(r)
    <2>1. Early(r) /\ Sure(r) /\ Unknown(r) /\ Moving(r)' /\ seen[r] \in dead
      BY <1>0, <1>3, <1>6 DEF PairInv, Early, Sure
    <2>2. \A o \in Starts \ {r} : ~Moving(o)
      BY <1>0, <2>1 DEF PairInv
    <2>3. \A o \in Starts \ {r} : Owns(o)' => InPlace(o)'
      <3> SUFFICES ASSUME NEW o \in Starts \ {r}, Owns(o)' PROVE InPlace(o)'
        OBVIOUS
      <3>1. Its(lock, o)
        BY <1>4, TheOther DEF Away
      <3>2. Its(tombs[seen[r]], o)'
        BY <1>2, <3>1 DEF Its, Making
      <3> QED
        BY <1>2, <2>1, <3>2 DEF InPlace, Away
    <2>4. \A o \in Starts \ {r} : Wiping(o)' => Unowned(o)'
      BY <1>2, <1>4, <2>1, TheOther DEF Unowned
    <2>5. \A o \in Starts : Early(o)' \/ Moving(o)' => Unknown(o)'
      BY <1>0, <1>2, <1>3, <1>4, <2>1, LeaseAssumption DEF PairInv, Unknown
    <2>6. Answerable(r)'
      <3>1. CASE lock.owner = seen[r]
        BY <1>2, <3>1 DEF Answerable, Meant
      <3>2. CASE lock.owner # seen[r]
        BY <1>2, <1>4, <2>1, <3>2 DEF PairInv, Answerable
      <3> QED
        BY <3>1, <3>2
    <2>7. \A o \in Starts :
            /\ pc'[o] = "classify" => seen'[o] # None
            /\ pc'[o] \in {"verify", "bury", "check", "putback"} => Leaving(o)' \/ seen'[o] \in dead'
            /\ pc'[o] = "putback" => ~Leaving(o)'
            /\ pc'[o] = "check" /\ Leaving(o)' /\ o \notin dead' => tombs'[o].owner = o
      BY <1>0, <1>2, <1>3, <1>4, <1>6, <2>1 DEF PairInv, Leaving, Runs
    <2> QED
      BY <1>1, <1>2, <1>3, <1>4, <2>2, <2>3, <2>4, <2>5, <2>6, <2>7 DEF PairInv
  <1> QED
    BY <1>5, <1>6

(* What was taken by mistake is kept aside for the run to put back. *)
LEMMA ChecksPair ==
  ASSUME AtMostTwo, PairInv, NEW r \in Starts, Check(r), ~Moved(tombs[seen[r]], seen[r]), UNCHANGED partition
  PROVE  PairInv'
  <1>1. /\ pc' = [pc EXCEPT ![r] = "putback"] /\ pc[r] = "check" /\ r \notin dead
        /\ UNCHANGED <<lock, tombs, seen, writing, dead, partition>>
    BY DEF Check, At, Goto
  <1>2. Moving(r) /\ ~Meant(r) /\ ~Leaving(r)
    BY <1>1 DEF PairInv, Moving, Meant, Moved, Leaving
  <1>3. /\ CleanTyped' /\ (Past \in dead)' /\ (~lock.there => lock = NoDir)'
        /\ (\A x \in Runs : ~tombs[x].there => tombs[x] = NoDir)'
    BY <1>1 DEF PairInv, CleanTyped, Labels
  <1>4. pc'[r] = "putback" /\ \A s \in Starts \ {r} : pc'[s] = pc[s]
    BY <1>1 DEF PairInv, CleanTyped
  <1>5. \A o \in Starts : /\ Owns(o)' <=> Owns(o)
                          /\ Wiping(o)' <=> Wiping(o)
                          /\ Moving(o)' <=> Moving(o)
                          /\ (Early(o)' <=> Early(o)) /\ (Leaving(o)' <=> Leaving(o))
                          /\ (Unknown(o)' <=> Unknown(o)) /\ (Sure(o)' <=> Sure(o))
    <2>1. \A o \in Starts : (Leaving(o)' <=> Leaving(o)) /\ (Unknown(o)' <=> Unknown(o))
      BY <1>1 DEF Leaving, Unknown
    <2>2. \A o \in Starts \ {r} : /\ Owns(o)' <=> Owns(o)
                                  /\ Wiping(o)' <=> Wiping(o)
                                  /\ Moving(o)' <=> Moving(o)
                                  /\ (Early(o)' <=> Early(o)) /\ (Sure(o)' <=> Sure(o))
      BY <1>1, <1>4, <2>1 DEF Owns, Keeps, Wiping, Moving, Early, Sure
    <2>3. /\ ~Owns(r) /\ ~Owns(r)' /\ ~Wiping(r) /\ ~Wiping(r)' /\ Moving(r) /\ Moving(r)'
          /\ ~Early(r) /\ ~Early(r)' /\ ~Sure(r) /\ ~Sure(r)'
      BY <1>1, <1>2, <1>4, <2>1 DEF Owns, Keeps, Keeping, Holding, Wiping, Moving, Early, Sure
    <2> QED
      BY <2>1, <2>2, <2>3
  <1>6. \A o \in Starts : Owns(o)' => InPlace(o)'
    <2> SUFFICES ASSUME NEW o \in Starts, Owns(o)' PROVE InPlace(o)'
      OBVIOUS
    <2>1. Owns(o) /\ InPlace(o) /\ o # r
      BY <1>2, <1>5 DEF PairInv, Owns, Keeps, Keeping, Holding, Moving
    <2>3. Its(lock, o)' <=> Its(lock, o)
      BY <1>1, <1>4, <2>1 DEF Its, Making
    <2>4. Its(tombs[seen[r]], o)' <=> Its(tombs[seen[r]], o)
      BY <1>1, <1>4, <2>1 DEF Its, Making
    <2> QED
      BY <1>1, <1>5, <2>1, <2>3, <2>4, TheOther DEF InPlace, Away
  <1>7. \A o \in Starts : Wiping(o)' => Unowned(o)'
    BY <1>1, <1>5 DEF PairInv, Unowned
  <1>8. \A o \in Starts : Moving(o)' => Answerable(o)'
    BY <1>1, <1>2, <1>5, TheOther DEF PairInv, Answerable
  <1>9. \A o \in Starts :
            /\ pc'[o] = "classify" => seen'[o] # None
            /\ pc'[o] \in {"verify", "bury", "check", "putback"} => Leaving(o)' \/ seen'[o] \in dead'
            /\ pc'[o] = "putback" => ~Leaving(o)'
            /\ pc'[o] = "check" /\ Leaving(o)' /\ o \notin dead' => tombs'[o].owner = o
    BY <1>1, <1>2, <1>4, <1>5 DEF PairInv
  <1> QED
    BY <1>1, <1>3, <1>5, <1>6, <1>7, <1>8, <1>9 DEF PairInv

(* A dead owner's directory, or the run's own, is removed. *)
LEMMA ClearsPair ==
  ASSUME AtMostTwo, PairInv, NEW r \in Starts, Check(r), Moved(tombs[seen[r]], seen[r]), UNCHANGED partition
  PROVE  PairInv'
  <1>1. /\ pc[r] = "check" /\ r \notin dead /\ tombs' = [tombs EXCEPT ![seen[r]] = NoDir]
        /\ UNCHANGED <<lock, seen, writing, dead, partition>>
        /\ tombs[seen[r]].owner = seen[r] /\ seen[r] \in Runs
    BY DEF Check, At, Moved, PairInv, CleanTyped, Leaving, Runs
  <1>2. PICK label \in {"ended", "mkdir", "refused"} : pc' = [pc EXCEPT ![r] = label] /\ (Leaving(r) => label = "ended")
    BY DEF Check, Removed, Retry, Goto
  <1>3. /\ CleanTyped' /\ (Past \in dead)' /\ (~lock.there => lock = NoDir)'
        /\ (\A x \in Runs : ~tombs[x].there => tombs[x] = NoDir)'
    <2>1. NoDir \in Dirs
      BY DEF NoDir, Dir, Dirs
    <2> QED
      BY <1>1, <1>2, <2>1 DEF PairInv, CleanTyped, Labels
  <1>4. /\ pc'[r] = label /\ \A s \in Starts \ {r} : pc'[s] = pc[s]
        /\ tombs'[seen[r]] = NoDir /\ \A x \in Runs \ {seen[r]} : tombs'[x] = tombs[x]
    BY <1>1, <1>2 DEF PairInv, CleanTyped
  <1>5. ~Owns(r) /\ ~Wiping(r) /\ ~Owns(r)' /\ ~Moving(r)' /\ ~Wiping(r)' /\ (Early(r)' => Moving(r))
    BY <1>1, <1>2, <1>4 DEF Owns, Keeps, Keeping, Holding, Wiping, Moving, Early
  <1>6. \A o \in Starts \ {r} : /\ Owns(o)' <=> Owns(o)
                                /\ Wiping(o)' <=> Wiping(o)
                                /\ Moving(o)' <=> Moving(o)
                                /\ (Early(o)' <=> Early(o)) /\ (Leaving(o)' <=> Leaving(o))
                                /\ (Its(lock, o)' <=> Its(lock, o))
    BY <1>1, <1>4 DEF Owns, Keeps, Leaving, Wiping, Moving, Early, Its, Making
  <1>7. \A o \in Starts : Unknown(o) => Unknown(o)'
    BY <1>1, <1>4, LeaseAssumption DEF Unknown, NoDir, Dir
  <1>8. \A o \in Starts \ {r} : Owns(o)' => InPlace(o)'
    <2> SUFFICES ASSUME NEW o \in Starts \ {r}, Owns(o)' PROVE InPlace(o)'
      OBVIOUS
    <2>1. Owns(o) /\ o \notin dead
      BY <1>6 DEF Owns
    <2>2. Moving(r) => ~Its(tombs[seen[r]], o)
      BY <1>1, <2>1, LeaseAssumption DEF PairInv, Moving, Its, Runs
    <2>3. Its(lock, o)
      BY <2>1, <2>2, TheOther DEF Away
    <2> QED
      BY <1>6, <2>3 DEF InPlace
  <1>9. \A o \in Starts \ {r} : Wiping(o)' => Unowned(o)'
    BY <1>1, <1>5, <1>6, TheOther, LeaseAssumption DEF Unowned, Runs
  <1>10. \A o \in Starts \ {r} : Moving(o)' => Answerable(o)'
    <2> SUFFICES ASSUME NEW o \in Starts \ {r}, Moving(o)' PROVE Answerable(o)'
      OBVIOUS
    <2>1. Moving(o) /\ Answerable(o) /\ ~Moving(r) /\ ~Early(r)' /\ seen[r] = r
      BY <1>1, <1>5, <1>6 DEF PairInv, Moving, Leaving
    <2>2. seen[o] \in dead /\ seen[o] \in Runs
      BY <2>1 DEF PairInv, CleanTyped, Moving
    <2>3. Meant(o) => Meant(o)'
      BY <1>1, <1>4, <2>1, <2>2 DEF Meant
    <2> QED
      BY <1>1, <2>1, <2>3, TheOther DEF Answerable
  <1>11. \A o \in Starts :
            /\ Early(o)' \/ Moving(o)' => Unknown(o)'
            /\ pc'[o] = "classify" => seen'[o] # None
            /\ pc'[o] \in {"verify", "bury", "check", "putback"} => Leaving(o)' \/ seen'[o] \in dead'
            /\ pc'[o] = "putback" => ~Leaving(o)'
    BY <1>1, <1>2, <1>4, <1>5, <1>6, <1>7 DEF PairInv
  <1>12. \A o \in Starts : pc'[o] = "check" /\ Leaving(o)' /\ o \notin dead' => tombs'[o].owner = o
    BY <1>1, <1>2, <1>4, <1>6 DEF PairInv, Leaving, Runs
  <1>13. \A s, o \in Starts : s # o =>
            /\ ~(Owns(s) /\ Owns(o))'
            /\ ~(Moving(s) /\ Moving(o))'
            /\ (Moving(o) /\ Early(s) /\ s \notin dead => ~lock.there)'
    BY <1>1, <1>5, <1>6 DEF PairInv
  <1>14. \A s, o \in Starts : s # o =>
            (Sure(s) /\ Early(o) /\ o \notin dead /\ lock.there => lock.owner = seen[s])'
    BY <1>1, <1>2, <1>4, <1>5, <1>6, TheOther DEF PairInv, Sure, Leaving, Early
  <1> QED
    BY <1>3, <1>5, <1>8, <1>9, <1>10, <1>11, <1>12, <1>13, <1>14 DEF PairInv

(* A directory taken by mistake goes back to the path, which is free. *)
LEMMA ReturnsPair ==
  ASSUME AtMostTwo, PairInv, NEW r \in Starts, PutBack(r), UNCHANGED partition
  PROVE  PairInv'
  <1>1. /\ pc[r] = "putback" /\ r \notin dead /\ ~Leaving(r) /\ Moving(r) /\ ~Meant(r) /\ Unknown(r)
        /\ UNCHANGED <<seen, writing, dead, partition>> /\ seen[r] \in dead /\ seen[r] \in Runs
    BY DEF PutBack, At, PairInv, CleanTyped, Moving, Meant
  <1>2. ~lock.there /\ Replaceable(lock) /\ \A o \in Starts \ {r} : o \in dead \/ ~Early(o)
    BY <1>1 DEF PairInv, Answerable, Replaceable, NoDir, Dir
  <1>3. lock' = tombs[seen[r]] /\ tombs' = [tombs EXCEPT ![seen[r]] = NoDir]
    BY <1>2 DEF PutBack
  <1>4. PICK label \in {"mkdir", "refused"} : pc' = [pc EXCEPT ![r] = label]
    BY <1>1 DEF PutBack, Removed, Retry, Goto
  <1>5. /\ CleanTyped' /\ (Past \in dead)' /\ (~lock.there => lock = NoDir)'
        /\ (\A x \in Runs : ~tombs[x].there => tombs[x] = NoDir)'
    <2>1. NoDir \in Dirs
      BY DEF NoDir, Dir, Dirs
    <2> QED
      BY <1>1, <1>3, <1>4, <2>1 DEF PairInv, CleanTyped, Labels
  <1>6. /\ pc'[r] = label /\ \A s \in Starts \ {r} : pc'[s] = pc[s]
        /\ tombs'[seen[r]] = NoDir /\ \A x \in Runs \ {seen[r]} : tombs'[x] = tombs[x]
    BY <1>1, <1>3, <1>4 DEF PairInv, CleanTyped
  <1>7. ~Owns(r)' /\ ~Moving(r)' /\ ~Wiping(r)' /\ ~Leaving(r)'
    BY <1>1, <1>4, <1>6 DEF Owns, Keeps, Keeping, Holding, Wiping, Moving, Leaving
  <1>8. \A o \in Starts \ {r} : /\ Owns(o)' <=> Owns(o)
                                /\ Wiping(o)' <=> Wiping(o)
                                /\ ~Moving(o)' /\ ~Moving(o)
                                /\ (Early(o)' <=> Early(o)) /\ (Leaving(o)' <=> Leaving(o))
    BY <1>1, <1>6 DEF PairInv, Owns, Keeps, Leaving, Wiping, Moving, Early
  <1>9. \A o \in Starts : Unknown(o) => Unknown(o)'
    BY <1>1, <1>3, <1>6, LeaseAssumption DEF Unknown, NoDir, Dir
  <1>10. \A o \in Starts \ {r} : Owns(o)' => InPlace(o)'
    <2> SUFFICES ASSUME NEW o \in Starts \ {r}, Owns(o)' PROVE InPlace(o)'
      OBVIOUS
    <2>1. Its(tombs[seen[r]], o)
      BY <1>2, <1>8, TheOther DEF Its, Away
    <2>2. Its(lock, o)'
      BY <1>1, <1>3, <1>6, <2>1 DEF Its, Making
    <2> QED
      BY <2>2 DEF InPlace
  <1>11. \A o \in Starts \ {r} : Wiping(o)' => Unowned(o)'
    BY <1>2, <1>3, <1>7, <1>8, TheOther DEF Unowned
  <1>12. \A o \in Starts :
            /\ Early(o)' \/ Moving(o)' => Unknown(o)'
            /\ pc'[o] = "classify" => seen'[o] # None
            /\ pc'[o] \in {"verify", "bury", "check", "putback"} => Leaving(o)' \/ seen'[o] \in dead'
            /\ pc'[o] = "putback" => ~Leaving(o)'
    BY <1>1, <1>4, <1>6, <1>7, <1>8, <1>9 DEF PairInv
  <1>13. \A o \in Starts : pc'[o] = "check" /\ Leaving(o)' /\ o \notin dead' => tombs'[o].owner = o
    BY <1>1, <1>4, <1>6, <1>8 DEF PairInv, Leaving, Runs
  <1>14. \A s, o \in Starts : s # o =>
            /\ ~(Owns(s) /\ Owns(o))'
            /\ ~(Moving(s) /\ Moving(o))'
            /\ (Moving(o) /\ Early(s) /\ s \notin dead => ~lock.there)'
    BY <1>1, <1>7, <1>8 DEF PairInv
  <1>15. \A s, o \in Starts : s # o => ~(Sure(s) /\ Early(o) /\ o \notin dead)'
    BY <1>1, <1>2, <1>4, <1>6, <1>8, TheOther DEF Sure, Early, Leaving
  <1> QED
    BY <1>5, <1>7, <1>8, <1>10, <1>11, <1>12, <1>13, <1>14, <1>15 DEF PairInv

(* A run ends, in order or not. *)
LEMMA EndsPair ==
  ASSUME PairInv, NEW r \in Starts, dead' = dead \cup {r},
         UNCHANGED <<lock, tombs, pc, seen, writing, partition>>
  PROVE  PairInv'
  <1>1. CleanTyped'
    BY DEF PairInv, CleanTyped, Runs
  <1>2. \A s \in Starts : /\ (Owns(s)' => Owns(s)) /\ (Wiping(s)' => Wiping(s)) /\ (Early(s)' <=> Early(s))
                          /\ (Moving(s)' <=> Moving(s)) /\ (Leaving(s)' <=> Leaving(s))
                          /\ (Unknown(s)' <=> Unknown(s)) /\ (Sure(s)' => Sure(s)) /\ (InPlace(s)' <=> InPlace(s))
                          /\ (Meant(s)' <=> Meant(s))
    BY DEF Owns, Keeps, Wiping, Early, Moving, Leaving, Unknown, Sure, InPlace, Its, Making, Away, Meant
  <1>3. \A s \in Starts : (Unowned(s) => Unowned(s)') /\ (Answerable(s) => Answerable(s)')
    BY <1>2 DEF Unowned, Answerable
  <1> QED
    BY <1>1, <1>2, <1>3 DEF PairInv

(* The looks at the lease and at its owner, and what comes of them. *)
LEMMA AskPair ==
  ASSUME AtMostTwo, PairInv, NEW r \in Starts, UNCHANGED partition,
         MakeLock(r) \/ ReadOwner(r) \/ Classify(r) \/ Verify(r) \/ Bury(r) \/ Check(r) \/ PutBack(r)
  PROVE  PairInv'
  <1>0. CleanTyped /\ (Early(r) \/ Moving(r) => Unknown(r))
    BY DEF PairInv
  <1>1. CASE MakeLock(r)
    <2>1. CASE lock.there
      <3>1. Goto(r, "read") /\ At(r, "mkdir") /\ UNCHANGED <<lock, tombs, seen, writing, dead>>
        BY <1>1, <2>1 DEF MakeLock
      <3>2. pc'[r] = "read" /\ Early(r) /\ ~Moving(r) /\ Unknown(r) /\ r \notin dead
        BY <1>0, <3>1 DEF CleanTyped, Goto, At, Early, Moving
      <3>3. ~Owns(r)'
        BY <3>2 DEF Owns, Keeps, Keeping, Holding
      <3> QED
        BY <1>0, <3>1, <3>2, <3>3, Quiet DEF CleanTyped, Labels, Unknown
    <2> QED
      BY <1>1, <2>1, MakesPair
  <1>2. CASE ReadOwner(r)
    <2>1. At(r, "read") /\ UNCHANGED <<lock, tombs, writing, dead>> /\ Early(r) /\ ~Moving(r) /\ Unknown(r) /\ r \notin dead
      BY <1>0, <1>2 DEF ReadOwner, At, Early, Moving
    <2>2. PICK label \in {"mkdir", "refused", "classify"} :
             /\ Goto(r, label)
             /\ IF label = "classify" THEN lock.owner # None /\ seen' = [seen EXCEPT ![r] = lock.owner]
                                      ELSE UNCHANGED seen
      BY <1>2 DEF ReadOwner, Retry
    <2>3. seen' \in [Starts -> Runs \cup {None}] /\ \A s \in Starts \ {r} : seen'[s] = seen[s]
      BY <1>0, <2>2 DEF CleanTyped, Dirs
    <2>4. seen'[r] # r /\ (label = "classify" => seen'[r] # None)
      BY <1>0, <2>1, <2>2 DEF CleanTyped, Unknown
    <2>5. pc'[r] = label
      BY <1>0, <2>2 DEF CleanTyped, Goto
    <2>6. ~Owns(r)'
      BY <2>5 DEF Owns, Keeps, Keeping, Holding
    <2> QED
      BY <1>0, <2>1, <2>2, <2>3, <2>4, <2>6, Quiet DEF CleanTyped, Labels, Unknown
  <1>3. CASE Classify(r)
    <2>1. /\ At(r, "classify") /\ UNCHANGED <<lock, tombs, seen, writing, dead>>
          /\ Early(r) /\ ~Moving(r) /\ Unknown(r) /\ r \notin dead
      BY <1>0, <1>3 DEF Classify, At, Early, Moving
    <2>2. PICK label \in {"verify", "refused"} : Goto(r, label) /\ (label = "verify" => seen[r] \in dead)
      BY <1>3 DEF Classify
    <2>3. pc'[r] = label
      BY <1>0, <2>2 DEF CleanTyped, Goto
    <2>4. ~Owns(r)'
      BY <2>1, <2>3 DEF Owns, Keeps, Keeping, Holding, Leaving, Unknown
    <2> QED
      BY <1>0, <2>1, <2>2, <2>4, Quiet DEF CleanTyped, Labels, Unknown
  <1>4. CASE Verify(r) \/ (Bury(r) /\ ~(lock.there /\ Replaceable(tombs[seen[r]])))
    <2>1. /\ pc[r] \in {"verify", "bury"} /\ UNCHANGED <<lock, tombs, seen, writing, dead>>
          /\ ~Moving(r) /\ r \notin dead
      BY <1>4 DEF Verify, Bury, At, Moving
    <2>2. PICK label \in {"bury", "ended", "mkdir", "refused"} :
             /\ Goto(r, label)
             /\ label = "bury" => lock.owner = seen[r]
             /\ label \in {"mkdir", "refused"} => ~Leaving(r)
             /\ label = "ended" => Leaving(r)
      BY <1>4 DEF Verify, Bury, Removed, Retry
    <2>3. pc'[r] = label
      BY <1>0, <2>2 DEF CleanTyped, Goto
    <2>4. Leaving(r)' <=> Leaving(r)
      BY <2>1 DEF Leaving
    <2>5. Owns(r)' => Leaving(r) /\ Owns(r) /\ label = "bury"
      BY <2>1, <2>2, <2>3, <2>4 DEF Owns, Keeps, Keeping, Holding
    <2>6. Owns(r)' => \A dir \in Dirs : Its(dir, r) => Its(dir, r)'
      BY <2>1, <2>3, <2>5 DEF Its, Making
    <2>7. Early(r)' => Early(r)
      BY <2>1, <2>2, <2>3, <2>4 DEF Early
    <2>8. Leaving(r) \/ seen[r] \in dead
      BY <2>1 DEF PairInv
    <2> QED
      BY <1>0, <2>1, <2>2, <2>5, <2>6, <2>7, <2>8, Quiet DEF CleanTyped, Labels, Unknown, Leaving
  <1>5. CASE Bury(r) /\ lock.there /\ Replaceable(tombs[seen[r]])
    BY <1>5, BuriesPair DEF Bury
  <1> QED
    BY <1>1, <1>2, <1>3, <1>4, <1>5, ChecksPair, ClearsPair, ReturnsPair

LEMMA WritePair ==
  ASSUME AtMostTwo, PairInv, NEW r \in Starts, UNCHANGED partition, WriteTemp(r) \/ Rename(r) \/ Wipe(r)
  PROVE  PairInv'
  <1>1. CASE Wipe(r)
    <2>1. ~Goto(r, "wipe")
      BY <1>1 DEF Wipe, Goto, PairInv, CleanTyped
    <2> QED
      BY <1>1, <2>1, WipesPair
  <1>2. CASE ~Wipe(r)
    <2>1. /\ pc[r] \in {"temp", "rename"} /\ r \notin dead /\ UNCHANGED <<tombs, seen, writing, dead>>
          /\ Owns(r) /\ ~Moving(r)
      BY <1>2 DEF WriteTemp, Rename, At, Owns, Keeps, Keeping, Moving
    <2>2. CASE WriteTemp(r) /\ lock.there
      <3>0. PICK dir : dir = [lock EXCEPT !.files = @ \cup {r}]
        OBVIOUS
      <3>1. lock' = dir /\ Goto(r, "rename") /\ pc[r] = "temp" /\ pc'[r] = "rename" /\ "rename" \in Labels
        BY <2>2, <3>0 DEF WriteTemp, At, Goto, PairInv, CleanTyped, Labels
      <3>2. lock \in Dirs /\ Its(lock, r)
        BY <2>1, <2>2 DEF PairInv, CleanTyped, InPlace, Away
      <3>3. dir \in Dirs /\ dir.there /\ dir.owner = lock.owner /\ r \in dir.files
        BY <3>0, <2>2, <3>2 DEF Dirs
      <3>4. Its(dir, r)'
        BY <2>1, <3>1, <3>2, <3>3 DEF Its, Making
      <3>5. Owns(r)' /\ ~Moving(r)' /\ ~Early(r)' /\ ~Wiping(r)'
        BY <2>1, <3>1 DEF Owns, Keeps, Keeping, Moving, Early, Wiping
      <3> QED
        BY <2>1, <2>2, <3>1, <3>3, <3>4, <3>5, WritesPair
    <2>3. CASE Rename(r) /\ r \in lock.files
      <3>1. lock \in Dirs /\ Its(lock, r) /\ lock.there
        BY <2>1, <2>3 DEF PairInv, CleanTyped, InPlace, Away, Its, NoDir, Dir
      <3>2. PICK label \in {"hold", "inspect", "serve"} : Goto(r, label)
        BY <2>3 DEF Rename, Written
      <3>3. PICK dir : dir = Dir(TRUE, r, lock.files \ {r})
        OBVIOUS
      <3>4. lock' = dir /\ dir \in Dirs /\ dir.there /\ dir.owner = r
        BY <2>3, <3>1, <3>3 DEF Rename, Dirs, Dir, Runs
      <3>5. pc'[r] = label /\ label \in Labels
        BY <3>2 DEF Goto, PairInv, CleanTyped, Labels, Holding
      <3>6. Its(dir, r)' /\ Owns(r)' /\ ~Moving(r)' /\ ~Early(r)' /\ ~Wiping(r)'
        BY <2>1, <3>4, <3>5 DEF Its, Making, Owns, Keeps, Keeping, Holding, Moving, Early, Wiping
      <3> QED
        BY <2>1, <3>1, <3>2, <3>4, <3>5, <3>6, WritesPair
    <2>4. CASE (WriteTemp(r) /\ ~lock.there) \/ (Rename(r) /\ r \notin lock.files)
      <3>1. Unwritten(r) /\ UNCHANGED lock
        BY <2>4 DEF WriteTemp, Rename
      <3>2. CASE Making(r)
        <4>1. Goto(r, "wipe") /\ ~Its(lock, r)
          BY <2>4, <3>1, <3>2 DEF Unwritten, Making, Its, Rename, At
        <4> QED
          BY <2>1, <3>1, <3>2, <4>1, WipesPair
      <3>3. CASE ~Making(r)
        <4>1. Goto(r, "leave") /\ pc'[r] = "leave" /\ "leave" \in Labels
          BY <2>1, <3>1, <3>3 DEF Unwritten, Making, Goto, PairInv, CleanTyped, Labels, Holding
        <4>2. \A dir \in Dirs : Its(dir, r) => Its(dir, r)'
          BY <2>1, <3>3, <4>1 DEF Its, Making
        <4>3. ~Early(r)'
          BY <4>1 DEF Early
        <4> QED
          BY <2>1, <3>1, <4>1, <4>2, <4>3, Quiet DEF PairInv, CleanTyped
      <3> QED
        BY <3>2, <3>3
    <2> QED
      BY <1>2, <2>2, <2>3, <2>4 DEF WriteTemp, Rename
  <1> QED
    BY <1>1, <1>2

LEMMA WorkPair ==
  ASSUME PairInv, NEW r \in Starts, StartNext(r) \/ (Release(r) /\ UNCHANGED partition)
  PROVE  PairInv'
  <1> USE DEF PairInv, CleanTyped, At, Goto, Leaving
  <1>1. pc[r] \in Holding \cup {"release"} /\ r \notin dead
    BY DEF StartNext, Release, Inspect, Evict, Evicting, Publish, Leave, Unclaim, Stamp, ClaimHome,
           Command, Boot, Announce, Stop, Holding
  <1>2. Owns(r) /\ ~Moving(r)
    BY <1>1 DEF Owns, Keeps, Keeping, Moving, Holding
  <1>3. \E label \in Holding \cup {"release", "temp", "verify"} : Goto(r, label)
    <2>1. CASE Stamp(r) \/ Announce(r)
      BY <2>1 DEF Stamp, Announce, Rewrite, Holding
    <2>2. CASE Boot(r)
      BY <2>2 DEF Boot, Holding
    <2> QED
      BY <2>1, <2>2
      DEF StartNext, Release, Inspect, Evict, Evicting, Publish, Leave, Unclaim, ClaimHome, Command,
          Stop, Holding
  <1>4. PICK label \in Holding \cup {"release", "temp", "verify"} : Goto(r, label)
    BY <1>3
  <1>5. label = "verify" => seen'[r] = r
    BY <1>4 DEF StartNext, Release, Inspect, Evict, Evicting, Publish, Leave, Unclaim, ClaimHome,
           Command, Stop, Stamp, Announce, Rewrite, Boot, Holding, Labels
  <1>6. label = "temp" => writing'[r] # "lease"
    BY <1>4 DEF StartNext, Release, Inspect, Evict, Evicting, Publish, Leave, Unclaim, ClaimHome,
           Command, Stop, Stamp, Announce, Rewrite, Boot, Holding, Labels, Purposes
  <1>7. /\ UNCHANGED <<lock, tombs, dead>>
        /\ seen' \in [Starts -> Runs \cup {None}] /\ writing' \in [Starts -> Purposes]
        /\ \A s \in Starts \ {r} : seen'[s] = seen[s] /\ writing'[s] = writing[s]
        /\ partition' \in Runs \cup {None}
    BY DEF StartNext, Release, Inspect, Evict, Evicting, Publish, Leave, Unclaim, ClaimHome,
           Command, Stop, Stamp, Announce, Rewrite, Boot, Purposes, Runs
  <1>8. pc'[r] = label /\ label \in Labels
    BY <1>4 DEF Labels, Holding
  <1>9. \A dir \in Dirs : Its(dir, r) => Its(dir, r)'
    BY <1>1, <1>6, <1>8 DEF Its, Making, Holding
  <1>10. ~Early(r)' /\ label \notin {"check", "putback", "wipe", "classify", "bury"}
    BY <1>4, <1>5, <1>8 DEF Early, Holding
  <1> HIDE DEF PairInv, CleanTyped, At, Goto, Leaving
  <1> QED
    BY <1>1, <1>2, <1>4, <1>5, <1>7, <1>8, <1>9, <1>10, Quiet

LEMMA PairNext == AtMostTwo /\ PairInv /\ [Next]_vars => PairInv'
  <1> SUFFICES ASSUME AtMostTwo, PairInv, [Next]_vars PROVE PairInv'
    OBVIOUS
  <1>1. CASE UNCHANGED vars
    <2>1. UNCHANGED <<lock, tombs, pc, seen, writing, dead, partition>>
      BY <1>1 DEF vars, leaseVars
    <2>2. \A s \in Starts : /\ (Owns(s)' <=> Owns(s)) /\ (Wiping(s)' <=> Wiping(s)) /\ (Early(s)' <=> Early(s))
                            /\ (Moving(s)' <=> Moving(s)) /\ (Leaving(s)' <=> Leaving(s))
                            /\ (Unknown(s)' <=> Unknown(s)) /\ (Sure(s)' <=> Sure(s)) /\ (InPlace(s)' <=> InPlace(s))
                            /\ (Meant(s)' <=> Meant(s))
      BY <2>1 DEF Owns, Keeps, Wiping, Early, Moving, Leaving, Unknown, Sure, InPlace, Its, Making, Away, Meant
    <2>3. \A s \in Starts : (Unowned(s) <=> Unowned(s)') /\ (Answerable(s) <=> Answerable(s)')
      BY <2>1, <2>2 DEF Unowned, Answerable
    <2> QED
      BY <2>1, <2>2, <2>3 DEF PairInv, CleanTyped
  <1>2. CASE Next
    <2>1. PICK r \in Starts : StartNext(r) \/ (LeaseNext(r) /\ UNCHANGED partition)
      BY <1>2 DEF Next
    <2>2. CASE StartNext(r)
      BY <2>2, WorkPair
    <2>3. CASE Exit(r) \/ Crash(r)
      BY <2>1, <2>3, EndsPair, WorkPair DEF Exit, Crash
    <2>4. CASE LeaseNext(r) /\ UNCHANGED partition
      BY <2>3, <2>4, AskPair, WritePair, WorkPair DEF LeaseNext
    <2> QED
      BY <2>1, <2>2, <2>4
  <1> QED
    BY <1>1, <1>2

(* Of two runs over any home, started clean or left in use, at most one    *)
(* holds the lease and its record is on the disk, whoever else is killed   *)
(* and whichever calls of the two fall between each other.  Of three runs  *)
(* two can serve at once: OneServes is refuted on a dead lease.            *)
THEOREM TwoRunsOneWriter == AtMostTwo => (Spec => [](SingleWriter /\ OwnerKept))
  <1>1. PairInv => SingleWriter /\ OwnerKept
    <2> SUFFICES ASSUME PairInv PROVE SingleWriter /\ OwnerKept
      OBVIOUS
    <2>1. \A r \in Starts : Holds(r) => Owns(r) /\ ~Making(r)
      BY DEF Holds, Owns, Keeps, Keeping, Holding, Making
    <2>2. \A r \in Starts : Holds(r) => \/ lock.owner = r
                                       \/ \E s \in Starts \ {r} : Moving(s) /\ tombs[seen[s]].owner = r
      BY <2>1 DEF PairInv, InPlace, Its, Away
    <2> QED
      BY <2>1, <2>2 DEF PairInv, SingleWriter, OwnerKept, Moving
  <1>2. Init /\ AtMostTwo => PairInv /\ AtMostTwo
    BY PairInit
  <1>3. (PairInv /\ AtMostTwo) /\ [Next]_vars => (PairInv /\ AtMostTwo)'
    BY PairNext DEF AtMostTwo
  <1> QED
    BY <1>1, <1>2, <1>3, PTL DEF Spec
=============================================================================
