---------------------------- MODULE RunnerProofs -------------------------------
(***************************************************************************)
(* For every set of rows, owners, claims and bounds, as long as no child   *)
(* dies: between the calls every runner answers for its tools, none is left*)
(* parked, no owner has two, and a snapshot would name only what runs; and *)
(* a version is committed onto the base its activation was checked against.*)
(***************************************************************************)
EXTENDS GovernanceProofs

-----------------------------------------------------------------------------
(* What runs, as long as no child dies.                                    *)

(* No two versions of one owner.                                           *)
OneEach(S) == \A x, y \in S : SameOwner(x, y) => x = y

(* Every runner answers for its tools and none is parked.                  *)
Calm(r) ==
    /\ r.generated = r.live /\ r.mounted \subseteq r.live /\ r.parked = NobodyParked
    /\ OneEach(r.live)

(* Candidate c runs on trial, what it displaced waits.                     *)
OnTrial(r, c) ==
    /\ c \in r.live
    /\ r.generated = r.live /\ r.mounted \subseteq r.live
    /\ \A x \in Candidates : x # c => r.parked[x] = {}
    /\ OneEach(r.live) /\ OneEach(r.parked[c])
    /\ \A d \in r.parked[c] : SameOwner(d, c) /\ d # c

(* Candidate c is being started: what it displaced waits, and no version   *)
(* of its owner answers.                                                   *)
Starting(r, c) ==
    /\ c \in Candidates
    /\ r.generated = r.live /\ r.mounted \subseteq r.live
    /\ \A x \in Candidates : x # c => r.parked[x] = {}
    /\ OneEach(r.live) /\ OneEach(r.parked[c])
    /\ \A d \in r.parked[c] : SameOwner(d, c) /\ d # c
    /\ \A d \in r.live : ~SameOwner(d, c)

(* The children of `drop` are ending.                                      *)
Stopping(r, drop) ==
    /\ r.live = r.generated \ drop /\ r.mounted \ drop \subseteq r.live /\ r.parked = NobodyParked
    /\ OneEach(r.live)

(* Sharing an owner is an equivalence.                                     *)
LEMMA SameOwners ==
    ASSUME NEW x, NEW y, NEW z
    PROVE  /\ SameOwner(x, x)
           /\ SameOwner(x, y) => SameOwner(y, x)
           /\ SameOwner(x, y) /\ SameOwner(y, z) => SameOwner(x, z)
BY DEF SameOwner

(* Nobody else is parked: everything parked is parked behind c.            *)
LEMMA ParkedBehind ==
    ASSUME NEW r \in Runtimes, NEW c \in Candidates,
           \A x \in Candidates : x # c => r.parked[x] = {}, NEW S \in SUBSET Candidates
    PROVE  UNION {r.parked[x] : x \in S} = IF c \in S THEN r.parked[c] ELSE {}
OBVIOUS

(* A fresh runtime is calm. *)
LEMMA FreshCalm == Calm(FreshRuntime)
BY DEF Calm, FreshRuntime, OneEach

(* prepare up to its wait. *)
LEMMA ParkStarting ==
    ASSUME NEW r \in Runtimes, Calm(r), NEW c \in Candidates, c \notin r.generated, NEW evolves \in BOOLEAN
    PROVE  Starting(Park(r, c, evolves), c)
<1>1. /\ r.generated = r.live /\ r.mounted \subseteq r.live /\ OneEach(r.live)
      /\ \A x \in Candidates : r.parked[x] = {}
      /\ r.parked \in [Candidates -> SUBSET Candidates]
  BY DEF Calm, NobodyParked, Runtimes
<1>2. CASE Displaced(r, c) = {} /\ ~evolves
  <2>1. Park(r, c, evolves) = r
    BY <1>2 DEF Park
  <2>2. \A d \in r.live : ~SameOwner(d, c)
    BY <1>1, <1>2 DEF Displaced
  <2> QED
    BY <1>1, <2>1, <2>2 DEF Starting, OneEach
<1>3. CASE ~(Displaced(r, c) = {} /\ ~evolves)
  <2> DEFINE prior == Displaced(r, c)
  <2>1. PICK p : p = Park(r, c, evolves)
    OBVIOUS
  <2>2. /\ p = Park(r, c, evolves)
        /\ p.generated = r.generated \ prior /\ p.live = r.live \ prior
        /\ p.mounted = r.mounted \ prior /\ p.parked = [r.parked EXCEPT ![c] = prior]
    BY <2>1, <1>3 DEF Park, Runtimes
  <2>3. \A d \in prior : d \in r.live /\ SameOwner(d, c) /\ d # c
    BY <1>1 DEF Displaced
  <2>4. \A d \in r.live \ prior : ~SameOwner(d, c)
    BY <1>1 DEF Displaced
  <2>5. p.parked[c] = prior /\ \A x \in Candidates : x # c => p.parked[x] = {}
    BY <1>1, <2>2
  <2> HIDE DEF prior
  <2>6. Starting(p, c)
    BY <1>1, <2>2, <2>3, <2>4, <2>5 DEF Starting, OneEach
  <2> QED
    BY <2>2, <2>6
<1> QED
  BY <1>2, <1>3

(* prepare once the child is up. *)
LEMMA StartedOnTrial ==
    ASSUME NEW r \in Runtimes, NEW c, Starting(r, c)
    PROVE  OnTrial(Started(r, c), c)
<1>1. PICK p : p = Started(r, c)
  OBVIOUS
<1>2. /\ p = Started(r, c) /\ p.generated = r.generated \cup {c} /\ p.live = r.live \cup {c}
      /\ p.mounted = r.mounted /\ p.parked = r.parked
  BY <1>1 DEF Started, Runtimes
<1>3. OneEach(p.live)
  BY <1>2, SameOwners DEF Starting, OneEach
<1>4. OnTrial(p, c)
  BY <1>2, <1>3 DEF Starting, OnTrial
<1> QED
  BY <1>2, <1>4

(* commit, and the remount of a candidate that runs. *)
LEMMA CommittedCalm ==
    ASSUME NEW r \in Runtimes, NEW c \in Candidates, OnTrial(r, c)
    PROVE  /\ Calm(DiscardParked(r, {c}))
           /\ Calm(Mounted(DiscardParked(r, {c}), c))
<1>1. PICK p : p = DiscardParked(r, {c})
  OBVIOUS
<1>2. /\ p = DiscardParked(r, {c}) /\ p.generated = r.generated /\ p.live = r.live
      /\ p.mounted = r.mounted
      /\ p.parked = [x \in Candidates |-> IF x \in {c} THEN {} ELSE r.parked[x]]
      /\ p \in Runtimes
  BY <1>1, StopTypes DEF DiscardParked, Runtimes
<1>3. p.parked = NobodyParked
  BY <1>2 DEF OnTrial, NobodyParked
<1>4. Calm(p)
  BY <1>2, <1>3 DEF Calm, OnTrial
<1>5. PICK q : q = Mounted(p, c)
  OBVIOUS
<1>6. /\ q = Mounted(p, c) /\ q.generated = p.generated /\ q.live = p.live
      /\ q.mounted = p.mounted \cup {c} /\ q.parked = p.parked
  BY <1>5, <1>2 DEF Mounted, Runtimes
<1>7. Calm(q)
  BY <1>2, <1>4, <1>6 DEF Calm, OnTrial
<1> QED
  BY <1>2, <1>4, <1>6, <1>7

(* A calm runtime is one on trial of any candidate it runs. *)
LEMMA CalmOnTrial ==
    ASSUME NEW r, Calm(r), NEW c \in r.live, r.live \subseteq Candidates
    PROVE  OnTrial(r, c)
BY DEF Calm, OnTrial, NobodyParked, OneEach

(* What c displaced is mounted again. *)
LEMMA StartFailedCalm ==
    ASSUME NEW r \in Runtimes, NEW c, Starting(r, c), NEW clash \in BOOLEAN
    PROVE  Calm(StartFailed(r, c, clash))
<1>1. c \in Candidates /\ r.parked \in [Candidates -> SUBSET Candidates]
  BY DEF Starting, Runtimes
<1>2. PICK q : q = (IF clash THEN [r EXCEPT !.recipes = @ \cup {c}] ELSE r)
  OBVIOUS
<1>3. /\ q = (IF clash THEN [r EXCEPT !.recipes = @ \cup {c}] ELSE r) /\ q \in Runtimes
      /\ q.generated = r.generated /\ q.live = r.live /\ q.mounted = r.mounted
      /\ q.parked = r.parked
  BY <1>2, <1>1 DEF Runtimes
<1>4. PICK p : p = Unpark(q, c)
  OBVIOUS
<1>5. /\ p = Unpark(q, c) /\ p.generated = (q.generated \ {c}) \cup q.parked[c]
      /\ p.live = q.live \cup q.parked[c] /\ p.mounted = q.mounted \cup q.parked[c]
      /\ p.parked = [q.parked EXCEPT ![c] = {}]
  BY <1>4, <1>1, <1>3 DEF Unpark, Unparked, Runtimes
<1>6. c \notin r.live
  BY SameOwners DEF Starting
<1>7. OneEach(p.live)
  <2>1. \A d \in r.parked[c], e \in r.live : ~SameOwner(d, e) /\ ~SameOwner(e, d)
    BY SameOwners DEF Starting
  <2> QED
    BY <1>3, <1>5, <2>1 DEF Starting, OneEach
<1>8. p.parked = NobodyParked
  <2>1. q.parked = r.parked /\ \A x \in Candidates : x # c => r.parked[x] = {}
    BY <1>3 DEF Starting
  <2>2. p.parked \in [Candidates -> SUBSET Candidates] /\ \A x \in Candidates : p.parked[x] = {}
    BY <1>1, <1>5, <2>1
  <2> QED
    BY <2>2 DEF NobodyParked
<1>9. r.generated = r.live /\ r.mounted \subseteq r.live
  BY DEF Starting
<1>10. p.generated = p.live /\ p.mounted \subseteq p.live
  <2>1. q.generated \ {c} = q.live
    BY <1>3, <1>6, <1>9
  <2>2. p.generated = p.live
    BY <1>5, <2>1
  <2>3. q.mounted \subseteq q.live
    BY <1>3, <1>9
  <2> QED
    BY <1>5, <2>2, <2>3
<1>11. Calm(p)
  BY <1>7, <1>8, <1>10 DEF Calm
<1> QED
  BY <1>3, <1>5, <1>11 DEF StartFailed

(* dropGenerated and unloadGenerated. *)
LEMMA UnloadStopping ==
    ASSUME NEW r \in Runtimes, Calm(r), NEW S
    PROVE  Stopping(Unloading(r, S), S \cap r.generated)
<1>1. PICK p : p = Unloading(r, S)
  OBVIOUS
<1>2. /\ p = Unloading(r, S) /\ p.generated = r.generated
      /\ p.live = r.live \ (S \cap r.generated) /\ p.mounted = r.mounted
      /\ p.parked = [x \in Candidates |-> IF x \in S THEN {} ELSE r.parked[x]]
  BY <1>1 DEF Unloading, DiscardParked, Dropping, Runtimes
<1>3. p.parked = NobodyParked
  BY <1>2 DEF Calm, NobodyParked
<1>4. Stopping(p, S \cap r.generated)
  BY <1>2, <1>3 DEF Calm, Stopping, OneEach
<1> QED
  BY <1>2, <1>4

(* The children that were told to end have ended. *)
LEMMA DroppedCalm ==
    ASSUME NEW r \in Runtimes, NEW drop, Stopping(r, drop)
    PROVE  Calm(Dropped(r, drop))
<1>1. PICK p : p = Dropped(r, drop)
  OBVIOUS
<1>2. /\ p = Dropped(r, drop) /\ p.generated = r.generated \ drop /\ p.live = r.live
      /\ p.mounted = r.mounted \ drop /\ p.parked = r.parked
  BY <1>1 DEF Dropped, Runtimes
<1>3. Calm(p)
  BY <1>2 DEF Calm, Stopping
<1> QED
  BY <1>2, <1>3

(* runtime.restore: the unwanted runners end, and what an unwanted         *)
(* candidate had displaced is mounted again.                               *)
LEMMA RestoreStopping ==
    ASSUME NEW r \in Runtimes, NEW c \in Candidates, OnTrial(r, c), NEW snap
    PROVE  Stopping(BeginRestore(r, snap), Unwanted(r, snap))
<1> DEFINE gone == r.swapped \ snap.mounted
           back == UNION {r.parked[x] : x \in gone}
           drop == Unwanted(r, snap)
<1>1. /\ gone \in SUBSET Candidates /\ drop = r.generated \ snap.mounted
      /\ r.live \subseteq Candidates /\ r.parked[c] \subseteq Candidates
      /\ r.generated = r.live /\ r.mounted \subseteq r.live
      /\ \A x \in Candidates : x # c => r.parked[x] = {}
  BY DEF Runtimes, Unwanted, OnTrial
<1>2. PICK p : p = BeginRestore(r, snap)
  OBVIOUS
<1>3. /\ p = BeginRestore(r, snap) /\ p.generated = (r.generated \ gone) \cup back
      /\ p.live = (r.live \ drop) \cup back /\ p.mounted = r.mounted \cup back
      /\ p.parked = NobodyParked
  BY <1>2 DEF BeginRestore, Dropping, Unparked, Runtimes
<1>4. back = IF c \in gone THEN r.parked[c] ELSE {}
  BY <1>1, ParkedBehind
<1>5. c \in gone => c \in drop
  BY <1>1 DEF OnTrial
<1> HIDE DEF back, drop
<1>6. \A d \in back, e \in r.live : SameOwner(d, e) \/ SameOwner(e, d) => c \in gone /\ e = c
  BY <1>1, <1>4, SameOwners DEF OnTrial, OneEach
<1>7. back \cap r.live = {}
  BY <1>4, <1>6, SameOwners DEF OnTrial
<1>8. OneEach(p.live)
  <2>1. OneEach(back)
    BY <1>4 DEF OnTrial, OneEach
  <2>2. OneEach(r.live \ drop)
    BY DEF OnTrial, OneEach
  <2>3. \A d \in back, e \in r.live \ drop : ~SameOwner(d, e) /\ ~SameOwner(e, d)
    BY <1>5, <1>6
  <2> QED
    BY <1>3, <2>1, <2>2, <2>3 DEF OneEach
<1>9. p.live = p.generated \ drop
  BY <1>1, <1>3, <1>7
<1>10. p.mounted \ drop \subseteq p.live
  BY <1>1, <1>3
<1> QED
  BY <1>3, <1>8, <1>9, <1>10 DEF Stopping, drop

(* The same when nobody is on trial. *)
LEMMA RestoreCalmStopping ==
    ASSUME NEW r \in Runtimes, Calm(r), NEW snap
    PROVE  Stopping(BeginRestore(r, snap), Unwanted(r, snap))
<1> DEFINE gone == r.swapped \ snap.mounted
           back == UNION {r.parked[x] : x \in gone}
           drop == Unwanted(r, snap)
<1>1. /\ drop = r.generated \ snap.mounted
      /\ r.generated = r.live /\ r.mounted \subseteq r.live /\ OneEach(r.live)
  BY DEF Runtimes, Unwanted, Calm
<1>2. PICK p : p = BeginRestore(r, snap)
  OBVIOUS
<1>3. /\ p = BeginRestore(r, snap) /\ p.generated = (r.generated \ gone) \cup back
      /\ p.live = (r.live \ drop) \cup back /\ p.mounted = r.mounted \cup back
      /\ p.parked = NobodyParked
  BY <1>2 DEF BeginRestore, Dropping, Unparked, Runtimes
<1>4. back = {}
  BY DEF Calm, NobodyParked, Runtimes
<1> HIDE DEF back, drop
<1>5. p.live = p.generated \ drop /\ p.mounted \ drop \subseteq p.live /\ OneEach(p.live)
  BY <1>1, <1>3, <1>4 DEF OneEach
<1> QED
  BY <1>3, <1>5 DEF Stopping, drop

(* A restore that ends lists what it mounts. *)
LEMMA EndRestoreCalm ==
    ASSUME NEW r \in Runtimes, Calm(r), NEW snap
    PROVE  Calm(EndRestore(r, snap))
<1>1. PICK p : p = EndRestore(r, snap)
  OBVIOUS
<1>2. /\ p = EndRestore(r, snap) /\ p.generated = r.generated /\ p.live = r.live
      /\ p.mounted = snap.mounted \cap r.generated /\ p.parked = r.parked
  BY <1>1 DEF EndRestore, Runtimes
<1>3. Calm(p)
  BY <1>2 DEF Calm
<1> QED
  BY <1>2, <1>3

-----------------------------------------------------------------------------
(* What runs between the calls, as long as no child dies                   *)

(* The waits for a candidate that is being started.                        *)
Starts(rec) == rec.pc \in {"restart", "mounting"} \/ (rec.pc = "prepare" /\ rec.start # None)

(* The waits for children that end.                                        *)
Stops(rec) == rec.pc \in {"restore", "safe", "disable", "uninstall", "shut", "close"}

(* What runs, by what the lifecycle call waits for.                        *)
Runs(rec, r) ==
    /\ Stops(rec) => Stopping(r, rec.drop)
    /\ Starts(rec) => Starting(r, rec.start)
    /\ rec.pc = "prepare" => rec.start \in {None, rec.cand} /\ (rec.start = None => rec.cand \in r.live)
    /\ rec.pc = "health" => OnTrial(r, rec.cand)
    /\ rec.pc = "commit" => rec.cand \in r.live
    /\ ~Stops(rec) /\ ~Starts(rec) /\ rec.pc # "health" => Calm(r)

(* No callback is under way, and the runtime is where the call left it.    *)
AllRun == Runs(th["op"], rt) /\ \A c \in Candidates : th[c].pc = "idle"

(* The inductive invariant of this part.                                   *)
RunsInv == spent.fatals = 0 => AllRun

(* What every step starts from.                                            *)
LEMMA RunFacts ==
    ASSUME Inductive
    PROVE  /\ "op" \in Threads /\ th["op"] \in ThreadStates /\ rt \in Runtimes
           /\ rt.live \subseteq Candidates /\ rt.generated \subseteq Candidates
           /\ Resting \in ThreadStates /\ Resting.pc = "idle"
           /\ \A c \in Candidates : c \in Threads /\ c # "op"
<1>1. "op" \in Threads /\ \A c \in Candidates : c \in Threads /\ c # "op"
  BY OpApart
<1>2. th["op"] \in ThreadStates
  BY <1>1, ThreadFacts, SoundTyped
<1>3. Resting \in ThreadStates
  BY RestingSound, SoundTyped DEF Inductive, SoundRegistries
<1> QED
  BY <1>1, <1>2, <1>3 DEF Inductive, Runtimes, Resting

(* A call that goes on waits for nothing that starts or ends.              *)
LEMMA CalmOn ==
    ASSUME Inductive, AllRun, NEW rec, Goto("op", rec), Calm(rt'),
           rec.pc \in Points \ {"restore", "safe", "disable", "uninstall", "shut", "close",
                                "restart", "mounting", "prepare", "health", "commit"}
    PROVE  AllRun'
<1>1. th'["op"] = rec /\ \A c \in Candidates : th'[c] = th[c]
  BY RunFacts, Moved
<1>2. Runs(rec, rt')
  BY DEF Runs, Stops, Starts
<1> QED
  BY <1>1, <1>2 DEF AllRun

(* A call that ends. *)
LEMMA CalmRest ==
    ASSUME Inductive, AllRun, Rest("op"), Calm(rt')
    PROVE  AllRun'
BY RunFacts, CalmOn DEF Rest, Points

(* A call that waits for children to end. *)
LEMMA StopOn ==
    ASSUME Inductive, AllRun, NEW rec, Goto("op", rec), Stops(rec), Stopping(rt', rec.drop)
    PROVE  AllRun'
<1>1. th'["op"] = rec /\ \A c \in Candidates : th'[c] = th[c]
  BY RunFacts, Moved
<1>2. Runs(rec, rt')
  BY DEF Runs, Stops, Starts
<1> QED
  BY <1>1, <1>2 DEF AllRun

(* A call that waits for a candidate to start. *)
LEMMA StartOn ==
    ASSUME Inductive, AllRun, NEW rec, Goto("op", rec), Starts(rec), Starting(rt', rec.start),
           rec.pc = "prepare" => rec.start = rec.cand
    PROVE  AllRun'
<1>1. th'["op"] = rec /\ \A c \in Candidates : th'[c] = th[c]
  BY RunFacts, Moved
<1>2. Runs(rec, rt')
  BY DEF Runs, Stops, Starts
<1> QED
  BY <1>1, <1>2 DEF AllRun

(* A call that goes into runtime.restore. *)
LEMMA RestoringRuns ==
    ASSUME Inductive, AllRun, NEW here \in ThreadStates, NEW ret, NEW snap, NEW reg, NEW r \in Runtimes,
           Calm(r) \/ \E c \in Candidates : OnTrial(r, c), Restoring("op", here, ret, snap, reg, r)
    PROVE  AllRun'
<1>1. PICK rec : rec = [here EXCEPT !.pc = "restore", !.wait = RestoreWaits(r, snap), !.ret = ret,
                               !.snap = snap, !.owners = Active(reg), !.todo = snap.mounted,
                               !.drop = Unwanted(r, snap)]
  OBVIOUS
<1>2. rec.pc = "restore" /\ rec.drop = Unwanted(r, snap)
  BY <1>1 DEF ThreadStates
<1>3. Goto("op", rec) /\ rt' = BeginRestore(r, snap)
  BY <1>1 DEF Restoring
<1>4. Stopping(BeginRestore(r, snap), Unwanted(r, snap))
  BY RestoreStopping, RestoreCalmStopping
<1> QED
  BY <1>2, <1>3, <1>4, StopOn DEF Stops

(* A call that fails closed. *)
LEMMA FailingClosedRuns ==
    ASSUME Inductive, AllRun, NEW here \in ThreadStates, NEW pc \in {"shut", "close"}, NEW reg, NEW g,
           NEW r \in Runtimes, Calm(r), FailingClosed("op", here, pc, reg, g, r)
    PROVE  AllRun'
<1>1. PICK rec : rec = [here EXCEPT !.pc = pc, !.wait = UnloadWaits(r, Candidates), !.drop = r.generated]
  OBVIOUS
<1>2. rec.pc = pc /\ rec.drop = r.generated
  BY <1>1 DEF ThreadStates
<1>3. Goto("op", rec) /\ rt' = Unloading(r, Candidates)
  BY <1>1 DEF FailingClosed
<1>4. Stopping(Unloading(r, Candidates), Candidates \cap r.generated)
  BY UnloadStopping
<1>5. Candidates \cap r.generated = r.generated
  BY DEF Runtimes
<1> QED
  BY <1>2, <1>3, <1>4, <1>5, StopOn DEF Stops

(* A call that goes into the remount. *)
LEMMA RemountingRuns ==
    ASSUME Inductive, AllRun, NEW here \in ThreadStates, NEW then \in {"boot", "rollback"}, NEW reg, NEW g,
           NEW r \in Runtimes, NEW d, Calm(r), Remounting("op", here, then, reg, g, r, d)
    PROVE  AllRun'
<1>1. PICK go : go = [here EXCEPT !.then = then, !.todo = {}, !.held = {}]
  OBVIOUS
<1>2. CASE rt' = r /\ \E todo, h : Goto("op", [go EXCEPT !.pc = "mount", !.wait = FALSE,
                                                        !.todo = todo, !.held = h])
  <2>1. PICK todo, h : Goto("op", [go EXCEPT !.pc = "mount", !.wait = FALSE, !.todo = todo, !.held = h])
    BY <1>2
  <2>2. PICK rec : rec = [go EXCEPT !.pc = "mount", !.wait = FALSE, !.todo = todo, !.held = h]
    OBVIOUS
  <2>3. rec.pc = "mount"
    BY <1>1, <2>2 DEF ThreadStates
  <2> QED
    BY <1>2, <2>1, <2>2, <2>3, CalmOn DEF Points
<1>3. CASE rt' = r /\ Goto("op", [go EXCEPT !.pc = "mounted", !.wait = FALSE])
  <2>1. PICK rec : rec = [go EXCEPT !.pc = "mounted", !.wait = FALSE]
    OBVIOUS
  <2>2. rec.pc = "mounted"
    BY <1>1, <2>1 DEF ThreadStates
  <2> QED
    BY <1>3, <2>1, <2>2, CalmOn DEF Points
<1>4. ASSUME NEW reg2, FailingClosed("op", go, "close", reg2, g, r)
      PROVE  AllRun'
  <2>1. go \in ThreadStates
    BY <1>1 DEF ThreadStates
  <2> QED
    BY <1>4, <2>1, FailingClosedRuns
<1> QED
  BY <1>1, <1>2, <1>3, <1>4 DEF Remounting

(* The restart loop of runtime.restore. *)
LEMMA RestoreLoopRuns ==
    ASSUME Inductive, AllRun, NEW r \in Runtimes, Calm(r), RestoreLoop("op", r),
           th["op"].pc \in {"restore", "restart"}
    PROVE  AllRun'
<1>1. th["op"] \in ThreadStates /\ th["op"].ret \in Returns
  BY RunFacts, ThreadFacts DEF Placed
<1>2. CASE rt' = EndRestore(r, th["op"].snap) /\ Goto("op", RestoreEnded(th["op"], TRUE))
  <2>1. PICK rec : rec = RestoreEnded(th["op"], TRUE)
    OBVIOUS
  <2>2. rec.pc \in Returns
    BY <1>1, <2>1 DEF RestoreEnded, ThreadStates
  <2>3. Calm(rt')
    BY <1>2, EndRestoreCalm
  <2> QED
    BY <1>2, <2>1, <2>2, <2>3, CalmOn DEF Returns, Points
<1>3. ASSUME NEW c \in Restartable(r, th["op"].todo), rt' = Park(r, c, Evolves(c)),
             Goto("op", [th["op"] EXCEPT !.pc = "restart", !.wait = TRUE, !.drop = {}, !.start = c,
                                         !.todo = @ \ {c}])
      PROVE  AllRun'
  <2>1. PICK rec : rec = [th["op"] EXCEPT !.pc = "restart", !.wait = TRUE, !.drop = {}, !.start = c,
                                          !.todo = @ \ {c}]
    OBVIOUS
  <2>2. rec.pc = "restart" /\ rec.start = c
    BY <1>1, <2>1 DEF ThreadStates
  <2>3. c \in Candidates /\ c \notin r.generated /\ Evolves(c) \in BOOLEAN
    BY RestartableType DEF Restartable, Evolves
  <2>4. Starting(rt', c)
    BY <1>3, <2>3, ParkStarting
  <2> QED
    BY <1>3, <2>1, <2>2, <2>4, StartOn DEF Starts
<1> QED
  BY <1>2, <1>3 DEF RestoreLoop

-----------------------------------------------------------------------------
(* The waits of runtime.restore and of the remount.                        *)

(* The restart of the snapshot's extensions begins. *)
LEMMA RestoreDroppedRuns ==
    ASSUME Inductive, AllRun, RestoreDropped("op")
    PROVE  AllRun'
<1>1. th["op"].pc = "restore" /\ RestoreLoop("op", Dropped(rt, th["op"].drop))
  BY DEF RestoreDropped
<1>2. Dropped(rt, th["op"].drop) \in Runtimes
  BY RunFacts, StopTypes
<1>3. Calm(Dropped(rt, th["op"].drop))
  BY <1>1, RunFacts, DroppedCalm DEF AllRun, Runs, Stops
<1> QED
  BY <1>1, <1>2, <1>3, RestoreLoopRuns

(* One of them answered, or failed and was given up. *)
LEMMA RestoreStartedRuns ==
    ASSUME Inductive, AllRun, RestoreStarted("op")
    PROVE  AllRun'
<1>1. PICK c : c = th["op"].start
  OBVIOUS
<1>2. /\ th["op"].pc = "restart" /\ c \in Candidates /\ Starting(rt, c)
      /\ th["op"] \in ThreadStates /\ th["op"].ret \in Returns /\ rt \in Runtimes
  BY <1>1, RunFacts, ThreadFacts DEF RestoreStarted, Placed, AllRun, Runs, Starts
<1>3. CASE RestoreLoop("op", Mounted(DiscardParked(Started(rt, c), {c}), c))
  <2>1. Started(rt, c) \in Runtimes /\ OnTrial(Started(rt, c), c)
    BY <1>2, StartTypes, StartedOnTrial
  <2>2. Calm(Mounted(DiscardParked(Started(rt, c), {c}), c))
    BY <1>2, <2>1, CommittedCalm
  <2>3. DiscardParked(Started(rt, c), {c}) \in Runtimes
    BY <2>1, StopTypes
  <2>4. Mounted(DiscardParked(Started(rt, c), {c}), c) \in Runtimes
    BY <1>2, <2>3, StartTypes
  <2> QED
    BY <1>2, <1>3, <2>2, <2>4, RestoreLoopRuns
<1>4. CASE rt' = StartFailed(rt, c, FALSE) /\ Goto("op", RestoreEnded(th["op"], FALSE))
  <2>1. PICK rec : rec = RestoreEnded(th["op"], FALSE)
    OBVIOUS
  <2>2. rec.pc \in Returns
    BY <1>2, <2>1 DEF RestoreEnded, ThreadStates
  <2>3. Calm(rt')
    BY <1>2, <1>4, StartFailedCalm
  <2> QED
    BY <1>4, <2>1, <2>2, <2>3, CalmOn DEF Returns, Points
<1> QED
  BY <1>1, <1>3, <1>4 DEF RestoreStarted

(* A call in the loop of the remount, or past it, finds the runtime calm. *)
LEMMA PointCalm ==
    ASSUME Inductive, AllRun,
           th["op"].pc \in {"mount", "mounted", "clear", "commit", "rollback", "recover", "undo", "revert", "idle"}
    PROVE  Calm(rt)
BY DEF AllRun, Runs, Stops, Starts

(* The remount takes the next committed extension. *)
LEMMA MountNextRuns ==
    ASSUME Inductive, AllRun, MountNext("op")
    PROVE  AllRun'
<1>1. PICK c \in th["op"].todo :
         \/ /\ c \in rt.generated
            /\ rt' = Mounted(DiscardParked(rt, {c}), c)
            /\ Goto("op", [th["op"] EXCEPT !.todo = @ \ {c}])
         \/ /\ c \notin rt.generated
            /\ rt' = Park(rt, c, Evolves(c))
            /\ Goto("op", [th["op"] EXCEPT !.pc = "mounting", !.wait = TRUE, !.todo = @ \ {c}, !.start = c])
  BY DEF MountNext
<1>2. /\ th["op"].pc = "mount" /\ th["op"] \in ThreadStates /\ c \in Candidates /\ Calm(rt)
      /\ rt \in Runtimes /\ rt.live \subseteq Candidates
  BY <1>1, RunFacts, ThreadFacts, PointCalm DEF MountNext, Placed
<1>3. CASE /\ c \in rt.generated /\ rt' = Mounted(DiscardParked(rt, {c}), c)
           /\ Goto("op", [th["op"] EXCEPT !.todo = @ \ {c}])
  <2>1. PICK rec : rec = [th["op"] EXCEPT !.todo = @ \ {c}]
    OBVIOUS
  <2>2. rec.pc = "mount"
    BY <1>2, <2>1 DEF ThreadStates
  <2>3. OnTrial(rt, c)
    BY <1>2, <1>3, CalmOnTrial DEF Calm
  <2>4. Calm(rt')
    BY <1>2, <1>3, <2>3, CommittedCalm
  <2> QED
    BY <1>3, <2>1, <2>2, <2>4, CalmOn DEF Points
<1>4. CASE /\ c \notin rt.generated /\ rt' = Park(rt, c, Evolves(c))
           /\ Goto("op", [th["op"] EXCEPT !.pc = "mounting", !.wait = TRUE, !.todo = @ \ {c}, !.start = c])
  <2>1. PICK rec : rec = [th["op"] EXCEPT !.pc = "mounting", !.wait = TRUE, !.todo = @ \ {c}, !.start = c]
    OBVIOUS
  <2>2. rec.pc = "mounting" /\ rec.start = c
    BY <1>2, <2>1 DEF ThreadStates
  <2>3. Evolves(c) \in BOOLEAN
    BY DEF Evolves
  <2>4. Starting(rt', c)
    BY <1>2, <1>4, <2>3, ParkStarting
  <2> QED
    BY <1>4, <2>1, <2>2, <2>4, StartOn DEF Starts
<1> QED
  BY <1>1, <1>3, <1>4

(* It answered, or failed. *)
LEMMA MountStartedRuns ==
    ASSUME Inductive, AllRun, MountStarted("op")
    PROVE  AllRun'
<1>1. PICK c : c = th["op"].start
  OBVIOUS
<1>2. /\ th["op"].pc = "mounting" /\ c \in Candidates /\ Starting(rt, c)
      /\ th["op"] \in ThreadStates /\ rt \in Runtimes
  BY <1>1, RunFacts, ThreadFacts DEF MountStarted, Placed, AllRun, Runs, Starts
<1>3. CASE /\ rt' = Mounted(DiscardParked(Started(rt, c), {c}), c)
           /\ Goto("op", [th["op"] EXCEPT !.pc = "mount", !.wait = FALSE, !.start = None])
  <2>1. Started(rt, c) \in Runtimes /\ OnTrial(Started(rt, c), c)
    BY <1>2, StartTypes, StartedOnTrial
  <2>2. Calm(rt')
    BY <1>2, <1>3, <2>1, CommittedCalm
  <2>3. PICK rec : rec = [th["op"] EXCEPT !.pc = "mount", !.wait = FALSE, !.start = None]
    OBVIOUS
  <2>4. rec.pc = "mount"
    BY <1>2, <2>3 DEF ThreadStates
  <2> QED
    BY <1>3, <2>2, <2>3, <2>4, CalmOn DEF Points
<1>4. ASSUME NEW clash \in Clashes(c), NEW snap,
             Restoring("op", th["op"], "clear", snap, registry, StartFailed(rt, c, clash))
      PROVE  AllRun'
  <2>1. clash \in BOOLEAN
    BY DEF Clashes
  <2>2. Calm(StartFailed(rt, c, clash)) /\ StartFailed(rt, c, clash) \in Runtimes
    BY <1>2, <2>1, StartFailedCalm, StartFailedType
  <2> QED
    BY <1>2, <1>4, <2>2, RestoringRuns
<1> QED
  BY <1>1, <1>3, <1>4 DEF MountStarted

(* The last one was mounted. *)
LEMMA MountsDoneRuns ==
    ASSUME Inductive, AllRun, MountsDone("op")
    PROVE  AllRun'
<1>1. th["op"].pc = "mount" /\ th["op"] \in ThreadStates /\ Calm(rt')
  BY RunFacts, PointCalm DEF MountsDone
<1>2. PICK rec : rec = [th["op"] EXCEPT !.pc = "mounted", !.wait = FALSE]
  OBVIOUS
<1>3. rec.pc = "mounted"
  BY <1>1, <1>2 DEF ThreadStates
<1> QED
  BY <1>1, <1>2, <1>3, CalmOn DEF MountsDone, Points

(* A remount that failed has stopped every extension. *)
LEMMA MountsClearedRuns ==
    ASSUME Inductive, AllRun, MountsCleared("op")
    PROVE  AllRun'
BY RunFacts, PointCalm, FailingClosedRuns DEF MountsCleared

(* A home that fails closed has stopped every extension. *)
LEMMA ClosedRuns ==
    ASSUME Inductive, AllRun, Closed("op")
    PROVE  AllRun'
<1>1. th["op"].pc = "close" /\ th["op"] \in ThreadStates /\ Stopping(rt, th["op"].drop) /\ rt \in Runtimes
  BY RunFacts DEF Closed, AllRun, Runs, Stops
<1>2. PICK rec : rec = [th["op"] EXCEPT !.pc = "mounted", !.wait = FALSE, !.drop = {}]
  OBVIOUS
<1>3. rec.pc = "mounted"
  BY <1>1, <1>2 DEF ThreadStates
<1>4. Calm(rt')
  BY <1>1, DroppedCalm DEF Closed
<1> QED
  BY <1>2, <1>3, <1>4, CalmOn DEF Closed, Points

-----------------------------------------------------------------------------
(* The steps of the lifecycle calls.                                       *)

(* The child of the candidate answered, or failed. *)
LEMMA ActivatePreparedRuns ==
    ASSUME Inductive, AllRun, ActivatePrepared
    PROVE  AllRun'
<1>1. PICK c : c = th["op"].cand
  OBVIOUS
<1>2. /\ th["op"].pc = "prepare" /\ c \in Candidates /\ th["op"] \in ThreadStates /\ rt \in Runtimes
      /\ th["op"].start = None => c \in rt.live /\ Calm(rt)
      /\ th["op"].start # None => Starting(rt, c) /\ th["op"].start = c
  <2>1. th["op"].pc = "prepare" /\ c \in blessed /\ blessed \subseteq Candidates
    BY <1>1, RunFacts, ThreadFacts DEF ActivatePrepared, Placed, Inductive
  <2>2. th["op"].start \in {None, c} /\ (th["op"].start = None => c \in rt.live)
    BY <1>1, <2>1 DEF AllRun, Runs
  <2>3. th["op"].start = None => Calm(rt)
    BY <2>1 DEF AllRun, Runs, Stops, Starts
  <2>4. th["op"].start # None => Starting(rt, th["op"].start)
    BY <2>1 DEF AllRun, Runs, Starts
  <2> QED
    BY <2>1, <2>2, <2>3, <2>4, RunFacts
<1>3. ASSUME OnTrial(rt', c),
             Goto("op", [th["op"] EXCEPT !.pc = "health", !.wait = TRUE, !.start = None])
      PROVE  AllRun'
  <2>1. PICK rec : rec = [th["op"] EXCEPT !.pc = "health", !.wait = TRUE, !.start = None]
    OBVIOUS
  <2>2. rec.pc = "health" /\ rec.cand = c
    BY <1>1, <1>2, <2>1 DEF ThreadStates
  <2>3. th'["op"] = rec /\ \A d \in Candidates : th'[d] = th[d]
    BY <1>3, <2>1, RunFacts, Moved
  <2>4. Runs(rec, rt')
    BY <1>3, <2>2 DEF Runs, Stops, Starts
  <2> QED
    BY <2>3, <2>4 DEF AllRun
<1>4. ASSUME NEW r \in Prepared(c)
      PROVE  OnTrial(r, c) /\ r \in Runtimes
  <2>1. CASE th["op"].start = None /\ r = rt
    BY <1>2, <2>1, CalmOnTrial, RunFacts
  <2>2. CASE th["op"].start = c /\ r = Started(rt, c)
    <3>1. c # None
      BY <1>2, GovernanceAssumption, RowsAssumption
    <3> QED
      BY <1>2, <2>2, <3>1, StartTypes, StartedOnTrial
  <2> QED
    BY <2>1, <2>2 DEF Prepared
<1>5. ASSUME NEW r \in Prepared(c), Restoring("op", th["op"], "undo", th["op"].snap, registry, r)
      PROVE  AllRun'
  BY <1>2, <1>4, <1>5, RestoringRuns
<1>6. ASSUME th["op"].start = c, NEW clash \in Clashes(c),
             Restoring("op", th["op"], "undo", th["op"].snap, registry, StartFailed(rt, c, clash))
      PROVE  AllRun'
  <2>1. clash \in BOOLEAN /\ c # None
    BY <1>2, GovernanceAssumption, RowsAssumption DEF Clashes
  <2>2. Calm(StartFailed(rt, c, clash)) /\ StartFailed(rt, c, clash) \in Runtimes
    BY <1>2, <1>6, <2>1, StartFailedCalm, StartFailedType
  <2> QED
    BY <1>2, <1>6, <2>2, RestoringRuns
<1> QED
  BY <1>1, <1>3, <1>4, <1>5, <1>6 DEF ActivatePrepared

(* What the trial of a candidate starts from. *)
LEMMA Trying ==
    ASSUME Inductive, AllRun, th["op"].pc = "health"
    PROVE  /\ th["op"].cand \in Candidates /\ OnTrial(rt, th["op"].cand)
           /\ th["op"] \in ThreadStates /\ rt \in Runtimes
<1>1. th["op"].cand \in blessed /\ blessed \subseteq Candidates
  BY RunFacts, ThreadFacts DEF Placed, Inductive
<1>2. OnTrial(rt, th["op"].cand)
  BY DEF AllRun, Runs
<1> QED
  BY <1>1, <1>2, RunFacts

(* The candidate is committed, and what it displaced is discarded. *)
LEMMA ActivateHealthyRuns ==
    ASSUME Inductive, AllRun, ActivateHealthy
    PROVE  AllRun'
<1>1. PICK c : c = th["op"].cand
  OBVIOUS
<1>2. c \in Candidates /\ OnTrial(rt, c) /\ th["op"] \in ThreadStates /\ rt \in Runtimes
  BY <1>1, Trying DEF ActivateHealthy
<1>3. CASE /\ rt' = DiscardParked(rt, {c})
           /\ Goto("op", [th["op"] EXCEPT !.pc = "commit", !.wait = rt.parked[c] # {}])
  <2>1. PICK rec : rec = [th["op"] EXCEPT !.pc = "commit", !.wait = rt.parked[c] # {}]
    OBVIOUS
  <2>2. rec.pc = "commit" /\ rec.cand = c
    BY <1>1, <1>2, <2>1 DEF ThreadStates
  <2>3. Calm(rt')
    BY <1>2, <1>3, CommittedCalm
  <2>4. c \in rt'.live
    BY <1>2, <1>3 DEF OnTrial, DiscardParked, Runtimes
  <2>5. th'["op"] = rec /\ \A d \in Candidates : th'[d] = th[d]
    BY <1>3, <2>1, RunFacts, Moved
  <2>6. Runs(rec, rt')
    BY <2>2, <2>3, <2>4 DEF Runs, Stops, Starts
  <2> QED
    BY <2>5, <2>6 DEF AllRun
<1>4. ASSUME NEW reg, Restoring("op", th["op"], "undo", th["op"].snap, reg, rt)
      PROVE  AllRun'
  BY <1>2, <1>4, RestoringRuns
<1> QED
  BY <1>1, <1>3, <1>4 DEF ActivateHealthy

(* The candidate is given up. *)
LEMMA ActivateUnhealthyRuns ==
    ASSUME Inductive, AllRun, ActivateUnhealthy
    PROVE  AllRun'
BY Trying, RestoringRuns DEF ActivateUnhealthy

(* The commit is written, or its write fails. *)
LEMMA ActivateCommittedRuns ==
    ASSUME Inductive, AllRun, ActivateCommitted
    PROVE  AllRun'
<1>1. PICK c : c = th["op"].cand
  OBVIOUS
<1>2. /\ c \in rt.live /\ Calm(rt) /\ c \in Candidates
      /\ th["op"] \in ThreadStates /\ rt \in Runtimes
  BY <1>1, RunFacts, PointCalm DEF ActivateCommitted, AllRun, Runs
<1>3. PICK r : r = Mounted(rt, c)
  OBVIOUS
<1>4. Calm(r) /\ r \in Runtimes
  <2>1. r.generated = rt.generated /\ r.live = rt.live /\ r.mounted = rt.mounted \cup {c} /\ r.parked = rt.parked
    BY <1>2, <1>3 DEF Mounted, Runtimes
  <2>2. Calm(r)
    BY <1>2, <2>1 DEF Calm
  <2> QED
    BY <1>2, <1>3, <2>2, StartTypes
<1>5. CASE rt' = r /\ Release
  BY <1>4, <1>5, CalmRest DEF Release
<1>6. CASE Restoring("op", th["op"], "undo", th["op"].snap, registry, r)
  BY <1>2, <1>4, <1>6, RestoringRuns
<1> QED
  BY <1>1, <1>3, <1>5, <1>6 DEF ActivateCommitted

(* The undo of a failed activation ends. *)
LEMMA ActivateUndoneRuns ==
    ASSUME Inductive, AllRun, ActivateUndone
    PROVE  AllRun'
<1>1. Calm(rt') /\ Rest("op")
  BY PointCalm DEF ActivateUndone, Release, FlushLost
<1> QED
  BY <1>1, CalmRest

(* A rollback begins. *)
LEMMA StartRollbackRuns ==
    ASSUME Inductive, AllRun, NEW g, NEW prior \in Govs, Calm(rt), StartRollback(g, prior, rt)
    PROVE  AllRun'
<1>1. PICK here : here = [Resting EXCEPT !.prior = prior, !.cand = None]
  OBVIOUS
<1>2. here \in ThreadStates
  BY <1>1, RunFacts DEF ThreadStates
<1> QED
  BY <1>1, <1>2, RunFacts, RestoringRuns DEF StartRollback

(* A rollback is asked for. *)
LEMMA RollbackRuns ==
    ASSUME Inductive, AllRun, Rollback, th["op"].pc = "idle"
    PROVE  AllRun'
<1>1. Calm(rt) /\ gov \in Govs
  BY PointCalm, SoundTyped DEF Inductive
<1>2. Rest("op") /\ UNCHANGED rt => AllRun'
  BY <1>1, CalmRest
<1> QED
  BY <1>1, <1>2, StartRollbackRuns DEF Rollback, FlushLost

(* The target is restored, or restoring it failed. *)
LEMMA RollbackRestoredRuns ==
    ASSUME Inductive, AllRun, RollbackRestored
    PROVE  AllRun'
<1>1. Calm(rt) /\ th["op"] \in ThreadStates /\ rt \in Runtimes
  BY RunFacts, PointCalm DEF RollbackRestored
<1>2. ASSUME NEW reg, NEW g, Remounting("op", th["op"], "rollback", reg, g, rt, disk)
      PROVE  AllRun'
  BY <1>1, <1>2, RemountingRuns
<1>3. ASSUME NEW g, NEW reg, Recovering(th["op"], g, reg, rt)
      PROVE  AllRun'
  BY <1>1, <1>3, RestoringRuns DEF Recovering
<1> QED
  BY <1>2, <1>3 DEF RollbackRestored

(* A rollback ends. *)
LEMMA RollbackMountedRuns ==
    ASSUME Inductive, AllRun, RollbackMounted
    PROVE  AllRun'
<1>1. Calm(rt) /\ th["op"] \in ThreadStates /\ rt \in Runtimes /\ Resting \in ThreadStates
  BY RunFacts, PointCalm DEF RollbackMounted
<1>2. ASSUME NEW g, NEW d, Remounting("op", Resting, "boot", registry, g, rt, d)
      PROVE  AllRun'
  BY <1>1, <1>2, RemountingRuns
<1>3. ASSUME NEW g, Recovering(th["op"], g, registry, rt)
      PROVE  AllRun'
  BY <1>1, <1>3, RestoringRuns DEF Recovering
<1>4. CASE UNCHANGED rt /\ Release
  BY <1>1, <1>4, CalmRest DEF Release
<1> QED
  BY <1>2, <1>3, <1>4 DEF RollbackMounted

(* The process ends: nothing runs. *)
LEMMA HaltRuns ==
    ASSUME Halt
    PROVE  AllRun'
<1>1. /\ rt' = FreshRuntime
      /\ th'["op"] = Resting /\ \A c \in Candidates : th'[c] = Resting
  BY DEF Halt, Threads
<1>2. Resting.pc = "idle"
  BY DEF Resting
<1>3. Runs(Resting, FreshRuntime)
  BY <1>2, FreshCalm DEF Runs, Stops, Starts
<1> QED
  BY <1>1, <1>2, <1>3 DEF AllRun

(* What ran before a failed rollback is restored. *)
LEMMA RollbackRecoveredRuns ==
    ASSUME Inductive, AllRun, RollbackRecovered
    PROVE  AllRun'
<1>1. Calm(rt) /\ th["op"] \in ThreadStates /\ rt \in Runtimes
  BY RunFacts, PointCalm DEF RollbackRecovered
<1>2. CASE Halt
  BY <1>2, HaltRuns
<1>3. CASE Rest("op") /\ UNCHANGED rt
  BY <1>1, <1>3, CalmRest
<1>4. ASSUME NEW reg, NEW g, FailingClosed("op", th["op"], "shut", reg, g, rt)
      PROVE  AllRun'
  BY <1>1, <1>4, FailingClosedRuns
<1> QED
  BY <1>2, <1>3, <1>4 DEF RollbackRecovered, FlushLost, Die

(* Children that ended. *)
LEMMA StoppedCalm ==
    ASSUME Inductive, AllRun, Stops(th["op"])
    PROVE  Calm(Dropped(rt, th["op"].drop)) /\ Dropped(rt, th["op"].drop) \in Runtimes
<1>1. Stopping(rt, th["op"].drop) /\ rt \in Runtimes
  BY RunFacts DEF AllRun, Runs
<1> QED
  BY <1>1, DroppedCalm, StopTypes

(* A rollback that cannot recover has failed closed. *)
LEMMA RollbackClosedRuns ==
    ASSUME Inductive, AllRun, RollbackClosed
    PROVE  AllRun'
<1>1. PICK r : r = Dropped(rt, th["op"].drop)
  OBVIOUS
<1>2. Calm(r) /\ r \in Runtimes /\ Resting \in ThreadStates
  BY <1>1, RunFacts, StoppedCalm DEF RollbackClosed, Stops
<1>3. ASSUME NEW g, NEW d, Remounting("op", Resting, "boot", registry, g, r, d)
      PROVE  AllRun'
  BY <1>2, <1>3, RemountingRuns
<1>4. CASE rt' = r /\ Rest("op")
  BY <1>2, <1>4, CalmRest
<1> QED
  BY <1>1, <1>3, <1>4 DEF RollbackClosed

(* Safe Mode has stopped every extension. *)
LEMMA SafeModeEnteredRuns ==
    ASSUME Inductive, AllRun, SafeModeEntered
    PROVE  AllRun'
BY StoppedCalm, CalmRest DEF SafeModeEntered, Stops

(* A disable or uninstall ends, or its write fails. *)
LEMMA RemovedRuns ==
    ASSUME Inductive, AllRun, Removed
    PROVE  AllRun'
<1>1. PICK r : r = Dropped(rt, th["op"].drop)
  OBVIOUS
<1>2. Calm(r) /\ r \in Runtimes /\ th["op"] \in ThreadStates
  BY <1>1, RunFacts, StoppedCalm DEF Removed, Stops
<1>3. CASE rt' = r /\ Release
  BY <1>2, <1>3, CalmRest DEF Release
<1>4. CASE Restoring("op", th["op"], "revert", th["op"].prior.current, registry', r)
  BY <1>2, <1>4, RestoringRuns
<1> QED
  BY <1>1, <1>3, <1>4 DEF Removed

(* A failed removal is taken back. *)
LEMMA RemoveRevertedRuns ==
    ASSUME Inductive, AllRun, RemoveReverted
    PROVE  AllRun'
<1>1. Calm(rt') /\ Rest("op")
  BY PointCalm DEF RemoveReverted, Release, FlushLost
<1> QED
  BY <1>1, CalmRest

(* A boot ends. *)
LEMMA BootedRuns ==
    ASSUME Inductive, AllRun, Booted
    PROVE  AllRun'
<1>1. Calm(rt') /\ Rest("op")
  BY PointCalm DEF Booted
<1> QED
  BY <1>1, CalmRest

(* A boot begins with nothing running. *)
LEMMA BootRuns ==
    ASSUME Inductive, AllRun, Boot
    PROVE  AllRun'
<1>1. th["op"].pc = "idle" /\ Calm(rt) /\ rt \in Runtimes /\ Resting \in ThreadStates
  BY RunFacts, PointCalm DEF Boot, Inductive
<1>2. ASSUME NEW g, NEW d, Remounting("op", Resting, "boot", registry, g, rt, d)
      PROVE  AllRun'
  BY <1>1, <1>2, RemountingRuns
<1>3. ASSUME StartRollback(gov, [gov EXCEPT !.state = "active"], rt)
      PROVE  AllRun'
  <2>1. [gov EXCEPT !.state = "active"] \in Govs
    BY SoundTyped DEF Inductive, Govs, ActivationStates
  <2> QED
    BY <1>1, <1>3, <2>1, StartRollbackRuns
<1>4. \/ /\ gov.state \notin {"activation-pending", "activating"} /\ gov.state = "rollback-pending"
         /\ StartRollback(gov, [gov EXCEPT !.state = "active"], rt)
      \/ \E g, d : Remounting("op", Resting, "boot", registry, g, rt, d)
  BY DEF Boot
<1> QED
  BY <1>2, <1>3, <1>4

-----------------------------------------------------------------------------
(* The requests, the environment, and the theorem.                         *)

(* An activation begins: the prior version is parked. *)
LEMMA ActivateStartRuns ==
    ASSUME Inductive, AllRun, th["op"].pc = "idle", NEW c \in Candidates, ActivateStart(c)
    PROVE  AllRun'
<1>10. CASE Rest("op") /\ UNCHANGED rt
  BY <1>10, CalmRest, PointCalm
<1> SUFFICES ASSUME ~(Rest("op") /\ UNCHANGED rt)
             PROVE  AllRun'
  BY <1>10
<1>1. Calm(rt) /\ rt \in Runtimes /\ Resting \in ThreadStates /\ gov \in Govs /\ gov.lkg \in Snapshots
  <2>1. gov \in Govs
    BY SoundTyped DEF Inductive
  <2> QED
    BY <2>1, RunFacts, PointCalm DEF Govs
<1>2. PICK start : start = (IF c \in rt.generated THEN None ELSE c)
  OBVIOUS
<1>3. PICK rec : rec = [Resting EXCEPT !.pc = "prepare", !.cand = c, !.snap = gov.lkg, !.prior = gov,
                                      !.wait = c \notin rt.generated, !.start = start]
  OBVIOUS
<1>4. rec.pc = "prepare" /\ rec.cand = c /\ rec.start = start
  BY <1>1, <1>3 DEF ThreadStates
<1>5. Goto("op", rec) /\ rt' = Park(rt, c, Evolves(c))
  BY <1>2, <1>3 DEF ActivateStart, FlushLost
<1>6. th'["op"] = rec /\ \A d \in Candidates : th'[d] = th[d]
  BY <1>5, RunFacts, Moved
<1>7. c # None
  BY GovernanceAssumption, RowsAssumption
<1>8. CASE c \in rt.generated
  <2>1. start = None /\ rt' = rt /\ c \in rt.live
    BY <1>1, <1>2, <1>5, <1>8 DEF Park, Calm
  <2>2. Runs(rec, rt')
    BY <1>1, <1>4, <2>1 DEF Runs, Stops, Starts
  <2> QED
    BY <1>6, <2>2 DEF AllRun
<1>9. CASE c \notin rt.generated
  <2>1. Evolves(c) \in BOOLEAN
    BY DEF Evolves
  <2>2. start = c /\ Starting(rt', c)
    BY <1>1, <1>2, <1>5, <1>9, <2>1, ParkStarting
  <2> QED
    BY <1>4, <1>5, <1>7, <2>2, StartOn DEF Starts
<1> QED
  BY <1>8, <1>9

(* Safe Mode is asked for. *)
LEMMA EnterSafeModeRuns ==
    ASSUME Inductive, AllRun, th["op"].pc = "idle", EnterSafeMode
    PROVE  AllRun'
<1>1. Calm(rt) /\ rt \in Runtimes /\ Resting \in ThreadStates
  BY RunFacts, PointCalm
<1>2. PICK rec : rec = [Resting EXCEPT !.pc = "safe", !.wait = UnloadWaits(rt, Candidates),
                                      !.drop = rt.generated]
  OBVIOUS
<1>3. rec.pc = "safe" /\ rec.drop = rt.generated
  BY <1>1, <1>2 DEF ThreadStates
<1>4. Goto("op", rec) /\ rt' = Unloading(rt, Candidates)
  BY <1>2 DEF EnterSafeMode
<1>5. Stopping(Unloading(rt, Candidates), Candidates \cap rt.generated)
  BY <1>1, UnloadStopping
<1>6. Candidates \cap rt.generated = rt.generated
  BY RunFacts
<1> QED
  BY <1>3, <1>4, <1>5, <1>6, StopOn DEF Stops

(* A disable or uninstall is asked for. *)
LEMMA RemoveStartRuns ==
    ASSUME Inductive, AllRun, th["op"].pc = "idle", NEW x, NEW kind \in {"disable", "uninstall"},
           RemoveStart(x, kind)
    PROVE  AllRun'
<1>1. Calm(rt) /\ rt \in Runtimes /\ Resting \in ThreadStates
  BY RunFacts, PointCalm
<1>2. PICK unload : unload = {x} \cap Candidates
  OBVIOUS
<1>3. PICK rec : rec = [Resting EXCEPT !.pc = kind, !.wait = UnloadWaits(rt, unload), !.todo = {x},
                                      !.drop = unload \cap rt.generated, !.prior = gov]
  OBVIOUS
<1>4. rec.pc = kind /\ rec.drop = unload \cap rt.generated
  BY <1>1, <1>3 DEF ThreadStates
<1>5. Goto("op", rec) /\ rt' = Unloading(rt, unload)
  BY <1>2, <1>3 DEF RemoveStart
<1>6. Stopping(Unloading(rt, unload), unload \cap rt.generated)
  BY <1>1, UnloadStopping
<1> QED
  BY <1>4, <1>5, <1>6, StopOn DEF Stops

(* The lifecycle is asked for something only when no call is under way. *)
LEMMA IdleCall ==
    ASSUME Inductive, LockInv, LifecycleIdle
    PROVE  th["op"].pc = "idle"
BY Begun

(* Every request. *)
LEMMA RequestRuns ==
    ASSUME Inductive, LockInv, AllRun, Request
    PROVE  AllRun'
<1>1. CASE UNCHANGED <<rt, th>>
  BY <1>1 DEF AllRun
<1>2. ASSUME NEW c \in Candidates, ActivateStart(c)
      PROVE  AllRun'
  BY <1>2, IdleCall, ActivateStartRuns DEF ActivateStart
<1>3. ASSUME NEW x \in Rows, NEW kind \in {"disable", "uninstall"}, RemoveStart(x, kind)
      PROVE  AllRun'
  BY <1>3, IdleCall, RemoveStartRuns DEF RemoveStart
<1>4. CASE Rollback
  BY <1>4, IdleCall, RollbackRuns DEF Rollback
<1>5. CASE EnterSafeMode
  BY <1>5, IdleCall, EnterSafeModeRuns DEF EnterSafeMode
<1>6. ASSUME NEW c \in Candidates,
             \/ RequestApproval(c) \/ RecordApproval(c, "approved-for-exact-diff")
             \/ RecordApproval(c, "rejected") \/ AbandonFailedActivation(c)
      PROVE  UNCHANGED <<rt, th>>
  BY <1>6 DEF RequestApproval, RecordApproval, AbandonFailedActivation
<1>7. ExitSafeMode => UNCHANGED <<rt, th>>
  BY DEF ExitSafeMode
<1> QED
  BY <1>1, <1>2, <1>3, <1>4, <1>5, <1>6, <1>7, Zenon DEF Request

(* Only the death of a child counts as one. *)
LEMMA DeathsCounted ==
    ASSUME Inductive, [Next]_vars, spent'.fatals = 0
    PROVE  spent.fatals = 0 /\ \A c \in Candidates : ~RunnerDies(c)
BY SpentGrows

(* Every step keeps the invariant. *)
LEMMA NextRuns ==
    ASSUME Inductive, LockInv, RunsInv, [Next]_vars
    PROVE  RunsInv'
<1> SUFFICES ASSUME spent'.fatals = 0
             PROVE  AllRun'
  BY DEF RunsInv
<1>1. AllRun /\ \A c \in Candidates : ~RunnerDies(c)
  BY DeathsCounted DEF RunsInv
<1>2. ASSUME NEW t \in Threads, Advance(t)
      PROVE  AllRun'
  <2>1. CASE t \in Candidates
    BY <1>1, <1>2, <2>1, OpApart DEF AllRun, Advance, FailureStep, FailureRestored,
       FailureHandled, MountStep,
       RestoreDropped, RestoreStarted, MountNext, MountStarted, MountsDone, MountsCleared, Closed
  <2>2. CASE OpStep
    BY <1>1, <2>2, ActivatePreparedRuns, ActivateHealthyRuns, ActivateUnhealthyRuns,
       ActivateCommittedRuns,
       ActivateUndoneRuns, RollbackRestoredRuns, RollbackMountedRuns, RollbackRecoveredRuns,
       RollbackClosedRuns, SafeModeEnteredRuns, RemovedRuns, RemoveRevertedRuns, BootedRuns DEF OpStep
  <2>3. CASE MountStep("op")
    BY <1>1, <2>3, RestoreDroppedRuns, RestoreStartedRuns, MountNextRuns, MountStartedRuns,
       MountsDoneRuns, MountsClearedRuns, ClosedRuns DEF MountStep
  <2> QED
    BY <1>2, <2>1, <2>2, <2>3, OpApart DEF Advance, Threads
<1>3. CASE Environment
  <2>1. Crash => AllRun'
    BY HaltRuns DEF Crash, Die
  <2>2. ASSUME NEW c \in Candidates, Tamper(c)
        PROVE  AllRun'
    BY <1>1, <2>2 DEF Tamper, AllRun
  <2> QED
    BY <1>1, <1>3, <2>1, <2>2 DEF Environment
<1>4. CASE UNCHANGED vars
  BY <1>1, <1>4 DEF vars, AllRun
<1> QED
  BY <1>1, <1>2, <1>3, <1>4, RequestRuns, BootRuns DEF Next

(* The invariant holds at first. *)
LEMMA InitRuns ==
    ASSUME Init
    PROVE  RunsInv
<1>1. th["op"] = Resting /\ rt = FreshRuntime /\ \A c \in Candidates : th[c] = Resting
  BY DEF Init, Threads
<1>2. Runs(Resting, FreshRuntime) /\ Resting.pc = "idle"
  BY FreshCalm DEF Runs, Stops, Starts, Resting
<1> QED
  BY <1>1, <1>2 DEF RunsInv, AllRun

(* RuntimeSettled: as long as no child dies, every way through prepare,    *)
(* verifyHealth, commit, restore, unloadGenerated and the remount leaves   *)
(* one answering runner per owner, none parked, and a snapshot would name  *)
(* only what runs.                                                         *)
THEOREM RunnersSettle == Spec => []RuntimeSettled
<1>1. Init => Inductive /\ LockInv /\ RunsInv
  BY InitInductive, InitLock, InitRuns
<1>2. (Inductive /\ LockInv /\ RunsInv) /\ [Next]_vars => (Inductive /\ LockInv /\ RunsInv)'
  BY NextInductive, NextLock, NextRuns
<1>3. Inductive /\ RunsInv => RuntimeSettled
  <2> SUFFICES ASSUME Inductive, RunsInv, spent.fatals = 0
               PROVE  /\ Quiet => /\ rt.generated = rt.live /\ rt.mounted \subseteq rt.live
                                  /\ rt.parked = NobodyParked
                      /\ \A x, y \in rt.live : SameOwner(x, y) => x = y
    BY DEF RuntimeSettled
  <2>1. Runs(th["op"], rt)
    BY DEF RunsInv, AllRun
  <2>2. ASSUME Quiet
        PROVE  Calm(rt)
    BY <2>2, RunFacts, PointCalm DEF Quiet, RunsInv
  <2>3. OneEach(rt.live)
    BY <2>1 DEF Runs, Calm, Stopping, Starting, OnTrial
  <2> QED
    BY <2>2, <2>3 DEF Calm, OneEach
<1> QED
  BY <1>1, <1>2, <1>3, PTL DEF Spec

-----------------------------------------------------------------------------
(* The base of a change, while it is activated.                            *)

(* The call waits for the candidate it activates. *)
Trial(rec) == rec.pc \in {"prepare", "health"}

(* As long as no child dies, the base checked at the start still holds.    *)
BaseInv == spent.fatals = 0 /\ Trial(th["op"]) => BaseHolds(th["op"].cand)

(* runtime.restore is another wait, even where it starts in the same step. *)
LEMMA RestoringWaits ==
    ASSUME Inductive, NEW here \in ThreadStates, NEW ret, NEW snap, NEW reg, NEW r,
           Restoring("op", here, ret, snap, reg, r)
    PROVE  ~Trial(th'["op"])
<1>1. PICK rec : rec = [here EXCEPT !.pc = "restore", !.wait = RestoreWaits(r, snap), !.ret = ret,
                                    !.snap = snap, !.owners = Active(reg), !.todo = snap.mounted,
                                    !.drop = Unwanted(r, snap)]
  OBVIOUS
<1>2. rec.pc = "restore"
  BY <1>1 DEF ThreadStates
<1> QED
  BY <1>1, <1>2, RunFacts, Moved DEF Trial, Restoring

(* After it the call waits for what the restore was for.                  *)
LEMMA RestoreEndedWaits ==
    ASSUME Inductive, NEW ok, Goto("op", RestoreEnded(th["op"], ok))
    PROVE  ~Trial(th'["op"])
<1>1. PICK rec : rec = RestoreEnded(th["op"], ok)
  OBVIOUS
<1>2. rec.pc = th["op"].ret /\ th["op"].ret \in Returns \cup {"none"}
  BY <1>1, RunFacts DEF RestoreEnded, ThreadStates
<1> QED
  BY <1>1, <1>2, RunFacts, Moved DEF Trial, Returns

(* Failing closed waits for the unload of what is generated.               *)
LEMMA FailingClosedWaits ==
    ASSUME Inductive, NEW here \in ThreadStates, NEW pc \in {"shut", "close"}, NEW reg, NEW g, NEW r,
           FailingClosed("op", here, pc, reg, g, r)
    PROVE  ~Trial(th'["op"])
<1>1. PICK rec : rec = [here EXCEPT !.pc = pc, !.wait = UnloadWaits(r, Candidates), !.drop = r.generated]
  OBVIOUS
<1>2. rec.pc = pc
  BY <1>1 DEF ThreadStates
<1> QED
  BY <1>1, <1>2, RunFacts, Moved DEF Trial, FailingClosed

(* The remount of the last known good goes through its own waits.           *)
LEMMA RemountingWaits ==
    ASSUME Inductive, NEW here \in ThreadStates, NEW then \in {"boot", "rollback"}, NEW reg, NEW g,
           NEW r, NEW d, Remounting("op", here, then, reg, g, r, d)
    PROVE  ~Trial(th'["op"])
<1>1. PICK go : go = [here EXCEPT !.then = then, !.todo = {}, !.held = {}]
  OBVIOUS
<1>2. go \in ThreadStates
  BY <1>1 DEF ThreadStates
<1>3. PICK rec : rec = [go EXCEPT !.pc = "mounted", !.wait = FALSE]
  OBVIOUS
<1>4. rec.pc = "mounted"
  BY <1>2, <1>3 DEF ThreadStates
<1>5. Goto("op", rec) => ~Trial(th'["op"])
  BY <1>4, RunFacts, Moved DEF Trial
<1>6. ASSUME NEW todo, NEW held, Goto("op", [go EXCEPT !.pc = "mount", !.wait = FALSE, !.todo = todo, !.held = held])
      PROVE  ~Trial(th'["op"])
  <2>1. PICK r2 : r2 = [go EXCEPT !.pc = "mount", !.wait = FALSE, !.todo = todo, !.held = held]
    OBVIOUS
  <2>2. r2.pc = "mount"
    BY <1>2, <2>1 DEF ThreadStates
  <2> QED
    BY <1>6, <2>1, <2>2, RunFacts, Moved DEF Trial
<1>7. ASSUME NEW reg2, FailingClosed("op", go, "close", reg2, g, r)
      PROVE  ~Trial(th'["op"])
  BY <1>2, <1>7, FailingClosedWaits
<1> QED
  BY <1>1, <1>3, <1>5, <1>6, <1>7 DEF Remounting

(* A wait of runtime.restore is followed by another one, or by its return. *)
LEMMA RestoreLoopWaits ==
    ASSUME Inductive, NEW r, RestoreLoop("op", r)
    PROVE  ~Trial(th'["op"])
<1>1. ASSUME NEW c, Goto("op", [th["op"] EXCEPT !.pc = "restart", !.wait = TRUE, !.drop = {}, !.start = c,
                                               !.todo = @ \ {c}])
      PROVE  ~Trial(th'["op"])
  <2>1. PICK rec : rec = [th["op"] EXCEPT !.pc = "restart", !.wait = TRUE, !.drop = {}, !.start = c,
                                          !.todo = @ \ {c}]
    OBVIOUS
  <2>2. rec.pc = "restart"
    BY <2>1, RunFacts DEF ThreadStates
  <2> QED
    BY <1>1, <2>1, <2>2, RunFacts, Moved DEF Trial
<1> QED
  BY <1>1, RestoreEndedWaits DEF RestoreLoop

(* No wait of runtime.restore or of the remount is one for a candidate.    *)
LEMMA MountWaits ==
    ASSUME Inductive, MountStep("op")
    PROVE  ~Trial(th'["op"])
<1> th["op"] \in ThreadStates /\ "op" \in Threads
  BY RunFacts
<1>1. RestoreDropped("op") => ~Trial(th'["op"])
  BY RestoreLoopWaits DEF RestoreDropped
<1>2. CASE RestoreStarted("op")
  BY <1>2, RestoreEndedWaits, RestoreLoopWaits DEF RestoreStarted
<1>3. CASE MountNext("op")
  <2>1. PICK c \in th["op"].todo :
             /\ th["op"].pc = "mount"
             /\ \/ Goto("op", [th["op"] EXCEPT !.todo = @ \ {c}])
                \/ Goto("op", [th["op"] EXCEPT !.pc = "mounting", !.wait = TRUE, !.todo = @ \ {c}, !.start = c])
    BY <1>3 DEF MountNext
  <2>2. PICK rec : rec = [th["op"] EXCEPT !.todo = @ \ {c}]
    OBVIOUS
  <2>3. PICK rec2 : rec2 = [th["op"] EXCEPT !.pc = "mounting", !.wait = TRUE, !.todo = @ \ {c}, !.start = c]
    OBVIOUS
  <2>4. rec.pc = "mount" /\ rec2.pc = "mounting"
    BY <2>1, <2>2, <2>3 DEF ThreadStates
  <2> QED
    BY <2>1, <2>2, <2>3, <2>4, Moved DEF Trial
<1>4. CASE MountStarted("op")
  <2>1. PICK rec : rec = [th["op"] EXCEPT !.pc = "mount", !.wait = FALSE, !.start = None]
    OBVIOUS
  <2>2. rec.pc = "mount"
    BY <2>1 DEF ThreadStates
  <2>3. Goto("op", rec) => ~Trial(th'["op"])
    BY <2>2, Moved DEF Trial
  <2>4. ASSUME NEW snap, NEW r, Restoring("op", th["op"], "clear", snap, registry, r)
        PROVE  ~Trial(th'["op"])
    BY <2>4, RestoringWaits
  <2> QED
    BY <1>4, <2>1, <2>3, <2>4 DEF MountStarted
<1>5. CASE MountsDone("op")
  <2>1. PICK rec : rec = [th["op"] EXCEPT !.pc = "mounted", !.wait = FALSE]
    OBVIOUS
  <2>2. rec.pc = "mounted"
    BY <2>1 DEF ThreadStates
  <2> QED
    BY <1>5, <2>1, <2>2, Moved DEF MountsDone, Trial
<1>6. CASE MountsCleared("op")
  BY <1>6, FailingClosedWaits DEF MountsCleared
<1>7. CASE Closed("op")
  <2>1. PICK rec : rec = [th["op"] EXCEPT !.pc = "mounted", !.wait = FALSE, !.drop = {}]
    OBVIOUS
  <2>2. rec.pc = "mounted"
    BY <2>1 DEF ThreadStates
  <2> QED
    BY <1>7, <2>1, <2>2, Moved DEF Closed, Trial
<1> QED
  BY <1>1, <1>2, <1>3, <1>4, <1>5, <1>6, <1>7 DEF MountStep

(* Nor any other step of a call, but the start of the child.               *)
LEMMA CallWaits ==
    ASSUME Inductive, OpStep, ~ActivatePrepared
    PROVE  ~Trial(th'["op"])
<1> th["op"] \in ThreadStates /\ "op" \in Threads /\ Resting \in ThreadStates /\ Resting.pc = "idle"
  BY RunFacts
<1>1. Rest("op") => ~Trial(th'["op"])
  BY Moved DEF Rest, Trial
<1>2. Halt => ~Trial(th'["op"])
  BY DEF Halt, Trial
<1>10. FlushLost => ~Trial(th'["op"])
  BY <1>1 DEF FlushLost
<1>3. ActivateHealthy => ~Trial(th'["op"])
  <2>1. PICK rec : rec = [th["op"] EXCEPT !.pc = "commit", !.wait = rt.parked[th["op"].cand] # {}]
    OBVIOUS
  <2>2. rec.pc = "commit"
    BY <2>1 DEF ThreadStates
  <2>3. Goto("op", rec) => ~Trial(th'["op"])
    BY <2>2, Moved DEF Trial
  <2> QED
    BY <2>1, <2>3, RestoringWaits DEF ActivateHealthy
<1>4. ActivateUnhealthy \/ ActivateCommitted \/ ActivateUndone \/ SafeModeEntered => ~Trial(th'["op"])
  BY <1>1, <1>10, RestoringWaits DEF ActivateUnhealthy, ActivateCommitted, ActivateUndone,
     SafeModeEntered, Release
<1>5. Removed \/ RemoveReverted \/ Booted => ~Trial(th'["op"])
  BY <1>1, <1>10, RestoringWaits DEF Removed, RemoveReverted, Booted, Release
<1>6. RollbackRestored => ~Trial(th'["op"])
  BY RemountingWaits, RestoringWaits DEF RollbackRestored, Recovering
<1>7. RollbackMounted => ~Trial(th'["op"])
  BY <1>1, RemountingWaits, RestoringWaits DEF RollbackMounted, Recovering, Release
<1>8. RollbackRecovered => ~Trial(th'["op"])
  BY <1>1, <1>2, <1>10, FailingClosedWaits DEF RollbackRecovered, Die
<1>9. RollbackClosed => ~Trial(th'["op"])
  BY <1>1, RemountingWaits DEF RollbackClosed
<1> QED
  BY <1>3, <1>4, <1>5, <1>6, <1>7, <1>8, <1>9 DEF OpStep

(* The call keeps waiting, and what its base rests on stays.               *)
LEMMA BaseStays ==
    ASSUME th'["op"].cand = th["op"].cand, UNCHANGED registry, gov'.safeMode = gov.safeMode,
           BaseHolds(th["op"].cand)
    PROVE  BaseHolds(th["op"].cand)'
BY DEF BaseHolds

(* Every step keeps the base of the candidate under activation: the row of  *)
(* the base is written by the lifecycle, which this call holds, and by the   *)
(* handling of a death, which is excluded.                                   *)
LEMMA NextBase ==
    ASSUME Inductive, LockInv, RunsInv, BaseInv, [Next]_vars
    PROVE  BaseInv'
<1> SUFFICES ASSUME spent'.fatals = 0, Trial(th'["op"])
             PROVE  BaseHolds(th["op"].cand)'
  BY DEF BaseInv, Trial
<1>1. spent.fatals = 0 /\ AllRun /\ \A c \in Candidates : ~RunnerDies(c)
  BY DeathsCounted DEF RunsInv
<1>2. th["op"] \in ThreadStates /\ "op" \in Threads /\ gov \in Govs
  BY RunFacts, SoundTyped DEF Inductive
<1>3. ASSUME UNCHANGED <<registry, gov>>, th'["op"].cand = th["op"].cand, Trial(th["op"])
      PROVE  BaseHolds(th["op"].cand)'
  BY <1>1, <1>3, BaseStays DEF BaseInv
<1>10. FlushLost => FALSE
  BY <1>2, RunFacts, Moved DEF FlushLost, Rest, Trial
<1>4. CASE ActivatePrepared
  <2>1. PICK rec : rec = [th["op"] EXCEPT !.pc = "health", !.wait = TRUE, !.start = None]
    OBVIOUS
  <2>2. rec.cand = th["op"].cand
    BY <1>2, <2>1 DEF ThreadStates
  <2>3. Goto("op", rec)
    BY <1>2, <1>4, <2>1, RestoringWaits DEF ActivatePrepared
  <2> QED
    BY <1>2, <1>3, <1>4, <2>2, <2>3, Moved DEF ActivatePrepared, Trial
<1>5. ASSUME NEW t \in Threads, Advance(t)
      PROVE  BaseHolds(th["op"].cand)'
  <2>1. t = "op"
    BY <1>1, <1>5, OpApart DEF Threads, AllRun, Advance, FailureStep, FailureRestored,
       FailureHandled,
       MountStep, RestoreDropped, RestoreStarted, MountNext, MountStarted, MountsDone, MountsCleared, Closed
  <2> QED
    BY <1>4, <1>5, <2>1, OpApart, CallWaits, MountWaits DEF Advance
<1>6. CASE Request
  <2>1. ASSUME LifecycleIdle
        PROVE  ~Trial(th["op"])
    BY <2>1, Begun DEF Trial
  <2>2. ASSUME NEW c \in Candidates, ActivateStart(c)
        PROVE  BaseHolds(th["op"].cand)'
    <3>1. PICK rec : rec = [Resting EXCEPT !.pc = "prepare", !.cand = c, !.snap = gov.lkg, !.prior = gov,
                                  !.wait = c \notin rt.generated,
                                  !.start = IF c \in rt.generated THEN None ELSE c]
      OBVIOUS
    <3>2. rec.cand = c
      BY <3>1, RunFacts DEF ThreadStates
    <3>3. th'["op"] = rec
      BY <1>2, <1>10, <2>2, <3>1, Moved DEF ActivateStart
    <3>4. gov'.safeMode = gov.safeMode /\ UNCHANGED registry /\ BaseHolds(c)
      BY <1>2, <2>2 DEF ActivateStart, Eligible, MayRequest, Govs
    <3> QED
      BY <3>2, <3>3, <3>4 DEF BaseHolds
  <2>3. ASSUME NEW c \in Candidates, \/ RequestApproval(c) \/ RecordApproval(c, "approved-for-exact-diff")
                                     \/ RecordApproval(c, "rejected")
        PROVE  UNCHANGED <<registry, gov, th>>
    BY <2>3 DEF RequestApproval, RecordApproval
  <2>4. ASSUME NEW c \in Candidates, AbandonFailedActivation(c)
        PROVE  LifecycleIdle /\ UNCHANGED th
    BY <2>4 DEF AbandonFailedActivation
  <2>5. ExitSafeMode => LifecycleIdle /\ UNCHANGED th
    BY DEF ExitSafeMode
  <2>6. Rollback => FALSE
    <3>1. PICK here : here = [Resting EXCEPT !.prior = gov, !.cand = None]
      OBVIOUS
    <3>2. here \in ThreadStates
      BY <1>2, <3>1, RunFacts DEF ThreadStates
    <3> QED
      BY <1>10, <3>1, <3>2, RestoringWaits DEF Rollback, StartRollback
  <2>7. EnterSafeMode => FALSE
    <3>1. PICK rec : rec = [Resting EXCEPT !.pc = "safe", !.wait = UnloadWaits(rt, Candidates),
                                  !.drop = rt.generated]
      OBVIOUS
    <3>2. rec.pc = "safe"
      BY <3>1, RunFacts DEF ThreadStates
    <3> QED
      BY <1>2, <3>1, <3>2, Moved DEF EnterSafeMode, Trial
  <2>8. ASSUME NEW x, NEW kind \in {"disable", "uninstall"}, RemoveStart(x, kind)
        PROVE  FALSE
    <3>1. PICK unload : unload = {x} \cap Candidates
      OBVIOUS
    <3>2. PICK rec : rec = [Resting EXCEPT !.pc = kind, !.wait = UnloadWaits(rt, unload), !.todo = {x},
                                     !.drop = unload \cap rt.generated, !.prior = gov]
      OBVIOUS
    <3>3. rec.pc = kind
      BY <3>2, RunFacts DEF ThreadStates
    <3>4. Goto("op", rec)
      BY <2>8, <3>1, <3>2 DEF RemoveStart
    <3> QED
      BY <1>2, <3>3, <3>4, Moved DEF Trial
  <2>9. UNCHANGED th => Trial(th["op"])
    OBVIOUS
  <2> QED
    BY <1>3, <1>6, <2>1, <2>2, <2>3, <2>4, <2>5, <2>6, <2>7, <2>8, <2>9, Zenon DEF Request
<1>7. CASE Environment
  <2>1. Crash => ~Trial(th'["op"])
    BY <1>2, RunFacts DEF Crash, Die, Halt, Trial
  <2>2. ASSUME NEW c \in Candidates, Tamper(c)
        PROVE  BaseHolds(th["op"].cand)'
    BY <1>3, <2>2 DEF Tamper
  <2> QED
    BY <1>1, <1>7, <2>1, <2>2 DEF Environment
<1>8. CASE Boot
  <2>1. PICK here : here = [Resting EXCEPT !.prior = [gov EXCEPT !.state = "active"], !.cand = None]
    OBVIOUS
  <2>2. here \in ThreadStates
    <3>1. [gov EXCEPT !.state = "active"] \in Govs
      BY <1>2 DEF Govs, ActivationStates
    <3> QED
      BY <2>1, <3>1, RunFacts DEF ThreadStates
  <2>3. StartRollback(gov, [gov EXCEPT !.state = "active"], rt) => FALSE
    BY <2>1, <2>2, RestoringWaits DEF StartRollback
  <2>4. ASSUME NEW g, NEW d, Remounting("op", Resting, "boot", registry, g, rt, d)
        PROVE  FALSE
    BY <2>4, RunFacts, RemountingWaits
  <2>5. \/ /\ gov.state = "rollback-pending"
           /\ StartRollback(gov, [gov EXCEPT !.state = "active"], rt)
        \/ \E g, d : Remounting("op", Resting, "boot", registry, g, rt, d)
    BY <1>8 DEF Boot
  <2> QED
    BY <2>3, <2>4, <2>5
<1>9. CASE UNCHANGED vars
  BY <1>3, <1>9 DEF vars
<1> QED
  BY <1>5, <1>6, <1>7, <1>8, <1>9 DEF Next

(* CommitsOnBase: the base that activationEligibility checked is still the *)
(* active version when commitRegistry runs, two waits later, whatever is   *)
(* asked for in between; as long as no child dies.                         *)
THEOREM CommittedOnBase == Spec => CommitsOnBase
<1>1. Init => Inductive /\ LockInv /\ RunsInv /\ BaseInv
  <2>1. Init => ~Trial(th["op"])
    BY OpApart DEF Init, Resting, Trial
  <2> QED
    BY <2>1, InitInductive, InitLock, InitRuns DEF BaseInv
<1>2. (Inductive /\ LockInv /\ RunsInv /\ BaseInv) /\ [Next]_vars => (Inductive /\ LockInv /\ RunsInv /\ BaseInv)'
  BY NextInductive, NextLock, NextRuns, NextBase
<1>3. BaseInv /\ [Next]_vars => [spent.fatals = 0 => SwitchedOnBase]_vars
  BY DEF BaseInv, Trial, SwitchedOnBase
<1> QED
  BY <1>1, <1>2, <1>3, PTL DEF Spec, CommitsOnBase
=============================================================================
