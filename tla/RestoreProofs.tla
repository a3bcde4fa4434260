---------------------------- MODULE RestoreProofs ------------------------------
(***************************************************************************)
(* For every set of rows, owners, claims and bounds, what a restore brings *)
(* back: the last known good snapshot mounts all it calls active, and an   *)
(* activation that is taken back leaves exactly what that snapshot mounts  *)
(* running.  For any number of posts of a browser, what the console        *)
(* approves, activates and goes back to is what its card showed.  And      *)
(* wherever the process crashed and whichever write failed, a boot runs    *)
(* what was committed, a rollback its target, and an uninstall that cannot *)
(* be saved takes nothing away.                                            *)
(***************************************************************************)
EXTENDS RunnerProofs, Console

-----------------------------------------------------------------------------
(* What a restore brings up, as long as no child dies, the process does    *)
(* not restart and no write fails.                                         *)

(* A restore of snapshot s that ends brings all of it up: its rows have a  *)
(* candidate to mount, this process could start each, and none displaces   *)
(* another.                                                                *)
Mountable(s, recipes) ==
    /\ s.owners \cap Candidates \subseteq s.mounted
    /\ s.mounted \subseteq recipes /\ OneEach(s.mounted)

(* The service admits nothing but a rollback, a removal or Safe Mode.      *)
Stuck(g) == g.safeMode /\ g.failure.safeRequired /\ ~g.integrity

(* What a rollback would restore, and what it would put back if it failed. *)
Restorable(g, recipes) ==
    /\ Mountable(g.current, recipes) /\ Mountable(Fallback(g), recipes)
    /\ g.lkg.owners \cap Candidates \subseteq g.lkg.mounted

(* The last known good snapshot can be restored and mounts what is active. *)
Covered(g, recipes) ==
    /\ Mountable(g.lkg, recipes)
    /\ g.current.owners \cap Candidates \subseteq g.lkg.mounted

Secure(g, recipes) == Restorable(g, recipes) /\ (Stuck(g) \/ Covered(g, recipes))

(* Everything that runs, or may come back, could be started again.         *)
Remembered(r) ==
    /\ r.live \cup r.generated \cup r.mounted \subseteq r.recipes
    /\ \A x \in Candidates : r.parked[x] \subseteq r.recipes

(* The active candidates are those on record, and mounted.                 *)
Served(g, reg, r) ==
    /\ ActiveGenerated(reg) \subseteq r.mounted
    /\ ActiveGenerated(reg) \subseteq g.current.owners

(* A candidate is being activated: its failure would restore the last      *)
(* known good snapshot, and what is active runs or is parked behind it.    *)
TrialKept(rec, g, reg, r) ==
    /\ Restorable(g, r.recipes) /\ Covered(g, r.recipes) /\ rec.snap = g.lkg
    /\ ActiveGenerated(reg) \subseteq g.current.owners
    /\ ActiveGenerated(reg) \subseteq r.mounted \cup r.parked[rec.cand]
    /\ r.parked[rec.cand] # {} => rec.cand \in r.swapped

CommitKept(rec, g, reg, r) ==
    /\ Restorable(g, r.recipes) /\ Covered(g, r.recipes)
    /\ ActiveGenerated(reg) \subseteq r.mounted \cup {rec.cand}

(* How far a restore is. *)
Under(rec, r) ==
    /\ rec.pc = "restore" =>
          /\ rec.todo = rec.snap.mounted /\ rec.drop \cap rec.snap.mounted = {}
          /\ rec.ret # "undo" => r.generated \ rec.drop \subseteq rec.snap.mounted
    /\ rec.pc = "restart" =>
          /\ rec.start \in rec.snap.mounted /\ rec.todo \subseteq rec.snap.mounted
          /\ rec.snap.mounted \subseteq r.generated \cup rec.todo \cup {rec.start}
          /\ rec.ret # "undo" => r.generated \subseteq rec.snap.mounted
    /\ rec.pc # "restore" => rec.drop = {}
    /\ rec.pc \in {"undo", "rollback", "recover"} /\ rec.ok =>
          /\ r.mounted = rec.snap.mounted
          /\ rec.pc # "undo" => r.generated \subseteq rec.snap.mounted

(* The restore takes an activation back: the rows that were active run,    *)
(* and the candidate ends unless the snapshot mounts it.                   *)
UndoKept(rec, g, r) ==
    /\ Restorable(g, r.recipes) /\ Covered(g, r.recipes) /\ rec.snap = g.lkg
    /\ rec.owners \cap Candidates \subseteq r.mounted
    /\ rec.owners \cap Candidates \subseteq rec.snap.mounted
    /\ rec.cand \notin rec.snap.mounted =>
          /\ rec.cand \notin r.generated \ rec.drop
          /\ \A x \in Candidates : rec.cand \notin r.parked[x]

(* What the restore is for. *)
RestoreKept(rec, g, r, ret) ==
    /\ Mountable(rec.snap, r.recipes)
    /\ ret \in {"undo", "rollback", "recover"}
    /\ Under(rec, r)
    /\ ret = "undo" => UndoKept(rec, g, r)
    /\ ret # "undo" => Restorable(g, r.recipes) /\ Secure(rec.prior, r.recipes)
    /\ ret = "rollback" => rec.snap = Fallback(g)
    /\ ret = "recover" => rec.snap = rec.prior.current

(* The remount at the end of a boot or a rollback. *)
Remounts(rec, g, r) ==
    /\ rec.then \in {"boot", "rollback"}
    /\ rec.then = "rollback" =>
          /\ Restorable(g, r.recipes) /\ Covered(g, r.recipes) /\ Secure(rec.prior, r.recipes)
          /\ r.live \subseteq rec.snap.mounted

(* The home fails closed. *)
Closing(g, reg, r) ==
    /\ g.safeMode /\ ~g.integrity /\ ActiveGenerated(reg) = {} /\ Restorable(g, r.recipes)

(* What holds where the lifecycle call stands. *)
Kept(rec, g, reg, r) ==
    /\ rec.pc \notin {"mounting", "clear", "failed", "revert"}
    /\ rec.pc = "idle" => Secure(g, r.recipes) /\ Served(g, reg, r)
    /\ rec.pc \in {"prepare", "health"} => TrialKept(rec, g, reg, r)
    /\ rec.pc = "commit" => CommitKept(rec, g, reg, r)
    /\ rec.pc \in {"restore", "restart"} => RestoreKept(rec, g, r, rec.ret)
    /\ rec.pc \in {"undo", "rollback", "recover"} => RestoreKept(rec, g, r, rec.pc)
    /\ rec.pc = "mount" =>
          /\ Remounts(rec, g, r) /\ rec.todo \subseteq r.generated /\ Served(g, reg, r)
          /\ rec.held = {} => Restorable(g, r.recipes) /\ Covered(g, r.recipes)
    /\ rec.pc = "close" => Remounts(rec, g, r) /\ Closing(g, reg, r)
    /\ rec.pc = "mounted" => Remounts(rec, g, r) /\ Secure(g, r.recipes) /\ Served(g, reg, r)
    /\ rec.pc = "shut" => Closing(g, reg, r)
    /\ rec.pc = "safe" => Secure(g, r.recipes) /\ ActiveGenerated(reg) = {}
    /\ rec.pc \in {"disable", "uninstall"} =>
          /\ Secure(g, r.recipes) /\ ActiveGenerated(reg) \subseteq g.current.owners
          /\ rec.drop \subseteq rec.todo /\ ActiveGenerated(reg) \ rec.todo \subseteq r.mounted

Undisturbed(s) == s.fatals = 0 /\ s.crashes = 0 /\ s.faults = 0

(* The first boot has yet to come: the home is as it was found. *)
BeforeBoot(g, reg, r) ==
    /\ r = FreshRuntime
    /\ \E kept \in {{}, Legacy} : g = HomeState(kept) /\ reg = HomeRegistry(kept)

AllKept == Kept(th["op"], gov, registry, rt) /\ Remembered(rt)

(* No write of the step fails. *)
WritesLand == /\ spent' # [spent EXCEPT !.faults = @ + 1]
              /\ ~FlushLost /\ \A g : ~FlushAnswered(g)

(* The inductive invariant of this part.                                   *)
KeptInv ==
    Undisturbed(spent) =>
        /\ up = "down" => BeforeBoot(gov, registry, rt)
        /\ up = "booting" => th["op"].then = "boot" /\ th["op"].pc \in {"mount", "close", "mounted"}
        /\ up # "down" => AllKept

(* A process forgets no recipe. *)
LEMMA Wider ==
    ASSUME NEW R, NEW R2, R \subseteq R2
    PROVE  /\ \A s : Mountable(s, R) => Mountable(s, R2)
           /\ \A g : Restorable(g, R) => Restorable(g, R2)
           /\ \A g : Covered(g, R) => Covered(g, R2)
           /\ \A g : Secure(g, R) => Secure(g, R2)
<1>1. \A s : Mountable(s, R) => Mountable(s, R2)
  BY DEF Mountable
<1>2. \A g : Restorable(g, R) => Restorable(g, R2)
  BY <1>1 DEF Restorable
<1>3. \A g : Covered(g, R) => Covered(g, R2)
  BY <1>1 DEF Covered
<1> QED
  BY <1>1, <1>2, <1>3 DEF Secure

(* What is mounted now can be captured and restored. *)
LEMMA CapturedMountable ==
    ASSUME NEW reg, NEW r, Calm(r), Remembered(r), ActiveGenerated(reg) \subseteq r.mounted
    PROVE  Mountable(Capture(reg, r), r.recipes)
<1>1. OneEach(r.mounted) /\ r.mounted \subseteq r.recipes
  BY DEF Calm, OneEach, Remembered
<1> QED
  BY <1>1 DEF Mountable, Capture, ActiveGenerated

(* prepare up to its wait. *)
LEMMA ParkKept ==
    ASSUME NEW r \in Runtimes, Calm(r), Remembered(r), NEW c \in Candidates, NEW evolves,
           NEW p, p = Park(r, c, evolves)
    PROVE  /\ p.recipes = r.recipes /\ Remembered(p)
           /\ p.generated \subseteq r.generated
           /\ r.mounted \subseteq p.mounted \cup p.parked[c]
           /\ \A x \in Candidates : p.parked[x] \subseteq Displaced(r, c)
           /\ p.parked[c] # {} => c \in p.swapped
<1>1. \A x \in Candidates : r.parked[x] = {}
  BY DEF Calm, NobodyParked
<1>2. CASE p = r
  BY <1>1, <1>2
<1>3. CASE p # r
  <2> DEFINE prior == Displaced(r, c)
  <2>1. /\ p.generated = r.generated \ prior /\ p.live = r.live \ prior
        /\ p.mounted = r.mounted \ prior /\ p.parked = [r.parked EXCEPT ![c] = prior]
        /\ p.swapped = r.swapped \cup {c} /\ p.recipes = r.recipes
    BY <1>3 DEF Park, Runtimes
  <2>2. p.parked[c] = prior /\ \A x \in Candidates : x # c => p.parked[x] = {}
    BY <1>1, <2>1 DEF Runtimes
  <2>3. prior \subseteq r.generated
    BY DEF Displaced
  <2>4. Remembered(p)
    BY <2>1, <2>2, <2>3 DEF Remembered
  <2> HIDE DEF prior
  <2>5. /\ p.generated \subseteq r.generated /\ r.mounted \subseteq p.mounted \cup p.parked[c]
        /\ c \in p.swapped /\ p.recipes = r.recipes
    BY <2>1, <2>2
  <2>6. \A x \in Candidates : p.parked[x] \subseteq prior
    BY <2>2
  <2> QED
    BY <2>4, <2>5, <2>6 DEF prior
<1> QED
  BY <1>2, <1>3

(* prepare once the child is up. *)
LEMMA StartedKept ==
    ASSUME NEW r \in Runtimes, Remembered(r), NEW c \in Candidates, NEW p, p = Started(r, c)
    PROVE  /\ p \in Runtimes /\ Remembered(p) /\ p.recipes = r.recipes \cup {c}
           /\ p.generated = r.generated \cup {c} /\ p.mounted = r.mounted
           /\ p.parked = r.parked /\ p.swapped = r.swapped
<1>1. /\ p.recipes = r.recipes \cup {c} /\ p.live = r.live \cup {c}
      /\ p.generated = r.generated \cup {c} /\ p.mounted = r.mounted
      /\ p.parked = r.parked /\ p.swapped = r.swapped
  BY DEF Started, Runtimes
<1>2. Remembered(p)
  BY <1>1 DEF Remembered
<1>3. p \in Runtimes
  BY DEF Started, Runtimes
<1> QED
  BY <1>1, <1>2, <1>3

(* The start failed. *)
LEMMA StartFailedKept ==
    ASSUME NEW r \in Runtimes, Remembered(r), NEW c \in Candidates, NEW clash \in BOOLEAN,
           NEW p, p = StartFailed(r, c, clash)
    PROVE  /\ Remembered(p) /\ r.recipes \subseteq p.recipes
           /\ p.generated \subseteq r.generated \cup r.parked[c]
           /\ p.mounted = r.mounted \cup r.parked[c]
<1>1. PICK q : q = (IF clash THEN [r EXCEPT !.recipes = @ \cup {c}] ELSE r)
  OBVIOUS
<1>2. /\ q.generated = r.generated /\ q.live = r.live /\ q.mounted = r.mounted
      /\ q.parked = r.parked /\ q \in Runtimes /\ r.recipes \subseteq q.recipes
  BY <1>1 DEF Runtimes
<1>3. p = Unpark(q, c)
  BY <1>1 DEF StartFailed
<1>4. /\ p.generated = (q.generated \ {c}) \cup q.parked[c] /\ p.live = q.live \cup q.parked[c]
      /\ p.mounted = q.mounted \cup q.parked[c] /\ p.parked = [q.parked EXCEPT ![c] = {}]
      /\ p.recipes = q.recipes
  BY <1>2, <1>3 DEF Unpark, Unparked, Runtimes
<1>5. \A x \in Candidates : p.parked[x] \subseteq r.parked[x]
  BY <1>2, <1>4 DEF Runtimes
<1>6. Remembered(p)
  BY <1>2, <1>4, <1>5 DEF Remembered
<1> QED
  BY <1>2, <1>4, <1>6

(* commit: discardParked, and the push on currentMounted. *)
LEMMA DiscardKept ==
    ASSUME NEW r \in Runtimes, Remembered(r), NEW S, NEW p, p = DiscardParked(r, S)
    PROVE  /\ Remembered(p) /\ p.recipes = r.recipes /\ p.generated = r.generated
           /\ p.live = r.live /\ p.mounted = r.mounted
<1>1. /\ p.recipes = r.recipes /\ p.generated = r.generated
      /\ p.live = r.live /\ p.mounted = r.mounted
      /\ p.parked = [x \in Candidates |-> IF x \in S THEN {} ELSE r.parked[x]]
  BY DEF DiscardParked, Runtimes
<1>2. \A x \in Candidates : p.parked[x] \subseteq r.parked[x]
  BY <1>1
<1>3. Remembered(p)
  BY <1>1, <1>2 DEF Remembered
<1> QED
  BY <1>1, <1>3

LEMMA MountedKept ==
    ASSUME NEW r \in Runtimes, Remembered(r), NEW c \in r.recipes, NEW p, p = Mounted(r, c)
    PROVE  /\ Remembered(p) /\ p.recipes = r.recipes /\ p.generated = r.generated
           /\ p.live = r.live /\ p.mounted = r.mounted \cup {c} /\ p.parked = r.parked
<1>1. /\ p.recipes = r.recipes /\ p.generated = r.generated
      /\ p.live = r.live /\ p.mounted = r.mounted \cup {c} /\ p.parked = r.parked
  BY DEF Mounted, Runtimes
<1> QED
  BY <1>1 DEF Remembered

(* Children end. *)
LEMMA DroppedKept ==
    ASSUME NEW r \in Runtimes, Remembered(r), NEW S, NEW p, p = Dropped(r, S)
    PROVE  /\ Remembered(p) /\ p.recipes = r.recipes /\ p.generated = r.generated \ S
           /\ p.live = r.live /\ p.mounted = r.mounted \ S /\ p.parked = r.parked
<1>1. /\ p.recipes = r.recipes /\ p.generated = r.generated \ S
      /\ p.live = r.live /\ p.mounted = r.mounted \ S /\ p.parked = r.parked
  BY DEF Dropped, Runtimes
<1> QED
  BY <1>1 DEF Remembered

LEMMA UnloadingKept ==
    ASSUME NEW r \in Runtimes, Remembered(r), NEW S, NEW p, p = Unloading(r, S)
    PROVE  /\ Remembered(p) /\ p.recipes = r.recipes /\ p.mounted = r.mounted
           /\ p.live = r.live \ (S \cap r.generated)
<1>1. PICK q : q = Dropping(r, S \cap r.generated)
  OBVIOUS
<1>2. /\ q.recipes = r.recipes /\ q.generated = r.generated
      /\ q.live = r.live \ (S \cap r.generated)
      /\ q.mounted = r.mounted /\ q.parked = r.parked /\ q \in Runtimes
  BY <1>1 DEF Dropping, Runtimes
<1>3. Remembered(q)
  BY <1>2 DEF Remembered
<1>4. p = DiscardParked(q, S)
  BY <1>1 DEF Unloading
<1> QED
  BY <1>2, <1>3, <1>4, DiscardKept

(* runtime.restore ends. *)
LEMMA EndRestoreKept ==
    ASSUME NEW r \in Runtimes, Remembered(r), NEW snap, NEW p, p = EndRestore(r, snap)
    PROVE  /\ Remembered(p) /\ p.recipes = r.recipes /\ p.generated = r.generated
           /\ p.live = r.live /\ p.mounted = snap.mounted \cap r.generated /\ p.parked = r.parked
<1>1. /\ p.recipes = r.recipes /\ p.generated = r.generated
      /\ p.live = r.live /\ p.mounted = snap.mounted \cap r.generated /\ p.parked = r.parked
  BY DEF EndRestore, Runtimes
<1> QED
  BY <1>1 DEF Remembered

(* runtime.restore begins: the runners come back which a candidate that is *)
(* not wanted had displaced.                                               *)
LEMMA BeginRestoreKept ==
    ASSUME NEW r \in Runtimes, Remembered(r), NEW snap, NEW p, p = BeginRestore(r, snap)
    PROVE  /\ Remembered(p) /\ p.recipes = r.recipes /\ p.parked = NobodyParked
           /\ r.mounted \subseteq p.mounted
           /\ Calm(r) => p.generated \subseteq r.generated
           /\ \A c \in Candidates : OnTrial(r, c) =>
                 /\ p.generated \subseteq r.generated \cup r.parked[c]
                 /\ c \in r.swapped \ snap.mounted => r.parked[c] \subseteq p.mounted
<1> DEFINE gone == r.swapped \ snap.mounted
           back == UNION {r.parked[x] : x \in gone}
<1>1. gone \in SUBSET Candidates
  BY DEF Runtimes
<1>2. /\ p.generated = (r.generated \ gone) \cup back
      /\ p.live = (r.live \ Unwanted(r, snap)) \cup back /\ p.mounted = r.mounted \cup back
      /\ p.parked = NobodyParked /\ p.recipes = r.recipes
  BY DEF BeginRestore, Dropping, Unparked, Runtimes
<1>3. back \subseteq r.recipes
  BY <1>1 DEF Remembered
<1>4. Calm(r) => back = {}
  BY <1>1 DEF Calm, NobodyParked
<1>5. \A c \in Candidates : OnTrial(r, c) => back = IF c \in gone THEN r.parked[c] ELSE {}
  BY <1>1, ParkedBehind DEF OnTrial
<1> HIDE DEF back
<1>6. Remembered(p)
  BY <1>2, <1>3 DEF Remembered, NobodyParked
<1> QED
  BY <1>2, <1>4, <1>5, <1>6

(* The call goes on. *)
LEMMA GoOn ==
    ASSUME Inductive, NEW rec, Goto("op", rec), Kept(rec, gov', registry', rt'), Remembered(rt')
    PROVE  AllKept'
BY RunFacts, Moved DEF AllKept

(* A call that ends. *)
LEMMA RestKept ==
    ASSUME Inductive, Rest("op"), Secure(gov', rt'.recipes), Served(gov', registry', rt'), Remembered(rt')
    PROVE  AllKept'
<1>1. Kept(Resting, gov', registry', rt')
  BY DEF Kept, Resting
<1> QED
  BY <1>1, GoOn DEF Rest

(* A call that goes into runtime.restore. *)
LEMMA RestoringKept ==
    ASSUME Inductive, NEW here \in ThreadStates, NEW ret \in {"undo", "rollback", "recover"}, NEW snap,
           NEW reg, NEW r \in Runtimes, Remembered(r), Restoring("op", here, ret, snap, reg, r),
           Mountable(snap, r.recipes), Restorable(gov', r.recipes),
           ret = "undo" =>
              /\ Covered(gov', r.recipes) /\ snap = gov'.lkg
              /\ here.cand \in Candidates /\ (Calm(r) \/ OnTrial(r, here.cand))
              /\ ActiveGenerated(reg) \subseteq gov'.current.owners
              /\ ActiveGenerated(reg) \subseteq r.mounted \cup r.parked[here.cand]
              /\ r.parked[here.cand] # {} => here.cand \in r.swapped,
           ret # "undo" => Calm(r) /\ Secure(here.prior, r.recipes),
           ret = "rollback" => snap = Fallback(gov'),
           ret = "recover" => snap = here.prior.current
    PROVE  AllKept'
<1>1. PICK p : p = rt'
  OBVIOUS
<1>2. /\ p = BeginRestore(r, snap) /\ Remembered(p) /\ p.recipes = r.recipes /\ p.parked = NobodyParked
      /\ r.mounted \subseteq p.mounted
      /\ Calm(r) => p.generated \subseteq r.generated
      /\ \A c \in Candidates : OnTrial(r, c) =>
            /\ p.generated \subseteq r.generated \cup r.parked[c]
            /\ c \in r.swapped \ snap.mounted => r.parked[c] \subseteq p.mounted
  BY <1>1, BeginRestoreKept DEF Restoring
<1>3. PICK rec : rec = [here EXCEPT !.pc = "restore", !.wait = RestoreWaits(r, snap), !.ret = ret,
                               !.snap = snap, !.owners = Active(reg), !.todo = snap.mounted,
                               !.drop = Unwanted(r, snap)]
  OBVIOUS
<1>4. /\ rec.pc = "restore" /\ rec.ret = ret /\ rec.snap = snap /\ rec.owners = Active(reg)
      /\ rec.todo = snap.mounted /\ rec.drop = r.generated \ snap.mounted
      /\ rec.cand = here.cand /\ rec.prior = here.prior
  BY <1>3 DEF ThreadStates, Unwanted
<1>5. Goto("op", rec)
  BY <1>3 DEF Restoring
<1>6. Under(rec, p)
  BY <1>2, <1>4 DEF Under
<1>7. ASSUME ret = "undo"
      PROVE  UndoKept(rec, gov', p)
  <2>1. PICK c : c = here.cand
    OBVIOUS
  <2>2. /\ Covered(gov', r.recipes) /\ snap = gov'.lkg /\ c \in Candidates /\ (Calm(r) \/ OnTrial(r, c))
        /\ ActiveGenerated(reg) \subseteq gov'.current.owners
        /\ ActiveGenerated(reg) \subseteq r.mounted \cup r.parked[c]
        /\ r.parked[c] # {} => c \in r.swapped
    BY <1>7, <2>1
  <2>3. ActiveGenerated(reg) \subseteq snap.mounted
    BY <2>2 DEF Covered, ActiveGenerated
  <2>4. Calm(r) => r.parked[c] = {}
    BY <2>2 DEF Calm, NobodyParked
  <2>5. OneEach(snap.mounted)
    BY DEF Mountable
  <2>6. ASSUME c \in snap.mounted, NEW a \in ActiveGenerated(reg), a \in r.parked[c]
        PROVE  FALSE
    BY <2>2, <2>3, <2>4, <2>5, <2>6 DEF OneEach, OnTrial
  <2>7. ASSUME NEW a \in ActiveGenerated(reg)
        PROVE  a \in p.mounted
    BY <1>2, <2>2, <2>4, <2>6, <2>7
  <2>8. ASSUME c \notin snap.mounted
        PROVE  c \notin p.generated \ rec.drop
    <3>1. c \notin r.parked[c]
      BY <2>2, <2>4 DEF OnTrial
    <3>2. p.generated \subseteq r.generated \cup r.parked[c]
      BY <1>2, <2>2
    <3> QED
      BY <1>4, <2>8, <3>1, <3>2
  <2>9. \A x \in Candidates : p.parked[x] = {}
    BY <1>2 DEF NobodyParked
  <2>10. rec.owners \cap Candidates = ActiveGenerated(reg)
    BY <1>4 DEF ActiveGenerated
  <2> QED
    BY <1>2, <1>4, <2>1, <2>2, <2>3, <2>7, <2>8, <2>9, <2>10 DEF UndoKept
<1>8. RestoreKept(rec, gov', p, ret)
  BY <1>2, <1>4, <1>6, <1>7 DEF RestoreKept
<1>9. Kept(rec, gov', registry', p)
  BY <1>4, <1>8 DEF Kept
<1> QED
  BY <1>1, <1>2, <1>5, <1>9, GoOn

(* A restore is over: everything it was to mount is mounted, or it failed. *)
LEMMA RestoreEndedKept ==
    ASSUME Inductive, NEW ok \in BOOLEAN, Goto("op", RestoreEnded(th["op"], ok)), gov' = gov, Remembered(rt'),
           NEW R, R \subseteq rt'.recipes, th["op"].ret \in {"undo", "rollback", "recover"},
           Mountable(th["op"].snap, R),
           ok => rt'.mounted = th["op"].snap.mounted,
           ok /\ th["op"].ret # "undo" => rt'.generated \subseteq th["op"].snap.mounted,
           th["op"].ret = "undo" =>
              /\ Restorable(gov, R) /\ Covered(gov, R) /\ th["op"].snap = gov.lkg
              /\ th["op"].owners \cap Candidates \subseteq rt'.mounted
              /\ th["op"].owners \cap Candidates \subseteq th["op"].snap.mounted
              /\ th["op"].cand \notin th["op"].snap.mounted =>
                    /\ th["op"].cand \notin rt'.generated
                    /\ \A x \in Candidates : th["op"].cand \notin rt'.parked[x],
           th["op"].ret # "undo" => Restorable(gov, R) /\ Secure(th["op"].prior, R),
           th["op"].ret = "rollback" => th["op"].snap = Fallback(gov),
           th["op"].ret = "recover" => th["op"].snap = th["op"].prior.current
    PROVE  AllKept'
<1>1. PICK rec : rec = RestoreEnded(th["op"], ok)
  OBVIOUS
<1>2. /\ rec.pc = th["op"].ret /\ rec.ok = ok /\ rec.drop = {} /\ rec.snap = th["op"].snap
      /\ rec.owners = th["op"].owners /\ rec.cand = th["op"].cand /\ rec.prior = th["op"].prior
  BY <1>1, RunFacts DEF RestoreEnded, ThreadStates
<1>3. PICK p : p = rt'
  OBVIOUS
<1>4. Under(rec, p)
  BY <1>2, <1>3 DEF Under
<1>5. rec.pc = "undo" => UndoKept(rec, gov', p)
  BY <1>2, <1>3, Wider DEF UndoKept
<1>6. RestoreKept(rec, gov', p, rec.pc)
  BY <1>2, <1>3, <1>4, <1>5, Wider DEF RestoreKept
<1>7. Kept(rec, gov', registry', p)
  BY <1>2, <1>6 DEF Kept
<1> QED
  BY <1>1, <1>3, <1>7, GoOn

(* The restart loop of runtime.restore. *)
LEMMA RestoreLoopKept ==
    ASSUME Inductive, NEW r \in Runtimes, Calm(r), Remembered(r), RestoreLoop("op", r), gov' = gov,
           NEW rec0, rec0 = th["op"], rec0.ret \in {"undo", "rollback", "recover"},
           Mountable(rec0.snap, r.recipes), rec0.todo \subseteq rec0.snap.mounted,
           rec0.snap.mounted \subseteq r.generated \cup rec0.todo,
           rec0.ret # "undo" => r.generated \subseteq rec0.snap.mounted,
           rec0.ret = "undo" =>
              /\ Restorable(gov, r.recipes) /\ Covered(gov, r.recipes) /\ rec0.snap = gov.lkg
              /\ rec0.owners \cap Candidates \subseteq r.mounted
              /\ rec0.owners \cap Candidates \subseteq rec0.snap.mounted
              /\ rec0.cand \notin rec0.snap.mounted => rec0.cand \notin r.generated,
           rec0.ret # "undo" => Restorable(gov, r.recipes) /\ Secure(rec0.prior, r.recipes),
           rec0.ret = "rollback" => rec0.snap = Fallback(gov),
           rec0.ret = "recover" => rec0.snap = rec0.prior.current
    PROVE  AllKept'
<1>1. PICK missing : missing = Restartable(r, rec0.todo)
  OBVIOUS
<1>2. /\ missing = (rec0.todo \ r.generated) \cap r.recipes /\ rec0.snap.mounted \subseteq r.recipes
      /\ OneEach(rec0.snap.mounted) /\ rec0 \in ThreadStates /\ rec0.snap.mounted \subseteq Candidates
      /\ \A x \in Candidates : r.parked[x] = {}
  BY <1>1, RunFacts DEF Restartable, Mountable, Calm, NobodyParked, ThreadStates, Snapshots
<1>3. CASE /\ missing = {} /\ rt' = EndRestore(r, rec0.snap)
           /\ Goto("op", RestoreEnded(th["op"], TRUE))
  <2>1. PICK p : p = EndRestore(r, rec0.snap)
    OBVIOUS
  <2>2. /\ Remembered(p) /\ p.recipes = r.recipes /\ p.generated = r.generated
        /\ p.mounted = rec0.snap.mounted \cap r.generated /\ p.parked = r.parked
    BY <2>1, EndRestoreKept
  <2>3. p.mounted = rec0.snap.mounted
    BY <1>2, <1>3, <2>2
  <2>4. rt' = p
    BY <1>3, <2>1
  <2> QED
    BY <1>2, <1>3, <2>2, <2>3, <2>4, RestoreEndedKept
<1>4. ASSUME NEW c \in missing, rt' = Park(r, c, Evolves(c)),
             Goto("op", [th["op"] EXCEPT !.pc = "restart", !.wait = TRUE, !.drop = {}, !.start = c,
                                         !.todo = @ \ {c}])
      PROVE  AllKept'
  <2>1. PICK p : p = Park(r, c, Evolves(c))
    OBVIOUS
  <2>2. c \in Candidates /\ c \in rec0.snap.mounted
    BY <1>2
  <2>3. /\ p.recipes = r.recipes /\ Remembered(p) /\ p.generated \subseteq r.generated
        /\ r.mounted \subseteq p.mounted \cup p.parked[c]
        /\ \A x \in Candidates : p.parked[x] \subseteq Displaced(r, c)
    BY <2>1, <2>2, ParkKept
  <2>4. rt' = p
    BY <1>4, <2>1
  <2>5. PICK rec : rec = [rec0 EXCEPT !.pc = "restart", !.wait = TRUE, !.drop = {}, !.start = c,
                                      !.todo = @ \ {c}]
    OBVIOUS
  <2>6. /\ rec.pc = "restart" /\ rec.start = c /\ rec.drop = {} /\ rec.todo = rec0.todo \ {c}
        /\ rec.snap = rec0.snap /\ rec.ret = rec0.ret /\ rec.owners = rec0.owners
        /\ rec.cand = rec0.cand /\ rec.prior = rec0.prior
    BY <1>2, <2>5 DEF ThreadStates
  <2>7. Displaced(r, c) \cap rec0.snap.mounted = {} /\ Displaced(r, c) \subseteq r.generated
    BY <1>2, <2>2 DEF Displaced, OneEach
  <2>8. r.generated \ Displaced(r, c) \subseteq p.generated
    BY <2>1 DEF Park, Runtimes
  <2>9. Under(rec, p)
    BY <2>2, <2>3, <2>6, <2>7, <2>8 DEF Under
  <2>10. rec.ret = "undo" => UndoKept(rec, gov', p)
    <3>1. rec.ret = "undo" => rec.owners \cap Candidates \subseteq p.mounted
      BY <2>2, <2>3, <2>6, <2>7
    <3>2. rec.ret = "undo" /\ rec.cand \notin rec.snap.mounted =>
             rec.cand \notin p.generated /\ \A x \in Candidates : rec.cand \notin p.parked[x]
      BY <2>3, <2>6, <2>7
    <3> QED
      BY <2>3, <2>6, <3>1, <3>2 DEF UndoKept
  <2>11. RestoreKept(rec, gov', p, rec.ret)
    BY <2>3, <2>6, <2>9, <2>10 DEF RestoreKept
  <2>12. Kept(rec, gov', registry', p)
    BY <2>6, <2>11 DEF Kept
  <2> QED
    BY <1>4, <2>3, <2>4, <2>5, <2>12, GoOn
<1> QED
  BY <1>1, <1>3, <1>4 DEF RestoreLoop

(* The restart of the snapshot's extensions begins.                        *)
LEMMA RestoreDroppedKept ==
    ASSUME Inductive, AllRun, AllKept, RestoreDropped("op")
    PROVE  AllKept'
<1>1. PICK rec0 : rec0 = th["op"]
  OBVIOUS
<1>2. PICK r : r = Dropped(rt, rec0.drop)
  OBVIOUS
<1>3. /\ rec0.pc = "restore" /\ RestoreLoop("op", r) /\ gov' = gov /\ rt \in Runtimes /\ Remembered(rt)
      /\ RestoreKept(rec0, gov, rt, rec0.ret)
  BY <1>1, <1>2, RunFacts DEF RestoreDropped, AllKept, Kept
<1>4. Calm(r) /\ r \in Runtimes
  BY <1>1, <1>2, <1>3, StoppedCalm DEF Stops
<1>5. /\ Remembered(r) /\ r.recipes = rt.recipes /\ r.generated = rt.generated \ rec0.drop
      /\ r.mounted = rt.mounted \ rec0.drop
  BY <1>2, <1>3, DroppedKept
<1>6. /\ rec0.todo = rec0.snap.mounted /\ rec0.drop \cap rec0.snap.mounted = {}
      /\ rec0.ret # "undo" => rt.generated \ rec0.drop \subseteq rec0.snap.mounted
  BY <1>3 DEF RestoreKept, Under
<1>7. rec0.ret = "undo" => UndoKept(rec0, gov, rt)
  BY <1>3 DEF RestoreKept
<1>8. rec0.ret = "undo" =>
         /\ Restorable(gov, r.recipes) /\ Covered(gov, r.recipes) /\ rec0.snap = gov.lkg
         /\ rec0.owners \cap Candidates \subseteq r.mounted
         /\ rec0.owners \cap Candidates \subseteq rec0.snap.mounted
         /\ rec0.cand \notin rec0.snap.mounted => rec0.cand \notin r.generated
  BY <1>5, <1>6, <1>7 DEF UndoKept
<1>9. /\ rec0.ret \in {"undo", "rollback", "recover"} /\ Mountable(rec0.snap, r.recipes)
      /\ rec0.ret # "undo" => Restorable(gov, r.recipes) /\ Secure(rec0.prior, r.recipes)
      /\ rec0.ret = "rollback" => rec0.snap = Fallback(gov)
      /\ rec0.ret = "recover" => rec0.snap = rec0.prior.current
  BY <1>3, <1>5 DEF RestoreKept
<1> QED
  BY <1>1, <1>3, <1>4, <1>5, <1>6, <1>8, <1>9, RestoreLoopKept

(* One of them answered, or failed and was given up.                       *)
LEMMA RestoreStartedKept ==
    ASSUME Inductive, AllRun, AllKept, RestoreStarted("op")
    PROVE  AllKept'
<1>1. PICK rec0 : rec0 = th["op"]
  OBVIOUS
<1>2. PICK c : c = rec0.start
  OBVIOUS
<1>3. /\ rec0.pc = "restart" /\ c \in Candidates /\ Starting(rt, c) /\ gov' = gov
      /\ rt \in Runtimes /\ Remembered(rt) /\ RestoreKept(rec0, gov, rt, rec0.ret)
  BY <1>1, <1>2, RunFacts, ThreadFacts DEF RestoreStarted, Placed, AllRun, Runs, Starts, AllKept, Kept
<1>4. /\ rec0.drop = {} /\ c \in rec0.snap.mounted /\ rec0.todo \subseteq rec0.snap.mounted
      /\ rec0.snap.mounted \subseteq rt.generated \cup rec0.todo \cup {c}
      /\ rec0.ret # "undo" => rt.generated \subseteq rec0.snap.mounted
  BY <1>2, <1>3 DEF RestoreKept, Under
<1>5. /\ rec0.ret \in {"undo", "rollback", "recover"} /\ Mountable(rec0.snap, rt.recipes)
      /\ rec0.ret # "undo" => Restorable(gov, rt.recipes) /\ Secure(rec0.prior, rt.recipes)
      /\ rec0.ret = "rollback" => rec0.snap = Fallback(gov)
      /\ rec0.ret = "recover" => rec0.snap = rec0.prior.current
      /\ rec0.ret = "undo" => UndoKept(rec0, gov, rt)
  BY <1>3 DEF RestoreKept
<1>6. CASE RestoreLoop("op", Mounted(DiscardParked(Started(rt, c), {c}), c))
  <2>1. PICK p : p = Started(rt, c)
    OBVIOUS
  <2>2. PICK q : q = DiscardParked(p, {c})
    OBVIOUS
  <2>3. PICK r : r = Mounted(q, c)
    OBVIOUS
  <2>4. /\ p \in Runtimes /\ OnTrial(p, c) /\ Remembered(p) /\ p.recipes = rt.recipes \cup {c}
        /\ p.generated = rt.generated \cup {c} /\ p.mounted = rt.mounted
    BY <1>3, <2>1, StartedOnTrial, StartedKept
  <2>5. /\ q \in Runtimes /\ Remembered(q) /\ q.recipes = p.recipes /\ q.generated = p.generated
        /\ q.mounted = p.mounted
    BY <2>2, <2>4, StopTypes, DiscardKept
  <2>6. /\ r \in Runtimes /\ Remembered(r) /\ r.recipes = q.recipes /\ r.generated = q.generated
        /\ r.mounted = q.mounted \cup {c}
    <3>1. c \in q.recipes
      BY <2>4, <2>5
    <3>2. r \in Runtimes
      BY <1>3, <2>3, <2>5, StartTypes
    <3> QED
      BY <2>3, <2>5, <3>1, <3>2, MountedKept
  <2>7. Calm(r)
    BY <1>3, <2>2, <2>3, <2>4, CommittedCalm
  <2>8. /\ Mountable(rec0.snap, r.recipes)
        /\ rec0.snap.mounted \subseteq r.generated \cup rec0.todo
        /\ rec0.ret # "undo" => r.generated \subseteq rec0.snap.mounted
        /\ rec0.ret # "undo" => Restorable(gov, r.recipes) /\ Secure(rec0.prior, r.recipes)
    BY <1>4, <1>5, <2>4, <2>5, <2>6, Wider
  <2>9. rec0.ret = "undo" =>
           /\ Restorable(gov, r.recipes) /\ Covered(gov, r.recipes) /\ rec0.snap = gov.lkg
           /\ rec0.owners \cap Candidates \subseteq r.mounted
           /\ rec0.owners \cap Candidates \subseteq rec0.snap.mounted
           /\ rec0.cand \notin rec0.snap.mounted => rec0.cand \notin r.generated
    <3>1. rec0.ret = "undo" => Restorable(gov, r.recipes) /\ Covered(gov, r.recipes)
      BY <1>5, <2>4, <2>5, <2>6, Wider DEF UndoKept
    <3> QED
      BY <1>4, <1>5, <2>4, <2>5, <2>6, <3>1 DEF UndoKept
  <2> QED
    BY <1>1, <1>3, <1>4, <1>5, <1>6, <2>1, <2>2, <2>3, <2>6, <2>7, <2>8, <2>9, RestoreLoopKept
<1>7. CASE rt' = StartFailed(rt, c, FALSE) /\ Goto("op", RestoreEnded(th["op"], FALSE))
  <2>1. PICK p : p = rt'
    OBVIOUS
  <2>2. /\ Remembered(p) /\ rt.recipes \subseteq p.recipes /\ Calm(p)
        /\ p.generated \subseteq rt.generated \cup rt.parked[c]
        /\ p.mounted = rt.mounted \cup rt.parked[c]
    BY <1>3, <1>7, <2>1, StartFailedKept, StartFailedCalm
  <2>3. \A x \in Candidates : p.parked[x] = {}
    BY <2>2 DEF Calm, NobodyParked
  <2>4. rec0.ret = "undo" =>
           /\ Restorable(gov, rt.recipes) /\ Covered(gov, rt.recipes) /\ rec0.snap = gov.lkg
           /\ rec0.owners \cap Candidates \subseteq p.mounted
           /\ rec0.owners \cap Candidates \subseteq rec0.snap.mounted
           /\ rec0.cand \notin rec0.snap.mounted =>
                 rec0.cand \notin p.generated /\ \A x \in Candidates : rec0.cand \notin p.parked[x]
    BY <1>3, <1>4, <1>5, <2>2, <2>3 DEF UndoKept
  <2> QED
    BY <1>1, <1>3, <1>5, <1>7, <2>1, <2>2, <2>4, RestoreEndedKept
<1> QED
  BY <1>1, <1>2, <1>6, <1>7 DEF RestoreStarted

-----------------------------------------------------------------------------
(* The home fails closed, the remount.                                     *)

(* failClosedSafeMode turns every extension off, whatever it finds.        *)
LEMMA FailingClosedKept ==
    ASSUME Inductive, NEW here \in ThreadStates, NEW pc \in {"shut", "close"}, NEW reg \in Registries,
           NEW g \in Govs, NEW r \in Runtimes, Calm(r), Remembered(r),
           FailingClosed("op", here, pc, reg, g, r),
           Restorable(g, r.recipes),
           pc = "close" => here.then \in {"boot", "rollback"},
           pc = "close" /\ here.then = "rollback" => Covered(g, r.recipes) /\ Secure(here.prior, r.recipes)
    PROVE  AllKept'
<1>1. PICK rec : rec = [here EXCEPT !.pc = pc, !.wait = UnloadWaits(r, Candidates), !.drop = r.generated]
  OBVIOUS
<1>2. rec.pc = pc /\ rec.then = here.then /\ rec.prior = here.prior
  BY <1>1 DEF ThreadStates
<1>3. PICK g2 : g2 = gov'
  OBVIOUS
<1>4. /\ g2.safeMode = TRUE /\ g2.integrity = FALSE /\ g2.lkg = g.lkg /\ g2.target = g.target
      /\ g2.current = Capture(registry', r) /\ registry' = DisableGenerated(reg)
  BY <1>3 DEF FailingClosed, Govs
<1>5. ActiveGenerated(registry') = {}
  BY <1>4, DisableGeneratedSound DEF ActiveGenerated
<1>6. PICK p : p = rt'
  OBVIOUS
<1>7. Remembered(p) /\ p.recipes = r.recipes /\ p.live = r.live \ (Candidates \cap r.generated)
  BY <1>6, UnloadingKept DEF FailingClosed
<1>8. p.live = {}
  BY <1>7 DEF Calm, Runtimes
<1>9. Mountable(g2.current, r.recipes) /\ g2.current.owners \cap Candidates = {}
  <2>1. Mountable(Capture(registry', r), r.recipes)
    BY <1>5, CapturedMountable
  <2>2. Capture(registry', r).owners = Active(registry')
    BY DEF Capture
  <2> QED
    BY <1>4, <1>5, <2>1, <2>2 DEF ActiveGenerated
<1>10. Restorable(g2, p.recipes)
  BY <1>4, <1>7, <1>9 DEF Restorable, Fallback
<1>11. pc = "close" => Remounts(rec, g2, p)
  BY <1>2, <1>4, <1>7, <1>8, <1>9, <1>10 DEF Remounts, Covered
<1>12. Kept(rec, g2, registry', p)
  BY <1>2, <1>4, <1>5, <1>10, <1>11 DEF Kept, Closing
<1>13. Goto("op", rec)
  BY <1>1 DEF FailingClosed
<1> QED
  BY <1>3, <1>6, <1>7, <1>12, <1>13, GoOn

(* A rollback goes into the remount: what it restored runs.                *)
LEMMA RemountingKept ==
    ASSUME Inductive, NEW here \in ThreadStates, NEW reg \in SoundRegistries(blessed), NEW g \in Govs,
           NEW d, Calm(rt), Remembered(rt), Remounting("op", here, "rollback", reg, g, rt, d),
           Restorable(g, rt.recipes), Covered(g, rt.recipes), Secure(here.prior, rt.recipes),
           Served(g, reg, rt), Committed(g).owners \cap Candidates \subseteq rt.mounted,
           rt.live \subseteq here.snap.mounted
    PROVE  AllKept'
<1> DEFINE targets  == Committed(g).owners \cap Candidates
           held     == targets \cap Legacy \cap intact
           withheld == SetStatus(reg, held, "disabled")
<1>1. PICK go : go = [here EXCEPT !.then = "rollback", !.todo = {}, !.held = {}]
  OBVIOUS
<1>2. /\ go \in ThreadStates /\ go.then = "rollback" /\ go.prior = here.prior /\ go.snap = here.snap
  BY <1>1 DEF ThreadStates
<1>3. reg \in Registries /\ rt \in Runtimes /\ rt.mounted \subseteq rt.generated
  BY RunFacts DEF SoundRegistries, Calm
<1>4. CASE /\ registry' = reg /\ gov' = g /\ rt' = rt
           /\ Goto("op", [go EXCEPT !.pc = "mounted", !.wait = FALSE])
  <2>1. PICK rec : rec = [go EXCEPT !.pc = "mounted", !.wait = FALSE]
    OBVIOUS
  <2>2. /\ rec.pc = "mounted" /\ rec.then = "rollback" /\ rec.prior = here.prior
        /\ rec.snap = here.snap
    BY <1>2, <2>1 DEF ThreadStates
  <2>3. Kept(rec, g, reg, rt)
    BY <2>2 DEF Kept, Remounts, Secure
  <2> QED
    BY <1>4, <2>1, <2>3, GoOn
<1>5. CASE FailingClosed("op", go, "close", withheld, g, rt)
  <2>1. withheld \in Registries
    BY <1>3 DEF SetStatus, Registries, Statuses
  <2> HIDE DEF withheld
  <2> QED
    BY <1>2, <1>3, <1>5, <2>1, FailingClosedKept
<1>6. CASE /\ registry' = withheld /\ rt' = rt
           /\ gov' = IF held = {} THEN g ELSE [g EXCEPT !.failure = Failure(Blamed(g), FALSE, FALSE)]
           /\ Goto("op", [go EXCEPT !.pc = "mount", !.wait = FALSE, !.todo = Remountable(g), !.held = held])
  <2>1. PICK todo : todo = Remountable(g)
    OBVIOUS
  <2>2. PICK h : h = held
    OBVIOUS
  <2>3. PICK rec : rec = [go EXCEPT !.pc = "mount", !.wait = FALSE, !.todo = todo, !.held = h]
    OBVIOUS
  <2>4. /\ rec.pc = "mount" /\ rec.then = "rollback" /\ rec.prior = here.prior
        /\ rec.snap = here.snap /\ rec.todo = todo
    BY <1>2, <2>3 DEF ThreadStates
  <2>5. todo \subseteq rt.generated
    BY <1>3, <2>1 DEF Remountable
  <2>6. PICK g2 : g2 = gov'
    OBVIOUS
  <2>7. g2.current = g.current /\ g2.lkg = g.lkg /\ g2.target = g.target
    BY <1>6, <2>6 DEF Govs
  <2>8. Restorable(g2, rt.recipes) /\ Covered(g2, rt.recipes)
    BY <2>7 DEF Restorable, Covered, Fallback
  <2>9. ActiveGenerated(registry') \subseteq ActiveGenerated(reg)
    BY <1>3, <1>6 DEF SetStatus, ActiveGenerated, Active
  <2>10. Served(g2, registry', rt)
    BY <2>7, <2>9 DEF Served
  <2>11. Kept(rec, g2, registry', rt)
    BY <2>4, <2>5, <2>8, <2>10 DEF Kept, Remounts
  <2> QED
    BY <1>6, <2>1, <2>2, <2>3, <2>6, <2>11, GoOn
<1> QED
  BY <1>1, <1>4, <1>5, <1>6 DEF Remounting

-----------------------------------------------------------------------------
(* activate                                                                *)

(* What the start of a candidate's child finds. *)
LEMMA Preparing ==
    ASSUME Inductive, AllRun, th["op"].pc = "prepare"
    PROVE  /\ th["op"].cand \in Candidates
           /\ th["op"].start = None => th["op"].cand \in rt.live /\ Calm(rt)
           /\ th["op"].start # None => Starting(rt, th["op"].cand) /\ th["op"].start = th["op"].cand
<1>1. th["op"].cand \in blessed /\ blessed \subseteq Candidates
  BY RunFacts, ThreadFacts DEF Placed, Inductive
<1>2. th["op"].start \in {None, th["op"].cand} /\ (th["op"].start = None => th["op"].cand \in rt.live)
  BY DEF AllRun, Runs
<1>3. th["op"].start = None => Calm(rt)
  BY DEF AllRun, Runs, Stops, Starts
<1>4. th["op"].start # None => Starting(rt, th["op"].start)
  BY DEF AllRun, Runs, Starts
<1> QED
  BY <1>1, <1>2, <1>3, <1>4

(* What a request finds: no call is under way. *)
LEMMA IdleKept ==
    ASSUME Inductive, LockInv, AllRun, AllKept, LifecycleIdle
    PROVE  /\ Secure(gov, rt.recipes) /\ Served(gov, registry, rt) /\ Calm(rt) /\ Remembered(rt)
           /\ ~RecoveryRequired(gov) => Covered(gov, rt.recipes)
           /\ up = "up" /\ rt \in Runtimes /\ gov \in Govs /\ registry \in Registries
           /\ Resting \in ThreadStates /\ th["op"].pc = "idle"
<1>1. /\ up = "up" /\ th["op"].pc = "idle" /\ rt \in Runtimes /\ gov \in Govs
      /\ Resting \in ThreadStates /\ registry \in Registries
  BY RunFacts, IdleCall, SoundTyped DEF Inductive, SoundRegistries, LifecycleIdle
<1>2. Secure(gov, rt.recipes) /\ Served(gov, registry, rt) /\ Remembered(rt)
  BY <1>1 DEF AllKept, Kept
<1>3. ~RecoveryRequired(gov) => Covered(gov, rt.recipes)
  BY <1>2 DEF Secure, Stuck, RecoveryRequired
<1> QED
  BY <1>1, <1>2, <1>3, PointCalm

(* An activation begins: the prior version is parked. *)
LEMMA ActivateStartKept ==
    ASSUME Inductive, LockInv, AllRun, AllKept, NEW c \in Candidates, ActivateStart(c), WritesLand
    PROVE  AllKept'
<1>1. /\ Secure(gov, rt.recipes) /\ Served(gov, registry, rt) /\ Calm(rt) /\ Remembered(rt)
      /\ Covered(gov, rt.recipes) /\ rt \in Runtimes /\ gov \in Govs /\ Resting \in ThreadStates
  BY IdleKept DEF ActivateStart, Eligible
<1>2. PICK g : g = gov'
  OBVIOUS
<1>3. /\ g.current = gov.current /\ g.lkg = gov.lkg /\ g.target = gov.lkg /\ registry' = registry
  BY <1>1, <1>2 DEF ActivateStart, Govs
<1>4. PICK rec : rec = [Resting EXCEPT !.pc = "prepare", !.cand = c, !.snap = gov.lkg, !.prior = gov,
                                  !.wait = c \notin rt.generated,
                                  !.start = IF c \in rt.generated THEN None ELSE c]
  OBVIOUS
<1>5. rec.pc = "prepare" /\ rec.cand = c /\ rec.snap = gov.lkg
  BY <1>1, <1>4 DEF ThreadStates
<1>6. PICK p : p = rt'
  OBVIOUS
<1>7. /\ p.recipes = rt.recipes /\ Remembered(p) /\ rt.mounted \subseteq p.mounted \cup p.parked[c]
      /\ p.parked[c] # {} => c \in p.swapped
  BY <1>1, <1>6, ParkKept DEF ActivateStart, WritesLand
<1>8. Restorable(g, p.recipes) /\ Covered(g, p.recipes)
  BY <1>1, <1>3, <1>7 DEF Secure, Restorable, Covered, Fallback, Mountable
<1>9. TrialKept(rec, g, registry', p)
  BY <1>1, <1>3, <1>5, <1>7, <1>8 DEF TrialKept, Served
<1>10. Kept(rec, g, registry', p)
  BY <1>5, <1>9 DEF Kept
<1> QED
  BY <1>2, <1>4, <1>6, <1>7, <1>10, GoOn DEF ActivateStart, WritesLand

(* The candidate is given up: what the undo starts from. *)
LEMMA GivenUp ==
    ASSUME Inductive, NEW reg, NEW r \in Runtimes, Remembered(r), NEW rec0, rec0 = th["op"],
           Restoring("op", rec0, "undo", rec0.snap, reg, r),
           rt.recipes \subseteq r.recipes, gov' = gov, TrialKept(rec0, gov, registry, rt),
           rec0.cand \in Candidates, Calm(r) \/ OnTrial(r, rec0.cand),
           ActiveGenerated(reg) \subseteq ActiveGenerated(registry),
           ActiveGenerated(registry) \subseteq r.mounted \cup r.parked[rec0.cand],
           r.parked[rec0.cand] # {} => rec0.cand \in r.swapped
    PROVE  AllKept'
<1>1. PICK snap : snap = rec0.snap
  OBVIOUS
<1>2. Restorable(gov, r.recipes) /\ Covered(gov, r.recipes) /\ snap = gov.lkg
  BY <1>1, Wider DEF TrialKept
<1>3. /\ Mountable(snap, r.recipes)
      /\ ActiveGenerated(reg) \subseteq gov.current.owners
      /\ ActiveGenerated(reg) \subseteq r.mounted \cup r.parked[rec0.cand]
  BY <1>2 DEF Covered, TrialKept
<1>4. rec0 \in ThreadStates
  BY RunFacts
<1> QED
  BY <1>1, <1>2, <1>3, <1>4, RestoringKept

(* Its child answered, or failed. *)
LEMMA ActivatePreparedKept ==
    ASSUME Inductive, AllRun, AllKept, ActivatePrepared, WritesLand
    PROVE  AllKept'
<1>1. PICK rec0 : rec0 = th["op"]
  OBVIOUS
<1>2. PICK c : c = rec0.cand
  OBVIOUS
<1>3. /\ rec0.pc = "prepare" /\ c \in Candidates /\ rt \in Runtimes /\ Remembered(rt)
      /\ rec0.start = c => Starting(rt, c)
      /\ TrialKept(rec0, gov, registry, rt) /\ gov' = gov /\ registry' = registry /\ rec0 \in ThreadStates
  <2>1. th["op"].pc = "prepare" /\ gov' = gov /\ registry' = registry
    BY DEF ActivatePrepared
  <2>2. c # None
    BY <1>1, <1>2, <2>1, Preparing, GovernanceAssumption, RowsAssumption
  <2> QED
    BY <1>1, <1>2, <2>1, <2>2, RunFacts, Preparing DEF AllKept, Kept
<1>4. ASSUME rt' = rt \/ rt' = Started(rt, c),
             Goto("op", [rec0 EXCEPT !.pc = "health", !.wait = TRUE, !.start = None])
      PROVE  AllKept'
  <2>1. PICK rec : rec = [rec0 EXCEPT !.pc = "health", !.wait = TRUE, !.start = None]
    OBVIOUS
  <2>2. rec.pc = "health" /\ rec.cand = c /\ rec.snap = rec0.snap
    BY <1>2, <1>3, <2>1 DEF ThreadStates
  <2>3. PICK p : p = rt'
    OBVIOUS
  <2>4. /\ Remembered(p) /\ rt.recipes \subseteq p.recipes /\ p.mounted = rt.mounted
        /\ p.parked = rt.parked /\ p.swapped = rt.swapped
    BY <1>3, <1>4, <2>3, StartedKept
  <2>5. Restorable(gov, p.recipes) /\ Covered(gov, p.recipes)
    BY <1>3, <2>4, Wider DEF TrialKept
  <2>6. TrialKept(rec, gov, registry, p)
    BY <1>2, <1>3, <2>2, <2>4, <2>5 DEF TrialKept
  <2>7. Kept(rec, gov, registry, p)
    BY <2>2, <2>6 DEF Kept
  <2> QED
    BY <1>3, <1>4, <2>1, <2>3, <2>4, <2>7, GoOn
<1>5. ASSUME rec0.start = c, NEW clash \in Clashes(c),
             Restoring("op", rec0, "undo", rec0.snap, registry, StartFailed(rt, c, clash))
      PROVE  AllKept'
  <2>1. PICK r : r = StartFailed(rt, c, clash)
    OBVIOUS
  <2>2. clash \in BOOLEAN
    BY DEF Clashes
  <2>3. Calm(r) /\ r \in Runtimes
    BY <1>3, <1>5, <2>1, <2>2, StartFailedCalm, StartFailedType
  <2>4. /\ Remembered(r) /\ rt.recipes \subseteq r.recipes
        /\ r.mounted = rt.mounted \cup rt.parked[c]
    BY <1>3, <2>1, <2>2, StartFailedKept
  <2>5. r.parked[c] = {}
    BY <1>3, <2>3 DEF Calm, NobodyParked
  <2>6. ActiveGenerated(registry) \subseteq r.mounted \cup r.parked[c]
    BY <1>2, <1>3, <2>4 DEF TrialKept
  <2> QED
    BY <1>1, <1>2, <1>3, <1>5, <2>1, <2>3, <2>4, <2>5, <2>6, GivenUp
<1> QED
  BY <1>1, <1>2, <1>4, <1>5 DEF ActivatePrepared, Prepared, WritesLand

(* The candidate is committed, or turned away by the registry. *)
LEMMA ActivateHealthyKept ==
    ASSUME Inductive, AllRun, AllKept, ActivateHealthy
    PROVE  AllKept'
<1>1. PICK rec0 : rec0 = th["op"]
  OBVIOUS
<1>2. PICK c : c = rec0.cand
  OBVIOUS
<1>3. /\ rec0.pc = "health" /\ c \in Candidates /\ OnTrial(rt, c) /\ rt \in Runtimes /\ Remembered(rt)
      /\ TrialKept(rec0, gov, registry, rt) /\ gov' = gov /\ rec0 \in ThreadStates
      /\ registry \in Registries
  BY <1>1, <1>2, Trying DEF ActivateHealthy, AllKept, Kept, Inductive, SoundRegistries
<1>4. CASE /\ registry' = CommitRow(registry, c) /\ rt' = DiscardParked(rt, {c})
           /\ Goto("op", [rec0 EXCEPT !.pc = "commit", !.wait = rt.parked[c] # {}])
  <2>1. PICK rec : rec = [rec0 EXCEPT !.pc = "commit", !.wait = rt.parked[c] # {}]
    OBVIOUS
  <2>2. rec.pc = "commit" /\ rec.cand = c
    BY <1>2, <1>3, <2>1 DEF ThreadStates
  <2>3. PICK p : p = rt'
    OBVIOUS
  <2>4. Remembered(p) /\ p.recipes = rt.recipes /\ p.mounted = rt.mounted
    BY <1>3, <1>4, <2>3, DiscardKept
  <2>5. ActiveGenerated(registry') \subseteq (ActiveGenerated(registry) \ Outgoing(registry, c)) \cup {c}
    BY <1>3, <1>4 DEF CommitRow, SetStatus, ActiveGenerated, Active
  <2>6. \A a \in ActiveGenerated(registry) : a \in rt.parked[c] => a \in Outgoing(registry, c)
    BY <1>3 DEF OnTrial, Outgoing, ActiveGenerated
  <2>7. ActiveGenerated(registry') \subseteq p.mounted \cup {c}
    BY <1>2, <1>3, <2>4, <2>5, <2>6 DEF TrialKept
  <2>8. CommitKept(rec, gov, registry', p)
    BY <1>3, <2>2, <2>4, <2>7 DEF CommitKept, TrialKept
  <2>9. Kept(rec, gov, registry', p)
    BY <2>2, <2>8 DEF Kept
  <2> QED
    BY <1>3, <1>4, <2>1, <2>3, <2>4, <2>9, GoOn
<1>5. CASE /\ registry' = SetStatus(registry, Outgoing(registry, c), "disabled")
           /\ Restoring("op", rec0, "undo", rec0.snap, registry', rt)
  <2>1. ActiveGenerated(registry') \subseteq ActiveGenerated(registry)
    BY <1>3, <1>5 DEF SetStatus, ActiveGenerated, Active
  <2> QED
    BY <1>1, <1>2, <1>3, <1>5, <2>1, GivenUp DEF TrialKept
<1> QED
  BY <1>1, <1>2, <1>4, <1>5 DEF ActivateHealthy

LEMMA ActivateUnhealthyKept ==
    ASSUME Inductive, AllRun, AllKept, ActivateUnhealthy
    PROVE  AllKept'
<1>1. PICK rec0 : rec0 = th["op"]
  OBVIOUS
<1>2. /\ rec0.cand \in Candidates /\ OnTrial(rt, rec0.cand) /\ rt \in Runtimes /\ Remembered(rt)
      /\ TrialKept(rec0, gov, registry, rt) /\ gov' = gov
      /\ Restoring("op", rec0, "undo", rec0.snap, registry, rt)
  BY <1>1, Trying DEF ActivateUnhealthy, AllKept, Kept
<1> QED
  BY <1>1, <1>2, GivenUp DEF TrialKept

(* The commit is written. *)
LEMMA ActivateCommittedKept ==
    ASSUME Inductive, AllRun, AllKept, ActivateCommitted, WritesLand
    PROVE  AllKept'
<1>1. PICK c : c = th["op"].cand
  OBVIOUS
<1>2. /\ th["op"].pc = "commit" /\ c \in rt.live /\ Calm(rt) /\ c \in Candidates /\ rt \in Runtimes
      /\ Remembered(rt) /\ CommitKept(th["op"], gov, registry, rt) /\ gov \in Govs /\ registry' = registry
  BY <1>1, RunFacts, PointCalm, SoundTyped DEF ActivateCommitted, AllRun, Runs, AllKept, Kept, Inductive
<1>3. PICK p : p = Mounted(rt, c)
  OBVIOUS
<1>4. c \in rt.recipes
  BY <1>2 DEF Remembered
<1>5. /\ Remembered(p) /\ p.recipes = rt.recipes /\ p.generated = rt.generated
      /\ p.live = rt.live /\ p.mounted = rt.mounted \cup {c} /\ p.parked = rt.parked
  BY <1>2, <1>3, <1>4, MountedKept
<1>6. Calm(p)
  BY <1>2, <1>5 DEF Calm
<1>7. rt' = p /\ Rest("op")
  BY <1>1, <1>3 DEF ActivateCommitted, Release, WritesLand
<1>8. PICK g : g = gov'
  OBVIOUS
<1>9. PICK done : done = Capture(registry, p)
  OBVIOUS
<1>10. g.current = done /\ g.lkg = done /\ g.target = gov.target
  BY <1>1, <1>2, <1>3, <1>8, <1>9 DEF ActivateCommitted, Govs
<1>11. ActiveGenerated(registry) \subseteq p.mounted
  BY <1>1, <1>2, <1>5 DEF CommitKept
<1>12. Mountable(done, p.recipes)
  BY <1>5, <1>6, <1>9, <1>11, CapturedMountable
<1>13. done.owners \cap Candidates = ActiveGenerated(registry) /\ done.owners = Active(registry)
  BY <1>9 DEF Capture, ActiveGenerated
<1>14. Restorable(g, p.recipes) /\ Covered(g, p.recipes)
  BY <1>2, <1>5, <1>10, <1>12 DEF CommitKept, Restorable, Covered, Fallback, Mountable
<1>15. Served(g, registry', p)
  BY <1>2, <1>10, <1>11, <1>13 DEF Served, ActiveGenerated
<1> QED
  BY <1>5, <1>7, <1>8, <1>14, <1>15, RestKept DEF Secure

(* What restoreSnapshot makes of the registry. *)
LEMMA RestoredActive ==
    ASSUME Inductive
    PROVE  /\ RestoredRegistry("op") \in SoundRegistries(blessed)
           /\ th["op"].ok => Active(RestoredRegistry("op")) = th["op"].snap.owners
           /\ ~th["op"].ok => Active(RestoredRegistry("op")) = th["op"].owners
<1>1. registry \in Registries
  BY DEF Inductive, SoundRegistries
<1>2. /\ th["op"].snap.owners \subseteq Known(registry) /\ th["op"].owners \subseteq Known(registry)
  BY OpIsThread, ThreadFacts DEF SoundSnapshots, SoundSets
<1> QED
  BY <1>1, <1>2, OpIsThread, RestoredRegistrySound, ApplyOwnersSound DEF RestoredRegistry

(* The undo ends: the rows that were active, or those of the snapshot.     *)
LEMMA ActivateUndoneKept ==
    ASSUME Inductive, AllRun, AllKept, ActivateUndone, WritesLand
    PROVE  AllKept'
<1>1. PICK rec0 : rec0 = th["op"]
  OBVIOUS
<1>2. /\ rec0.pc = "undo" /\ Calm(rt) /\ rt \in Runtimes /\ Remembered(rt) /\ gov \in Govs
      /\ RestoreKept(rec0, gov, rt, "undo") /\ rt' = rt /\ Rest("op") /\ rec0.ok \in BOOLEAN
      /\ registry' = RestoredRegistry("op")
  BY <1>1, RunFacts, PointCalm, SoundTyped DEF ActivateUndone, WritesLand, AllKept, Kept, Release, Inductive, ThreadStates
<1>3. UndoKept(rec0, gov, rt) /\ Mountable(rec0.snap, rt.recipes)
  BY <1>2 DEF RestoreKept
<1>4. rec0.ok => rt.mounted = rec0.snap.mounted
  BY <1>2 DEF RestoreKept, Under
<1>5. Active(registry') = IF rec0.ok THEN rec0.snap.owners ELSE rec0.owners
  BY <1>1, <1>2, RestoredActive
<1>6. /\ ActiveGenerated(registry') \subseteq rt.mounted
      /\ ActiveGenerated(registry') \subseteq gov.lkg.mounted
  BY <1>3, <1>4, <1>5 DEF UndoKept, ActiveGenerated, Mountable
<1>7. PICK g : g = gov'
  OBVIOUS
<1>8. PICK now : now = Capture(registry', rt)
  OBVIOUS
<1>9. g.current = now /\ g.lkg = gov.lkg /\ g.target = gov.target
  BY <1>1, <1>2, <1>3, <1>7, <1>8 DEF ActivateUndone, Govs, UndoKept
<1>10. now.owners = Active(registry') /\ Mountable(now, rt.recipes)
  BY <1>2, <1>6, <1>8, CapturedMountable DEF Capture
<1>11. Secure(g, rt.recipes)
  BY <1>3, <1>6, <1>9, <1>10 DEF UndoKept, Secure, Restorable, Covered, Fallback, ActiveGenerated
<1>12. Served(g, registry', rt)
  BY <1>6, <1>9, <1>10 DEF Served, ActiveGenerated
<1> QED
  BY <1>2, <1>7, <1>11, <1>12, RestKept

-----------------------------------------------------------------------------
(* rollback                                                                *)

LEMMA RollbackKept ==
    ASSUME Inductive, LockInv, AllRun, AllKept, Rollback, WritesLand
    PROVE  AllKept'
<1>1. /\ Secure(gov, rt.recipes) /\ Calm(rt) /\ Remembered(rt)
      /\ rt \in Runtimes /\ gov \in Govs /\ Resting \in ThreadStates
  BY IdleKept DEF Rollback
<1>2. PICK g : g = gov'
  OBVIOUS
<1>3. /\ g.current = gov.current /\ g.lkg = gov.lkg /\ g.target = gov.target
      /\ g = [gov EXCEPT !.state = "rollback-pending"]
  BY <1>1, <1>2 DEF Rollback, Govs
<1>4. Restorable(g, rt.recipes) /\ Mountable(Fallback(g), rt.recipes)
  BY <1>1, <1>3 DEF Secure, Restorable, Fallback
<1>5. PICK here : here = [Resting EXCEPT !.prior = gov, !.cand = None]
  OBVIOUS
<1>6. here \in ThreadStates /\ here.prior = gov
  BY <1>1, <1>5 DEF ThreadStates
<1>7. PICK snap : snap = Fallback(g)
  OBVIOUS
<1>8. Restoring("op", here, "rollback", snap, registry, rt)
  BY <1>3, <1>5, <1>7 DEF Rollback, StartRollback, WritesLand
<1> QED
  BY <1>1, <1>2, <1>4, <1>6, <1>7, <1>8, RestoringKept

(* A rollback that fails puts the prior snapshot back. *)
LEMMA RecoveringKept ==
    ASSUME Inductive, NEW g, NEW reg, NEW here \in ThreadStates, Recovering(here, g, reg, rt),
           Calm(rt), Remembered(rt), Restorable(g, rt.recipes), Secure(here.prior, rt.recipes)
    PROVE  AllKept'
<1>1. PICK snap : snap = here.prior.current
  OBVIOUS
<1>2. gov' = g /\ Restoring("op", here, "recover", snap, reg, rt) /\ rt \in Runtimes
  BY <1>1, RunFacts DEF Recovering
<1>3. Mountable(snap, rt.recipes)
  BY <1>1 DEF Secure, Restorable
<1> QED
  BY <1>1, <1>2, <1>3, RestoringKept

(* The target is restored, or restoring it failed. *)
LEMMA RollbackRestoredKept ==
    ASSUME Inductive, AllRun, AllKept, RollbackRestored
    PROVE  AllKept'
<1>1. PICK rec0 : rec0 = th["op"]
  OBVIOUS
<1>2. PICK snap : snap = rec0.snap
  OBVIOUS
<1>3. /\ rec0.pc = "rollback" /\ Calm(rt) /\ rt \in Runtimes /\ Remembered(rt)
      /\ gov \in Govs /\ rec0 \in ThreadStates /\ snap \in Snapshots
      /\ RestoreKept(rec0, gov, rt, "rollback")
  BY <1>1, <1>2, RunFacts, PointCalm, SoundTyped DEF RollbackRestored, AllKept, Kept, Inductive, ThreadStates
<1>4. /\ Mountable(snap, rt.recipes) /\ Restorable(gov, rt.recipes) /\ Secure(rec0.prior, rt.recipes)
      /\ snap = Fallback(gov)
  BY <1>2, <1>3 DEF RestoreKept
<1>5. rec0.ok => rt.mounted = snap.mounted /\ rt.generated \subseteq snap.mounted
  BY <1>2, <1>3 DEF RestoreKept, Under
<1>6. CASE /\ rec0.ok
           /\ Remounting("op", rec0, "rollback", RestoredRegistry("op"),
                         [gov EXCEPT !.lkg = snap, !.current = snap, !.state = "rolled-back", !.pending = None],
                         rt, disk)
  <2>1. PICK g : g = [gov EXCEPT !.lkg = snap, !.current = snap, !.state = "rolled-back", !.pending = None]
    OBVIOUS
  <2>2. /\ g.current = snap /\ g.lkg = snap /\ g.target = gov.target /\ g.state = "rolled-back"
        /\ g \in Govs
    BY <1>3, <2>1 DEF Govs, ActivationStates
  <2>3. Fallback(g) = snap /\ Committed(g) = snap
    BY <1>4, <2>2 DEF Fallback, Committed
  <2>4. Restorable(g, rt.recipes) /\ Covered(g, rt.recipes)
    BY <1>4, <2>2, <2>3 DEF Restorable, Covered, Mountable
  <2>5. PICK reg : reg = RestoredRegistry("op")
    OBVIOUS
  <2>6. reg \in SoundRegistries(blessed) /\ Active(reg) = snap.owners
    BY <1>1, <1>2, <1>6, <2>5, RestoredActive
  <2>7. snap.owners \cap Candidates \subseteq snap.mounted
    BY <1>4 DEF Mountable
  <2>8. Served(g, reg, rt) /\ Committed(g).owners \cap Candidates \subseteq rt.mounted
    BY <1>5, <1>6, <2>2, <2>3, <2>6, <2>7 DEF Served, ActiveGenerated
  <2>9. rt.live \subseteq rec0.snap.mounted
    BY <1>2, <1>3, <1>5, <1>6 DEF Calm
  <2>10. Remounting("op", rec0, "rollback", reg, g, rt, disk)
    BY <1>6, <2>1, <2>5
  <2> QED
    BY <1>3, <1>4, <2>2, <2>4, <2>6, <2>8, <2>9, <2>10, RemountingKept
<1>7. CASE Recovering(rec0, gov, RestoredRegistry("op"), rt)
  BY <1>3, <1>4, <1>7, RecoveringKept
<1> QED
  BY <1>1, <1>2, <1>6, <1>7 DEF RollbackRestored

(* A rollback ends. *)
LEMMA RollbackMountedKept ==
    ASSUME Inductive, AllRun, AllKept, up = "up", RollbackMounted
    PROVE  AllKept'
<1>1. PICK rec0 : rec0 = th["op"]
  OBVIOUS
<1>2. /\ rec0.pc = "mounted" /\ rec0.then = "rollback" /\ Calm(rt) /\ rt \in Runtimes /\ Remembered(rt)
      /\ gov \in Govs /\ rec0 \in ThreadStates
      /\ Remounts(rec0, gov, rt) /\ Served(gov, registry, rt)
  BY <1>1, RunFacts, PointCalm, SoundTyped DEF RollbackMounted, AllKept, Kept, Inductive
<1>3. /\ Restorable(gov, rt.recipes) /\ Covered(gov, rt.recipes) /\ Secure(rec0.prior, rt.recipes)
  BY <1>2 DEF Remounts
<1>4. PICK ok : ok = Restored(registry, rec0.snap)
  OBVIOUS
<1>5. PICK now : now = Capture(registry, rt)
  OBVIOUS
<1>6. PICK g : g = [gov EXCEPT !.current = now, !.integrity = ok]
  OBVIOUS
<1>7. g.current = now /\ g.lkg = gov.lkg /\ g.target = gov.target
  BY <1>2, <1>6 DEF Govs
<1>8. now.owners \cap Candidates = ActiveGenerated(registry) /\ Mountable(now, rt.recipes)
  BY <1>2, <1>5, CapturedMountable DEF Capture, ActiveGenerated, Served
<1>9. ActiveGenerated(registry) \subseteq gov.lkg.mounted
  BY <1>2, <1>3 DEF Served, Covered, ActiveGenerated
<1>10. Restorable(g, rt.recipes) /\ Covered(g, rt.recipes)
  BY <1>3, <1>7, <1>8, <1>9 DEF Restorable, Covered, Fallback
<1>11. CASE gov' = g /\ UNCHANGED <<registry, rt>> /\ Release
  <2>1. Served(g, registry, rt)
    BY <1>2, <1>7, <1>8 DEF Served
  <2> QED
    BY <1>2, <1>10, <1>11, <2>1, RestKept DEF Release, Secure
<1>12. CASE Recovering(rec0, g, registry, rt)
  BY <1>2, <1>3, <1>10, <1>12, RecoveringKept
<1> QED
  BY <1>1, <1>4, <1>5, <1>6, <1>11, <1>12 DEF RollbackMounted

(* What ran before a failed rollback is restored, or the home fails closed. *)
LEMMA RollbackRecoveredKept ==
    ASSUME Inductive, AllRun, AllKept, up = "up", RollbackRecovered, WritesLand
    PROVE  AllKept'
<1>1. PICK rec0 : rec0 = th["op"]
  OBVIOUS
<1>2. PICK prior : prior = rec0.prior
  OBVIOUS
<1>3. /\ rec0.pc = "recover" /\ Calm(rt) /\ rt \in Runtimes /\ Remembered(rt)
      /\ gov \in Govs /\ rec0 \in ThreadStates /\ prior \in Govs
      /\ RestoreKept(rec0, gov, rt, "recover")
  BY <1>1, <1>2, RunFacts, PointCalm, SoundTyped DEF RollbackRecovered, AllKept, Kept, Inductive, ThreadStates
<1>4. /\ Mountable(rec0.snap, rt.recipes) /\ Restorable(gov, rt.recipes) /\ Secure(prior, rt.recipes)
      /\ rec0.snap = prior.current
  BY <1>2, <1>3 DEF RestoreKept
<1>5. rec0.ok => rt.mounted = prior.current.mounted
  BY <1>3, <1>4 DEF RestoreKept, Under
<1>6. CASE /\ rec0.ok /\ registry' = RestoredRegistry("op")
           /\ gov' = [prior EXCEPT !.pending = gov.pending] /\ Rest("op") /\ UNCHANGED rt
  <2>1. PICK g : g = gov'
    OBVIOUS
  <2>2. /\ g.current = prior.current /\ g.lkg = prior.lkg /\ g.target = prior.target
        /\ g.safeMode = prior.safeMode /\ g.failure = prior.failure /\ g.integrity = prior.integrity
    BY <1>3, <1>6, <2>1 DEF Govs
  <2>3. Secure(g, rt.recipes)
    BY <1>4, <2>2 DEF Secure, Restorable, Covered, Stuck, Fallback
  <2>4. Active(registry') = prior.current.owners
    BY <1>1, <1>4, <1>6, RestoredActive
  <2>5. Served(g, registry', rt)
    BY <1>4, <1>5, <1>6, <2>2, <2>4 DEF Served, ActiveGenerated, Mountable
  <2> QED
    BY <1>3, <1>6, <2>1, <2>3, <2>5, RestKept
<1>7. CASE FailingClosed("op", rec0, "shut", RestoredRegistry("op"), gov, rt)
  <2>1. PICK reg : reg = RestoredRegistry("op")
    OBVIOUS
  <2>2. reg \in Registries
    BY <2>1, RestoredActive DEF SoundRegistries
  <2> QED
    BY <1>3, <1>4, <1>7, <2>1, <2>2, FailingClosedKept
<1> QED
  BY <1>1, <1>2, <1>6, <1>7 DEF RollbackRecovered, WritesLand

(* A rollback that cannot recover has failed closed. *)
LEMMA RollbackClosedKept ==
    ASSUME Inductive, AllRun, AllKept, up = "up", RollbackClosed
    PROVE  AllKept'
<1>1. PICK p : p = Dropped(rt, th["op"].drop)
  OBVIOUS
<1>2. /\ th["op"].pc = "shut" /\ rt \in Runtimes /\ Remembered(rt) /\ gov \in Govs
      /\ Closing(gov, registry, rt) /\ registry' = registry /\ rt' = p /\ Rest("op")
      /\ gov' = [gov EXCEPT !.failure = Failure(Blamed(gov), FALSE, TRUE)]
  BY <1>1, RunFacts, SoundTyped DEF RollbackClosed, AllKept, Kept, Inductive
<1>3. Remembered(p) /\ p.recipes = rt.recipes
  BY <1>1, <1>2, DroppedKept
<1>4. PICK g : g = gov'
  OBVIOUS
<1>5. PICK f : f = Failure(Blamed(gov), FALSE, TRUE)
  OBVIOUS
<1>6. /\ g.current = gov.current /\ g.lkg = gov.lkg /\ g.target = gov.target
      /\ g.safeMode = gov.safeMode /\ g.failure = f /\ g.integrity = gov.integrity
  BY <1>2, <1>4, <1>5 DEF Govs
<1>7. f.safeRequired
  BY <1>5 DEF Failure
<1>8. Secure(g, p.recipes)
  BY <1>2, <1>3, <1>6, <1>7 DEF Closing, Secure, Stuck, Restorable, Fallback
<1>9. Served(g, registry', p)
  BY <1>2 DEF Closing, Served
<1> QED
  BY <1>2, <1>3, <1>4, <1>8, <1>9, RestKept

-----------------------------------------------------------------------------
(* The waits inside remountCommittedGenerated.                             *)

LEMMA MountNextKept ==
    ASSUME Inductive, AllRun, AllKept, MountNext("op")
    PROVE  AllKept'
<1>1. PICK rec0 : rec0 = th["op"]
  OBVIOUS
<1>2. PICK c \in rec0.todo :
         /\ rec0.pc = "mount" /\ gov' = gov /\ registry' = registry
         /\ \/ /\ rt' = Mounted(DiscardParked(rt, {c}), c)
               /\ Goto("op", [rec0 EXCEPT !.todo = @ \ {c}])
            \/ c \notin rt.generated
  BY <1>1 DEF MountNext
<1>3. /\ rec0 \in ThreadStates /\ rt \in Runtimes /\ Remembered(rt) /\ Kept(rec0, gov, registry, rt)
  BY <1>1, RunFacts DEF AllKept
<1>4. /\ Remounts(rec0, gov, rt) /\ rec0.todo \subseteq rt.generated /\ Served(gov, registry, rt)
      /\ rec0.held = {} => Restorable(gov, rt.recipes) /\ Covered(gov, rt.recipes)
  BY <1>2, <1>3 DEF Kept
<1>5. PICK q : q = DiscardParked(rt, {c})
  OBVIOUS
<1>6. PICK p : p = Mounted(q, c)
  OBVIOUS
<1>7. /\ Remembered(q) /\ q.recipes = rt.recipes /\ q.generated = rt.generated
      /\ q.live = rt.live /\ q.mounted = rt.mounted /\ q \in Runtimes
  BY <1>3, <1>5, DiscardKept, StopTypes
<1>8. c \in q.recipes
  BY <1>3, <1>4, <1>7 DEF Remembered
<1>9. /\ Remembered(p) /\ p.recipes = rt.recipes /\ p.generated = rt.generated
      /\ p.live = rt.live /\ p.mounted = rt.mounted \cup {c}
  BY <1>6, <1>7, <1>8, MountedKept
<1>10. PICK rec : rec = [rec0 EXCEPT !.todo = @ \ {c}]
  OBVIOUS
<1>11. /\ rec.pc = "mount" /\ rec.then = rec0.then /\ rec.prior = rec0.prior /\ rec.snap = rec0.snap
       /\ rec.held = rec0.held /\ rec.todo = rec0.todo \ {c}
  BY <1>2, <1>3, <1>10 DEF ThreadStates
<1>12. Remounts(rec, gov, p)
  BY <1>4, <1>9, <1>11 DEF Remounts
<1>13. Served(gov, registry, p)
  BY <1>4, <1>9 DEF Served
<1>14. Kept(rec, gov, registry, p)
  BY <1>4, <1>9, <1>11, <1>12, <1>13 DEF Kept
<1>15. rt' = p /\ Goto("op", rec)
  BY <1>2, <1>4, <1>5, <1>6, <1>10
<1> QED
  BY <1>2, <1>9, <1>14, <1>15, GoOn

(* The last one was mounted: a home that withheld extensions adopts what   *)
(* runs.                                                                   *)
LEMMA MountsDoneKept ==
    ASSUME Inductive, AllRun, AllKept, MountsDone("op")
    PROVE  AllKept'
<1>1. PICK rec0 : rec0 = th["op"]
  OBVIOUS
<1>2. /\ rec0.pc = "mount" /\ rec0 \in ThreadStates /\ Calm(rt) /\ rt \in Runtimes /\ Remembered(rt)
      /\ Kept(rec0, gov, registry, rt) /\ gov \in Govs /\ registry' = registry /\ rt' = rt
  BY <1>1, RunFacts, PointCalm, SoundTyped DEF MountsDone, AllKept, Inductive
<1>3. /\ Remounts(rec0, gov, rt) /\ Served(gov, registry, rt)
      /\ rec0.held = {} => Restorable(gov, rt.recipes) /\ Covered(gov, rt.recipes)
  BY <1>2 DEF Kept
<1>4. PICK rec : rec = [rec0 EXCEPT !.pc = "mounted", !.wait = FALSE]
  OBVIOUS
<1>5. /\ rec.pc = "mounted" /\ rec.then = rec0.then /\ rec.prior = rec0.prior /\ rec.snap = rec0.snap
  BY <1>2, <1>4 DEF ThreadStates
<1>6. PICK g : g = gov'
  OBVIOUS
<1>7. PICK now : now = Capture(registry, rt)
  OBVIOUS
<1>8. /\ now.owners \cap Candidates = ActiveGenerated(registry) /\ now.owners = Active(registry)
      /\ Mountable(now, rt.recipes)
  BY <1>2, <1>3, <1>7, CapturedMountable DEF Capture, ActiveGenerated, Served
<1>9. \/ rec0.held = {} /\ g = gov
      \/ g.current = now /\ g.lkg = now /\ g.target = now
  BY <1>1, <1>2, <1>6, <1>7 DEF MountsDone, Adopted, Govs
<1>10. Restorable(g, rt.recipes) /\ Covered(g, rt.recipes)
  BY <1>3, <1>8, <1>9 DEF Restorable, Covered, Fallback, Mountable
<1>11. Served(g, registry, rt)
  BY <1>3, <1>8, <1>9 DEF Served, ActiveGenerated
<1>12. Remounts(rec, g, rt)
  BY <1>3, <1>5, <1>10 DEF Remounts
<1>13. Kept(rec, g, registry, rt)
  BY <1>5, <1>10, <1>11, <1>12 DEF Kept, Secure
<1> QED
  BY <1>1, <1>2, <1>4, <1>6, <1>13, GoOn DEF MountsDone

(* A home that fails closed has stopped every extension. *)
LEMMA ClosedKept ==
    ASSUME Inductive, AllRun, AllKept, Closed("op")
    PROVE  AllKept'
<1>1. PICK rec0 : rec0 = th["op"]
  OBVIOUS
<1>2. /\ rec0.pc = "close" /\ rec0 \in ThreadStates /\ rt \in Runtimes /\ Remembered(rt) /\ gov \in Govs
      /\ Kept(rec0, gov, registry, rt) /\ registry' = registry
      /\ gov' = [gov EXCEPT !.failure = Failure(Blamed(gov), FALSE, TRUE)]
  BY <1>1, RunFacts, SoundTyped DEF Closed, AllKept, Inductive
<1>3. Remounts(rec0, gov, rt) /\ Closing(gov, registry, rt)
  BY <1>2 DEF Kept
<1>4. PICK p : p = rt'
  OBVIOUS
<1>5. Remembered(p) /\ p.recipes = rt.recipes /\ p.live = rt.live
  BY <1>1, <1>2, <1>4, DroppedKept DEF Closed
<1>6. PICK g : g = gov'
  OBVIOUS
<1>7. PICK f : f = Failure(Blamed(gov), FALSE, TRUE)
  OBVIOUS
<1>8. /\ g.current = gov.current /\ g.lkg = gov.lkg /\ g.target = gov.target
      /\ g.safeMode = gov.safeMode /\ g.failure = f /\ g.integrity = gov.integrity
  BY <1>2, <1>6, <1>7 DEF Govs
<1>9. f.safeRequired
  BY <1>7 DEF Failure
<1>10. Restorable(g, p.recipes) /\ Stuck(g)
  BY <1>3, <1>5, <1>8, <1>9 DEF Closing, Restorable, Stuck, Fallback
<1>11. Served(g, registry, p)
  BY <1>3 DEF Closing, Served
<1>12. PICK rec : rec = [rec0 EXCEPT !.pc = "mounted", !.wait = FALSE, !.drop = {}]
  OBVIOUS
<1>13. /\ rec.pc = "mounted" /\ rec.then = rec0.then /\ rec.prior = rec0.prior /\ rec.snap = rec0.snap
  BY <1>2, <1>12 DEF ThreadStates
<1>14. Remounts(rec, g, p)
  BY <1>3, <1>5, <1>8, <1>10, <1>13 DEF Remounts, Covered
<1>15. Kept(rec, g, registry, p)
  BY <1>10, <1>11, <1>13, <1>14 DEF Kept, Secure
<1> QED
  BY <1>1, <1>2, <1>4, <1>5, <1>6, <1>12, <1>15, GoOn DEF Closed

-----------------------------------------------------------------------------
(* Safe Mode, disable, uninstall.                                          *)

LEMMA EnterSafeModeKept ==
    ASSUME Inductive, LockInv, AllRun, AllKept, EnterSafeMode
    PROVE  AllKept'
<1>1. /\ Secure(gov, rt.recipes) /\ Calm(rt) /\ Remembered(rt) /\ rt \in Runtimes /\ gov \in Govs
      /\ Resting \in ThreadStates /\ registry \in Registries
  BY IdleKept DEF EnterSafeMode
<1>2. PICK now : now = Capture(registry', rt)
  OBVIOUS
<1>3. PICK g : g = gov'
  OBVIOUS
<1>4. /\ g.current = now /\ g.lkg = gov.lkg /\ g.target = gov.target
      /\ g.safeMode = TRUE /\ g.failure = gov.failure /\ g.integrity = gov.integrity
  BY <1>1, <1>2, <1>3 DEF EnterSafeMode, Govs
<1>5. ActiveGenerated(registry') = {}
  BY <1>1, DisableGeneratedSound DEF EnterSafeMode, ActiveGenerated
<1>6. Mountable(now, rt.recipes) /\ now.owners \cap Candidates = {}
  BY <1>1, <1>2, <1>5, CapturedMountable DEF Capture, ActiveGenerated
<1>7. PICK p : p = rt'
  OBVIOUS
<1>8. Remembered(p) /\ p.recipes = rt.recipes
  BY <1>1, <1>7, UnloadingKept DEF EnterSafeMode
<1>9. Secure(g, p.recipes)
  BY <1>1, <1>4, <1>6, <1>8 DEF Secure, Restorable, Covered, Stuck, Fallback
<1>10. PICK rec : rec = [Resting EXCEPT !.pc = "safe", !.wait = UnloadWaits(rt, Candidates),
                                      !.drop = rt.generated]
  OBVIOUS
<1>11. rec.pc = "safe"
  BY <1>1, <1>10 DEF ThreadStates
<1>12. Kept(rec, g, registry', p)
  BY <1>5, <1>9, <1>11 DEF Kept
<1> QED
  BY <1>3, <1>7, <1>8, <1>10, <1>12, GoOn DEF EnterSafeMode

LEMMA SafeModeEnteredKept ==
    ASSUME Inductive, AllRun, AllKept, SafeModeEntered
    PROVE  AllKept'
<1>1. PICK p : p = Dropped(rt, th["op"].drop)
  OBVIOUS
<1>2. /\ Secure(gov, rt.recipes) /\ ActiveGenerated(registry) = {} /\ Remembered(rt) /\ rt \in Runtimes
      /\ rt' = p /\ Rest("op") /\ gov' = gov /\ registry' = registry
  BY <1>1, RunFacts DEF SafeModeEntered, AllKept, Kept
<1>3. Remembered(p) /\ p.recipes = rt.recipes
  BY <1>1, <1>2, DroppedKept
<1>4. Served(gov, registry, p)
  BY <1>2 DEF Served
<1> QED
  BY <1>2, <1>3, <1>4, RestKept

LEMMA ExitSafeModeKept ==
    ASSUME Inductive, LockInv, AllRun, AllKept, ExitSafeMode
    PROVE  AllKept'
<1>1. /\ Secure(gov, rt.recipes) /\ Served(gov, registry, rt) /\ Calm(rt) /\ Remembered(rt)
      /\ Covered(gov, rt.recipes) /\ gov \in Govs /\ th["op"].pc = "idle"
      /\ registry' = registry /\ rt' = rt /\ th' = th
  BY IdleKept DEF ExitSafeMode
<1>2. PICK now : now = Capture(registry, rt)
  OBVIOUS
<1>3. PICK g : g = gov'
  OBVIOUS
<1>4. g.current = now /\ g.lkg = gov.lkg /\ g.target = gov.target
  BY <1>1, <1>2, <1>3 DEF ExitSafeMode, Govs
<1>5. /\ now.owners \cap Candidates = ActiveGenerated(registry) /\ now.owners = Active(registry)
      /\ Mountable(now, rt.recipes)
  BY <1>1, <1>2, CapturedMountable DEF Capture, ActiveGenerated, Served
<1>6. Secure(g, rt.recipes)
  BY <1>1, <1>4, <1>5 DEF Secure, Restorable, Covered, Fallback, Served, ActiveGenerated
<1>7. Served(g, registry, rt)
  BY <1>1, <1>4, <1>5 DEF Served, ActiveGenerated
<1>8. Kept(th["op"], g, registry, rt)
  BY <1>1, <1>6, <1>7 DEF Kept
<1> QED
  BY <1>1, <1>3, <1>8 DEF AllKept

LEMMA RemoveStartKept ==
    ASSUME Inductive, LockInv, AllRun, AllKept, NEW x, NEW kind \in {"disable", "uninstall"},
           RemoveStart(x, kind)
    PROVE  AllKept'
<1>1. /\ Secure(gov, rt.recipes) /\ Served(gov, registry, rt) /\ Remembered(rt) /\ rt \in Runtimes
      /\ Resting \in ThreadStates /\ gov' = gov /\ registry' = registry
  BY IdleKept DEF RemoveStart
<1>2. PICK unload : unload = {x} \cap Candidates
  OBVIOUS
<1>3. PICK rec : rec = [Resting EXCEPT !.pc = kind, !.wait = UnloadWaits(rt, unload), !.todo = {x},
                                      !.drop = unload \cap rt.generated, !.prior = gov]
  OBVIOUS
<1>4. rec.pc = kind /\ rec.todo = {x} /\ rec.drop = unload \cap rt.generated
  BY <1>1, <1>3 DEF ThreadStates
<1>5. PICK p : p = rt'
  OBVIOUS
<1>6. Remembered(p) /\ p.recipes = rt.recipes /\ p.mounted = rt.mounted
  BY <1>1, <1>2, <1>5, UnloadingKept DEF RemoveStart
<1>7. Kept(rec, gov, registry, p)
  BY <1>1, <1>2, <1>4, <1>6 DEF Kept, Served
<1>8. Goto("op", rec)
  BY <1>2, <1>3 DEF RemoveStart
<1> QED
  BY <1>1, <1>5, <1>6, <1>7, <1>8, GoOn

(* The removal is written. *)
LEMMA RemovedKept ==
    ASSUME Inductive, AllRun, AllKept, Removed, WritesLand
    PROVE  AllKept'
<1>1. PICK rec0 : rec0 = th["op"]
  OBVIOUS
<1>2. PICK r : r = Dropped(rt, rec0.drop)
  OBVIOUS
<1>3. /\ rec0.pc \in {"disable", "uninstall"} /\ rt \in Runtimes /\ Remembered(rt) /\ gov \in Govs
      /\ Kept(rec0, gov, registry, rt) /\ registry \in Registries
  BY <1>1, RunFacts, SoundTyped DEF Removed, AllKept, Inductive, SoundRegistries
<1>4. /\ Secure(gov, rt.recipes) /\ ActiveGenerated(registry) \subseteq gov.current.owners
      /\ rec0.drop \subseteq rec0.todo /\ ActiveGenerated(registry) \ rec0.todo \subseteq rt.mounted
  BY <1>3 DEF Kept
<1>5. Calm(r)
  BY <1>1, <1>2, <1>3, StoppedCalm DEF Stops
<1>6. Remembered(r) /\ r.recipes = rt.recipes /\ r.mounted = rt.mounted \ rec0.drop
  BY <1>2, <1>3, DroppedKept
<1>7. PICK reg : reg = SetStatus(registry, rec0.todo, "disabled")
  OBVIOUS
<1>8. PICK snap : snap = Capture(reg, r)
  OBVIOUS
<1>10. /\ registry' = reg /\ rt' = r /\ Rest("op")
       /\ gov' = [gov EXCEPT !.current = snap, !.lkg = IF rec0.pc = "uninstall" THEN snap ELSE @]
  BY <1>1, <1>2, <1>7, <1>8 DEF Removed, Release, WritesLand
<1>11. PICK g : g = gov'
  OBVIOUS
<1>12. /\ g.current = snap /\ g.target = gov.target /\ (g.lkg = gov.lkg \/ g.lkg = snap)
       /\ g.safeMode = gov.safeMode /\ g.failure = gov.failure /\ g.integrity = gov.integrity
  BY <1>3, <1>10, <1>11 DEF Govs
<1>13. ActiveGenerated(reg) = ActiveGenerated(registry) \ rec0.todo
  BY <1>3, <1>7 DEF SetStatus, Registries, Statuses, ActiveGenerated, Active
<1>14. ActiveGenerated(reg) \subseteq r.mounted
  BY <1>4, <1>6, <1>13
<1>15. snap.owners = Active(reg) /\ Mountable(snap, r.recipes)
  BY <1>5, <1>6, <1>8, <1>14, CapturedMountable DEF Capture
<1>16. snap.owners \cap Candidates \subseteq gov.current.owners
  BY <1>4, <1>13, <1>15 DEF ActiveGenerated
<1>17. Restorable(g, r.recipes)
  BY <1>4, <1>6, <1>12, <1>15 DEF Secure, Restorable, Fallback, Mountable
<1>18. Stuck(g) \/ Covered(g, r.recipes)
  <2>1. CASE g.lkg = snap
    BY <1>12, <1>15, <2>1 DEF Covered, Mountable
  <2>2. CASE g.lkg = gov.lkg
    BY <1>4, <1>6, <1>12, <1>16, <2>2 DEF Secure, Covered, Stuck
  <2> QED
    BY <1>12, <2>1, <2>2
<1>19. Served(g, reg, r)
  BY <1>12, <1>14, <1>15 DEF Served, ActiveGenerated
<1> QED
  BY <1>6, <1>10, <1>11, <1>17, <1>18, <1>19, RestKept DEF Secure

-----------------------------------------------------------------------------
(* Requests and boots.                                                     *)

LEMMA RequestKept ==
    ASSUME Inductive, LockInv, AllRun, AllKept, Request, WritesLand
    PROVE  AllKept' /\ up' = up
<1>1. ASSUME NEW c \in Candidates,
             \/ RequestApproval(c) \/ RecordApproval(c, "approved-for-exact-diff") \/ RecordApproval(c, "rejected")
      PROVE  AllKept' /\ up' = up
  BY <1>1 DEF RequestApproval, RecordApproval, AllKept
<1>2. ASSUME NEW c \in Candidates, AbandonFailedActivation(c)
      PROVE  AllKept' /\ up' = up
  <2>1. /\ Secure(gov, rt.recipes) /\ Served(gov, registry, rt) /\ Remembered(rt) /\ gov \in Govs
        /\ th["op"].pc = "idle"
    BY <1>2, IdleKept DEF AbandonFailedActivation
  <2>2. PICK g : g = gov'
    OBVIOUS
  <2>3. /\ g.current = gov.current /\ g.target = gov.target /\ g.lkg = gov.lkg
        /\ g.safeMode = gov.safeMode /\ g.failure = gov.failure /\ g.integrity = gov.integrity
    BY <1>2, <2>1, <2>2 DEF AbandonFailedActivation, Govs
  <2>4. Secure(g, rt.recipes) /\ Served(g, registry, rt)
    BY <2>1, <2>3 DEF Secure, Restorable, Covered, Stuck, Fallback, Served
  <2>5. Kept(th["op"], g, registry, rt)
    BY <2>1, <2>4 DEF Kept
  <2> QED
    BY <1>2, <2>1, <2>2, <2>5 DEF AbandonFailedActivation, AllKept
<1>3. ASSUME NEW c \in Candidates, ActivateStart(c)
      PROVE  AllKept' /\ up' = up
  BY <1>3, ActivateStartKept DEF ActivateStart
<1>4. ASSUME NEW x \in Rows, NEW kind \in {"disable", "uninstall"}, RemoveStart(x, kind)
      PROVE  AllKept' /\ up' = up
  BY <1>4, RemoveStartKept DEF RemoveStart
<1>5. Rollback => AllKept' /\ up' = up
  BY RollbackKept DEF Rollback
<1>6. EnterSafeMode => AllKept' /\ up' = up
  BY EnterSafeModeKept DEF EnterSafeMode
<1>7. ExitSafeMode => AllKept' /\ up' = up
  BY ExitSafeModeKept DEF ExitSafeMode
<1> QED
  BY <1>1, <1>2, <1>3, <1>4, <1>5, <1>6, <1>7, Zenon DEF Request

(* What a home holds before its first boot. *)
LEMMA HomeKept ==
    ASSUME NEW kept \in {{}, Legacy}, NEW g, g = HomeState(kept)
    PROVE  /\ Restorable([g EXCEPT !.current = [owners |-> g.current.owners \ Candidates, mounted |-> {}]], {})
           /\ g.current.owners \cap Candidates = kept /\ g.lkg = g.current
           /\ g.state \in {"idle", "active"} /\ ~g.safeMode
           /\ kept = {} => Restorable(g, {}) /\ Covered(g, {})
<1>1. PICK snap : snap = [owners |-> (Rows \ Candidates) \cup kept, mounted |-> kept]
  OBVIOUS
<1>2. /\ g.current = snap /\ g.lkg = snap /\ g.safeMode = FALSE /\ g.state \in {"idle", "active"}
      /\ g.target = IF kept = {} THEN NoSnapshot ELSE HomeSnapshot
      /\ DOMAIN g = {"state", "pending", "current", "lkg", "target", "failure", "safeMode", "integrity"}
  BY <1>1 DEF HomeState
<1>3. kept \subseteq Candidates
  BY GovernanceAssumption
<1>4. snap.owners \cap Candidates = kept /\ snap.mounted = kept
  BY <1>1, <1>3
<1>5. PICK low : low = [owners |-> g.current.owners \ Candidates, mounted |-> {}]
  OBVIOUS
<1>6. Mountable(low, {}) /\ Mountable(HomeSnapshot, {})
  BY <1>5 DEF Mountable, HomeSnapshot, OneEach
<1>7. HomeSnapshot # NoSnapshot
  BY SnapshotAssumption DEF HomeSnapshot, Snapshots
<1>8. kept = {} => Mountable(snap, {})
  BY <1>4 DEF Mountable, OneEach
<1>9. PICK h : h = [g EXCEPT !.current = low]
  OBVIOUS
<1>10. h.current = low /\ h.lkg = snap /\ h.target = g.target
  BY <1>2, <1>9
<1>11. Mountable(Fallback(h), {}) /\ (kept = {} => Mountable(Fallback(g), {}))
  BY <1>2, <1>6, <1>7, <1>8, <1>10 DEF Fallback
<1>12. Restorable(h, {})
  BY <1>4, <1>6, <1>10, <1>11 DEF Restorable
<1>13. kept = {} => Restorable(g, {}) /\ Covered(g, {})
  BY <1>2, <1>4, <1>8, <1>11 DEF Restorable, Covered
<1> QED
  BY <1>2, <1>4, <1>5, <1>9, <1>12, <1>13

(* The first boot mounts nothing: it withholds what the home had active,   *)
(* or fails closed.                                                        *)
LEMMA BootKept ==
    ASSUME Inductive, BeforeBoot(gov, registry, rt), Boot
    PROVE  /\ AllKept' /\ up' = "booting"
           /\ th'["op"].then = "boot" /\ th'["op"].pc \in {"mount", "close"}
<1>1. PICK kept \in {{}, Legacy} : gov = HomeState(kept) /\ registry = HomeRegistry(kept)
  BY DEF BeforeBoot
<1>2. PICK h : h = [gov EXCEPT !.current = [owners |-> gov.current.owners \ Candidates, mounted |-> {}]]
  OBVIOUS
<1>3. /\ Restorable(h, {}) /\ gov.current.owners \cap Candidates = kept /\ gov.lkg = gov.current
      /\ gov.state \in {"idle", "active"} /\ ~gov.safeMode
      /\ kept = {} => Restorable(gov, {}) /\ Covered(gov, {})
  BY <1>1, <1>2, HomeKept
<1>4. /\ kept \subseteq Candidates /\ kept \subseteq Legacy /\ rt = FreshRuntime /\ rt \in Runtimes
      /\ Resting \in ThreadStates /\ registry \in Registries /\ gov \in Govs
  BY RunFacts, SoundTyped, GovernanceAssumption DEF Inductive, BeforeBoot, SoundRegistries
<1>5. /\ rt.recipes = {} /\ rt.mounted = {} /\ Remembered(rt)
  BY <1>4 DEF FreshRuntime, Remembered, NobodyParked
<1>6. h.lkg = gov.lkg /\ h.target = gov.target
  BY <1>2, <1>4 DEF Govs
<1>7. ASSUME NEW g, g.lkg = gov.lkg, g.target = gov.target, Mountable(g.current, {})
      PROVE  Restorable(g, {})
  BY <1>3, <1>6, <1>7 DEF Restorable, Fallback
<1>8. ActiveGenerated(registry) = kept
  BY <1>1, <1>4, RowsAssumption DEF ActiveGenerated, Active, HomeRegistry
<1>9. PICK targets : targets = Committed(gov).owners \cap Candidates
  OBVIOUS
<1>10. targets = kept /\ Remountable(gov) = {}
  BY <1>3, <1>4, <1>9 DEF Committed, Remountable
<1>11. PICK held : held = targets \cap Legacy \cap intact
  OBVIOUS
<1>12. PICK withheld : withheld = SetStatus(registry, held, "disabled")
  OBVIOUS
<1>13. withheld \in Registries /\ ActiveGenerated(withheld) = kept \ held
  BY <1>4, <1>8, <1>12 DEF SetStatus, Registries, Statuses, ActiveGenerated, Active
<1>14. PICK go : go = [Resting EXCEPT !.then = "boot", !.todo = {}, !.held = {}]
  OBVIOUS
<1>15. go \in ThreadStates /\ go.then = "boot"
  BY <1>4, <1>14 DEF ThreadStates
<1>16. \/ /\ ~(targets \subseteq intact /\ ActiveGenerated(registry) \subseteq targets)
          /\ FailingClosed("op", go, "close", withheld, gov, rt)
       \/ /\ targets \subseteq intact
          /\ registry' = withheld /\ rt' = rt
          /\ gov' = IF held = {} THEN gov ELSE [gov EXCEPT !.failure = Failure(Blamed(gov), FALSE, FALSE)]
          /\ Goto("op", [go EXCEPT !.pc = "mount", !.wait = FALSE, !.todo = Remountable(gov), !.held = held])
  <2>1. PICK d : Remounting("op", Resting, "boot", registry, gov, rt, d)
    BY <1>3 DEF Boot
  <2> QED
    BY <1>3, <1>9, <1>11, <1>12, <1>14, <2>1 DEF Remounting
<1>17. CASE FailingClosed("op", go, "close", withheld, gov, rt)
  <2>1. PICK low : low = Capture(DisableGenerated(withheld), rt)
    OBVIOUS
  <2>2. PICK g : g = gov'
    OBVIOUS
  <2>3. /\ g.current = low /\ g.lkg = gov.lkg /\ g.target = gov.target
        /\ g.safeMode = TRUE /\ g.integrity = FALSE
    BY <1>4, <1>17, <2>1, <2>2 DEF FailingClosed, Govs
  <2>4. ActiveGenerated(DisableGenerated(withheld)) = {} /\ registry' = DisableGenerated(withheld)
    BY <1>13, <1>17, DisableGeneratedSound DEF ActiveGenerated, FailingClosed
  <2>5. Mountable(low, {})
    BY <1>5, <2>1, <2>4 DEF Mountable, Capture, ActiveGenerated, OneEach
  <2>6. Restorable(g, {})
    BY <1>7, <2>3, <2>5
  <2>7. PICK p : p = rt'
    OBVIOUS
  <2>8. Remembered(p) /\ p.recipes = {}
    BY <1>4, <1>5, <1>17, <2>7, UnloadingKept DEF FailingClosed
  <2>9. PICK rec : rec = [go EXCEPT !.pc = "close", !.wait = UnloadWaits(rt, Candidates), !.drop = rt.generated]
    OBVIOUS
  <2>10. rec.pc = "close" /\ rec.then = "boot"
    BY <1>15, <2>9 DEF ThreadStates
  <2>11. Kept(rec, g, registry', p)
    BY <2>3, <2>4, <2>6, <2>8, <2>10 DEF Kept, Remounts, Closing
  <2>12. Goto("op", rec) /\ th'["op"] = rec
    BY <1>17, <2>9, RunFacts, Moved DEF FailingClosed
  <2> QED
    BY <2>2, <2>7, <2>8, <2>10, <2>11, <2>12, GoOn DEF Boot
<1>18. CASE /\ targets \subseteq intact
            /\ registry' = withheld /\ rt' = rt
            /\ gov' = IF held = {} THEN gov ELSE [gov EXCEPT !.failure = Failure(Blamed(gov), FALSE, FALSE)]
            /\ Goto("op", [go EXCEPT !.pc = "mount", !.wait = FALSE, !.todo = Remountable(gov), !.held = held])
  <2>1. PICK rec : rec = [go EXCEPT !.pc = "mount", !.wait = FALSE, !.todo = Remountable(gov), !.held = held]
    OBVIOUS
  <2>2. rec.pc = "mount" /\ rec.then = "boot" /\ rec.todo = {} /\ rec.held = kept
    <3>1. held = kept
      BY <1>4, <1>10, <1>11, <1>18
    <3> QED
      BY <1>10, <1>15, <2>1, <3>1 DEF ThreadStates
  <2>3. ActiveGenerated(registry') = {}
    BY <1>4, <1>10, <1>11, <1>13, <1>18
  <2>4. rec.held = {} => gov' = gov
    BY <1>4, <1>10, <1>11, <1>18, <2>2
  <2>5. rec.held = {} => Restorable(gov', rt.recipes) /\ Covered(gov', rt.recipes)
    BY <1>3, <1>5, <2>2, <2>4
  <2>6. Kept(rec, gov', registry', rt')
    BY <1>18, <2>2, <2>3, <2>5 DEF Kept, Remounts, Served
  <2>7. Goto("op", rec) /\ th'["op"] = rec
    BY <1>18, <2>1, RunFacts, Moved
  <2> QED
    BY <1>5, <1>18, <2>2, <2>6, <2>7, GoOn DEF Boot
<1> QED
  BY <1>16, <1>17, <1>18

(* A boot ends. *)
LEMMA BootedKept ==
    ASSUME Inductive, AllKept, Booted
    PROVE  AllKept' /\ up' = "up"
<1>1. /\ Secure(gov, rt.recipes) /\ Served(gov, registry, rt) /\ Remembered(rt) /\ Rest("op")
      /\ gov' = gov /\ registry' = registry /\ rt' = rt
  BY DEF Booted, AllKept, Kept
<1> QED
  BY <1>1, RestKept DEF Booted

(* The steps of a first boot. *)
LEMMA BootStays ==
    ASSUME Inductive, LockInv, AllRun, AllKept, up = "booting",
           th["op"].then = "boot", th["op"].pc \in {"mount", "close", "mounted"},
           MountNext("op") \/ MountsDone("op") \/ Closed("op")
    PROVE  /\ AllKept' /\ up' = "booting"
           /\ th'["op"].then = "boot" /\ th'["op"].pc \in {"mount", "close", "mounted"}
<1>1. AllKept' /\ up' = up
  BY MountNextKept, MountsDoneKept, ClosedKept DEF MountNext, MountsDone, Closed
<1>2. PICK rec0 : rec0 = th["op"]
  OBVIOUS
<1>3. rec0 \in ThreadStates
  BY <1>2, RunFacts
<1>4. CASE MountsDone("op") \/ Closed("op")
  <2>1. PICK rec : /\ Goto("op", rec)
                   /\ \/ rec = [rec0 EXCEPT !.pc = "mounted", !.wait = FALSE]
                      \/ rec = [rec0 EXCEPT !.pc = "mounted", !.wait = FALSE, !.drop = {}]
    BY <1>2, <1>4 DEF MountsDone, Closed
  <2>2. rec.pc = "mounted" /\ rec.then = rec0.then
    BY <1>3, <2>1 DEF ThreadStates
  <2>3. th'["op"] = rec
    BY <2>1, RunFacts, Moved
  <2> QED
    BY <1>1, <1>2, <2>2, <2>3
<1>5. CASE MountNext("op")
  <2>1. PICK c \in rec0.todo :
             \/ c \in rt.generated /\ Goto("op", [rec0 EXCEPT !.todo = @ \ {c}])
             \/ c \notin rt.generated
    BY <1>2, <1>5 DEF MountNext
  <2>2. rec0.pc = "mount"
    BY <1>2, <1>5 DEF MountNext
  <2>3. rec0.todo \subseteq rt.generated
    BY <1>2, <2>2 DEF AllKept, Kept
  <2>4. PICK rec : rec = [rec0 EXCEPT !.todo = @ \ {c}]
    OBVIOUS
  <2>5. rec.pc = "mount" /\ rec.then = rec0.then
    BY <1>3, <2>2, <2>4 DEF ThreadStates
  <2>6. th'["op"] = rec
    BY <2>1, <2>3, <2>4, RunFacts, Moved
  <2> QED
    BY <1>1, <1>2, <2>5, <2>6
<1> QED
  BY <1>4, <1>5

(* Nothing that disturbs is forgotten. *)
LEMMA UndisturbedBefore ==
    ASSUME Inductive, [Next]_vars, Undisturbed(spent')
    PROVE  Undisturbed(spent) /\ WritesLand /\ ~Crash /\ \A c \in Candidates : ~RunnerDies(c)
<1>1. /\ spent.fatals \in Nat /\ spent.crashes \in Nat /\ spent.faults \in Nat
      /\ spent'.fatals = 0 /\ spent'.crashes = 0 /\ spent'.faults = 0
  BY SpentGrows DEF Undisturbed
<1>2. Undisturbed(spent) /\ ~Crash /\ \A c \in Candidates : ~RunnerDies(c)
  BY <1>1, SpentGrows DEF Undisturbed
<1> QED
  BY <1>1, <1>2, FaultsCount DEF WritesLand

(* The steps of the lifecycle call, once the process is up. *)
LEMMA CallKept ==
    ASSUME Inductive, LockInv, AllRun, AllKept, up = "up", WritesLand, OpStep \/ MountStep("op")
    PROVE  AllKept' /\ up' = "up"
<1>1. th["op"].pc \notin {"mounting", "clear", "failed", "revert"} /\ th["op"].then # "boot"
  BY DEF LockInv, CallInv, Calling, AllKept, Kept
<1>2. ~MountStarted("op") /\ ~MountsCleared("op") /\ ~RemoveReverted /\ ~Booted
  BY <1>1 DEF MountStarted, MountsCleared, RemoveReverted, Booted
<1>3. ActivatePrepared \/ ActivateHealthy \/ ActivateUnhealthy \/ ActivateCommitted \/ ActivateUndone
      => AllKept' /\ up' = "up"
  <2>1. ActivatePrepared => AllKept' /\ up' = "up"
    BY ActivatePreparedKept DEF ActivatePrepared
  <2>2. ActivateHealthy => AllKept' /\ up' = "up"
    BY ActivateHealthyKept DEF ActivateHealthy
  <2>3. ActivateUnhealthy => AllKept' /\ up' = "up"
    BY ActivateUnhealthyKept DEF ActivateUnhealthy
  <2>4. ActivateCommitted => AllKept' /\ up' = "up"
    BY ActivateCommittedKept DEF ActivateCommitted
  <2>5. ActivateUndone => AllKept' /\ up' = "up"
    BY ActivateUndoneKept DEF ActivateUndone
  <2> QED
    BY <2>1, <2>2, <2>3, <2>4, <2>5
<1>4. RollbackRestored \/ RollbackMounted \/ RollbackRecovered \/ RollbackClosed => AllKept' /\ up' = "up"
  <2>1. RollbackRestored => AllKept' /\ up' = "up"
    BY RollbackRestoredKept DEF RollbackRestored
  <2>2. RollbackMounted => AllKept' /\ up' = "up"
    BY RollbackMountedKept DEF RollbackMounted
  <2>3. RollbackRecovered => AllKept' /\ up' = "up"
    BY RollbackRecoveredKept DEF RollbackRecovered
  <2>4. RollbackClosed => AllKept' /\ up' = "up"
    BY RollbackClosedKept DEF RollbackClosed
  <2> QED
    BY <2>1, <2>2, <2>3, <2>4
<1>5. SafeModeEntered => AllKept' /\ up' = "up"
  BY SafeModeEnteredKept DEF SafeModeEntered
<1>6. Removed => AllKept' /\ up' = "up"
  BY RemovedKept DEF Removed
<1>7. RestoreDropped("op") => AllKept' /\ up' = "up"
  BY RestoreDroppedKept DEF RestoreDropped
<1>8. RestoreStarted("op") => AllKept' /\ up' = "up"
  BY RestoreStartedKept DEF RestoreStarted
<1>9. MountNext("op") => AllKept' /\ up' = "up"
  BY MountNextKept DEF MountNext
<1>10. MountsDone("op") => AllKept' /\ up' = "up"
  BY MountsDoneKept DEF MountsDone
<1>11. Closed("op") => AllKept' /\ up' = "up"
  BY ClosedKept DEF Closed
<1> QED
  BY <1>2, <1>3, <1>4, <1>5, <1>6, <1>7, <1>8, <1>9, <1>10, <1>11 DEF OpStep, MountStep

(* What a first boot does not do. *)
LEMMA BootSteps ==
    ASSUME th["op"].then = "boot", th["op"].pc \in {"mount", "close", "mounted"}, OpStep \/ MountStep("op")
    PROVE  Booted \/ MountNext("op") \/ MountsDone("op") \/ Closed("op")
<1>1. OpStep => Booted
  BY DEF OpStep, ActivatePrepared, ActivateHealthy, ActivateUnhealthy,
     ActivateCommitted, ActivateUndone, RollbackRestored, RollbackMounted, RollbackRecovered,
     RollbackClosed, SafeModeEntered, Removed, RemoveReverted
<1>2. MountStep("op") => MountNext("op") \/ MountsDone("op") \/ Closed("op")
  BY DEF MountStep, RestoreDropped, RestoreStarted, MountStarted, MountsCleared
<1> QED
  BY <1>1, <1>2

(* Every step keeps the invariant. *)
LEMMA NextKept ==
    ASSUME Inductive, LockInv, RunsInv, KeptInv, [Next]_vars
    PROVE  KeptInv'
<1> SUFFICES ASSUME Undisturbed(spent')
             PROVE  /\ up' = "down" => BeforeBoot(gov, registry, rt)'
                    /\ up' = "booting" => /\ th'["op"].then = "boot"
                                          /\ th'["op"].pc \in {"mount", "close", "mounted"}
                    /\ up' # "down" => AllKept'
  BY DEF KeptInv
<1>1. /\ Undisturbed(spent) /\ ~Crash /\ \A c \in Candidates : ~RunnerDies(c)
      /\ spent.fatals = 0 /\ WritesLand /\ up \in {"down", "booting", "up"}
  BY UndisturbedBefore DEF Undisturbed, Inductive
<1>2. /\ AllRun
      /\ up = "down" => BeforeBoot(gov, registry, rt) /\ \A t \in Threads : th[t].pc = "idle"
      /\ up = "booting" => th["op"].then = "boot" /\ th["op"].pc \in {"mount", "close", "mounted"}
      /\ up # "down" => AllKept
  BY <1>1 DEF KeptInv, RunsInv, Inductive
<1>3. CASE UNCHANGED <<registry, gov, rt, up, th>>
  BY <1>2, <1>3 DEF AllKept
<1>4. ASSUME NEW t \in Threads, Advance(t)
      PROVE  OpStep \/ MountStep("op")
  <2>1. CASE t \in Candidates
    BY <1>2, <1>4, <2>1, OpApart DEF AllRun, Advance, FailureStep, FailureRestored,
       FailureHandled, MountStep,
       RestoreDropped, RestoreStarted, MountNext, MountStarted, MountsDone, MountsCleared, Closed
  <2> QED
    BY <1>4, <2>1, OpApart DEF Advance, Threads
<1>5. CASE OpStep \/ MountStep("op")
  <2>1. CASE up = "up"
    BY <1>1, <1>2, <1>5, <2>1, CallKept
  <2>2. CASE up = "booting"
    <3>1. Booted \/ MountNext("op") \/ MountsDone("op") \/ Closed("op")
      BY <1>2, <1>5, <2>2, BootSteps
    <3> QED
      BY <1>2, <2>2, <3>1, BootedKept, BootStays
  <2>3. up # "down"
    <3>1. th["op"].pc # "idle"
      BY <1>1, <1>2, <1>5, RunFacts DEF OpStep, ActivatePrepared, ActivateHealthy, ActivateUnhealthy,
         ActivateCommitted, ActivateUndone, RollbackRestored, RollbackMounted, RollbackRecovered,
         RollbackClosed, SafeModeEntered, Removed, RemoveReverted, Booted, MountStep, RestoreDropped,
         RestoreStarted, MountNext, MountStarted, MountsDone, MountsCleared, Closed
    <3> QED
      BY <1>2, <3>1, RunFacts
  <2> QED
    BY <1>1, <2>1, <2>2, <2>3
<1>6. CASE Request
  <2>1. Settled /\ up = "up"
    BY <1>6 DEF Request, RequestApproval, RecordApproval, AbandonFailedActivation, ActivateStart,
       Rollback, EnterSafeMode, ExitSafeMode, RemoveStart, LifecycleIdle
  <2> QED
    BY <1>1, <1>2, <1>6, <2>1, RequestKept
<1>7. CASE Boot
  <2>1. up = "down"
    BY <1>7 DEF Boot
  <2> QED
    BY <1>2, <1>7, <2>1, BootKept
<1>8. CASE Environment
  BY <1>1, <1>3, <1>8 DEF Environment, Tamper
<1>9. CASE UNCHANGED vars
  BY <1>3, <1>9 DEF vars
<1> QED
  BY <1>4, <1>5, <1>6, <1>7, <1>8, <1>9 DEF Next

(* The invariant holds at first. *)
LEMMA InitKept ==
    ASSUME Init
    PROVE  KeptInv
BY DEF Init, KeptInv, BeforeBoot

(* LkgMounted: activate, uninstall and the withheld boot put a snapshot in *)
(* lastKnownGood only if it mounts all it calls active, and finishRollback *)
(* a target that did.                                                      *)
THEOREM LkgIsMounted == Spec => []LkgMounted
<1>1. Init => Inductive /\ LockInv /\ RunsInv /\ KeptInv
  BY InitInductive, InitLock, InitRuns, InitKept
<1>2. (Inductive /\ LockInv /\ RunsInv /\ KeptInv) /\ [Next]_vars
      => (Inductive /\ LockInv /\ RunsInv /\ KeptInv)'
  BY NextInductive, NextLock, NextRuns, NextKept
<1>3. Inductive /\ KeptInv => LkgMounted
  <2> SUFFICES ASSUME Inductive, KeptInv, Quiet, spent.fatals + spent.crashes + spent.faults = 0
               PROVE  gov.lkg.owners \cap Candidates \subseteq gov.lkg.mounted
    BY DEF LkgMounted
  <2>1. Undisturbed(spent)
    BY DEF Inductive, Spendings, Undisturbed
  <2>2. up = "up" /\ th["op"].pc = "idle"
    BY RunFacts DEF Quiet
  <2>3. Secure(gov, rt.recipes)
    BY <2>1, <2>2 DEF KeptInv, AllKept, Kept
  <2> QED
    BY <2>3 DEF Secure, Restorable
<1> QED
  BY <1>1, <1>2, <1>3, PTL DEF Spec
-----------------------------------------------------------------------------
(* How an activation is taken back and how a rollback ends.                *)

(* Only finishing the undo, the rollback or the removal ends such a call. *)
LEMMA CallEnds ==
    ASSUME Inductive, LockInv, [Next]_vars, NEW from \in {"undo", "mounted", "revert"}, Ends(from)
    PROVE  /\ from = "undo" => ActivateUndone
           /\ from = "mounted" => RollbackMounted
           /\ from = "revert" => RemoveReverted
<1>1. /\ up = "up" /\ up' = "up" /\ th["op"].pc = from /\ th'["op"].pc = "idle"
      /\ "op" \in Threads /\ th["op"].then # "boot"
  BY OpApart DEF LockInv, CallInv, Calling, Ends, Stay
<1>2. ASSUME NEW c \in Candidates, NEW rec, Goto(c, rec)
      PROVE  FALSE
  BY <1>1, <1>2, OpApart, Moved
<1>3. ASSUME NEW c \in Candidates, FailureStep(c) \/ MountStep(c)
      PROVE  FALSE
  <2>1. \E rec : Goto(c, rec)
    BY <1>3 DEF FailureStep, FailureRestored, FailureHandled, MountStep, RestoreDropped, RestoreStarted,
       MountNext, MountStarted, MountsDone, MountsCleared, Closed, RestoreLoop, Remounting, FailingClosed,
       Restoring, Rest
  <2> QED
    BY <1>2, <2>1
<1>4. ~MountStep("op")
  BY <1>1 DEF MountStep, RestoreDropped, RestoreStarted,
     MountNext, MountStarted, MountsDone, MountsCleared, Closed
<1>5. ASSUME OpStep
      PROVE  ActivateUndone \/ RollbackMounted \/ RemoveReverted
  BY <1>1, <1>5 DEF OpStep, ActivatePrepared, ActivateHealthy, ActivateUnhealthy, ActivateCommitted,
     RollbackRestored, RollbackRecovered, RollbackClosed, SafeModeEntered, Removed, Booted
<1>6. ~LifecycleIdle /\ th' # th
  BY <1>1, IdleCall
<1>7. ~Request
  BY <1>6 DEF Request, RequestApproval, RecordApproval, AbandonFailedActivation, ActivateStart,
     Rollback, EnterSafeMode, ExitSafeMode, RemoveStart
<1>8. ~Environment
  <2>1. ~Crash
    BY <1>1 DEF Crash, Die, Halt
  <2>2. ASSUME NEW c \in Candidates, RunnerDies(c)
        PROVE  FALSE
    <3>1. \E rec : Goto(c, rec)
      BY <2>2 DEF RunnerDies, Restoring
    <3> QED
      BY <1>2, <3>1
  <2>3. ASSUME NEW c \in Candidates, Tamper(c)
        PROVE  FALSE
    BY <1>6, <2>3 DEF Tamper
  <2> QED
    BY <2>1, <2>2, <2>3 DEF Environment
<1>9. ~Boot /\ ~UNCHANGED vars
  BY <1>1, <1>6 DEF Boot, vars
<1>10. ActivateUndone \/ RollbackMounted \/ RemoveReverted
  <2>1. PICK t \in Threads : Advance(t)
    BY <1>7, <1>8, <1>9 DEF Next
  <2>2. t = "op" /\ OpStep
    BY <1>3, <1>4, <2>1 DEF Advance, Threads
  <2> QED
    BY <1>5, <2>2
<1> QED
  BY <1>1, <1>10 DEF ActivateUndone, RollbackMounted, RemoveReverted

(* An undo that succeeds leaves what the snapshot mounts, and it runs.     *)
LEMMA UndoneServes ==
    ASSUME Inductive, AllRun, AllKept, ActivateUndone, gov'.failure.rolledBack
    PROVE  /\ rt'.mounted = gov'.lkg.mounted /\ rt'.mounted \subseteq rt'.live
           /\ ActiveGenerated(registry') \subseteq rt'.mounted
           /\ th["op"].cand \in rt'.live => th["op"].cand \in rt'.mounted
<1>1. PICK rec0 : rec0 = th["op"]
  OBVIOUS
<1>2. /\ rec0.pc = "undo" /\ Calm(rt) /\ gov \in Govs /\ RestoreKept(rec0, gov, rt, "undo")
      /\ rt' = rt /\ registry' = RestoredRegistry("op") /\ rec0.ok \in BOOLEAN
  BY <1>1, RunFacts, PointCalm, SoundTyped DEF ActivateUndone, AllKept, Kept, Inductive, ThreadStates
<1>3. gov'.lkg = rec0.snap /\ gov'.failure = Failure(rec0.cand, rec0.ok, ~rec0.ok)
  BY <1>1, <1>2 DEF ActivateUndone, Govs
<1>4. rec0.ok
  BY <1>2, <1>3 DEF Failure
<1>5. /\ rt.mounted = rec0.snap.mounted /\ rec0.drop = {} /\ rec0.snap = gov.lkg
      /\ rec0.cand \notin rec0.snap.mounted => rec0.cand \notin rt.generated \ rec0.drop
      /\ Restorable(gov, rt.recipes)
  BY <1>2, <1>4 DEF RestoreKept, Under, UndoKept
<1>6. Active(registry') = rec0.snap.owners
  BY <1>1, <1>2, <1>4, RestoredActive
<1>7. ActiveGenerated(registry') \subseteq rec0.snap.mounted
  BY <1>5, <1>6 DEF ActiveGenerated, Restorable
<1> QED
  BY <1>1, <1>2, <1>3, <1>5, <1>7 DEF Calm

(* UndoLive: rollbackStep restores what prepare had swapped away, and what *)
(* it restores is the last known good snapshot, which mounts all it calls  *)
(* active; it stops the candidate but if that snapshot mounts it.          *)
THEOREM UndoServes == Spec => UndoLive
<1>1. Init => Inductive /\ LockInv /\ RunsInv /\ KeptInv
  BY InitInductive, InitLock, InitRuns, InitKept
<1>2. (Inductive /\ LockInv /\ RunsInv /\ KeptInv) /\ [Next]_vars
      => (Inductive /\ LockInv /\ RunsInv /\ KeptInv)'
  BY NextInductive, NextLock, NextRuns, NextKept
<1> DEFINE Serves == /\ Ends("undo") /\ gov'.failure.rolledBack
                     /\ spent.fatals + spent.crashes + spent.faults = 0
                     => /\ rt'.mounted = gov'.lkg.mounted /\ rt'.mounted \subseteq rt'.live
                        /\ ActiveGenerated(registry') \subseteq rt'.mounted
                        /\ th["op"].cand \in rt'.live => th["op"].cand \in rt'.mounted
<1>3. (Inductive /\ LockInv /\ RunsInv /\ KeptInv) /\ [Next]_vars => Serves
  <2> SUFFICES ASSUME Inductive, LockInv, RunsInv, KeptInv, [Next]_vars, Ends("undo"),
                      gov'.failure.rolledBack, spent.fatals + spent.crashes + spent.faults = 0
               PROVE  /\ rt'.mounted = gov'.lkg.mounted /\ rt'.mounted \subseteq rt'.live
                      /\ ActiveGenerated(registry') \subseteq rt'.mounted
                      /\ th["op"].cand \in rt'.live => th["op"].cand \in rt'.mounted
    OBVIOUS
  <2>1. Undisturbed(spent) /\ spent.fatals = 0
    <3>1. spent.fatals \in Nat /\ spent.crashes \in Nat /\ spent.faults \in Nat
      BY DEF Inductive, Spendings
    <3> QED
      BY <3>1 DEF Undisturbed
  <2>2. AllKept /\ AllRun
    BY <2>1 DEF KeptInv, RunsInv, Ends, Stay
  <2>3. ActivateUndone
    BY CallEnds
  <2> QED
    BY <2>2, <2>3, UndoneServes
<1>4. (Inductive /\ LockInv /\ RunsInv /\ KeptInv) /\ [Next]_vars => [Serves]_vars
  BY <1>3
<1> HIDE DEF Serves
<1>5. Spec => [][Serves]_vars
  BY <1>1, <1>2, <1>4, PTL DEF Spec
<1> QED
  BY <1>5 DEF UndoLive, Serves

-----------------------------------------------------------------------------
(* The console: what a post that is served late may act on.  A call that   *)
(* runs for a card was started from the record or the snapshot the card    *)
(* showed; nothing else reaches the point where it takes effect; and the   *)
(* fingerprint of an approval no longer moves, as rows are never forgotten.*)


(* A decision the card it is about has a button for.                       *)
Offered(post) ==
    \/ post.card.kind = "approval" /\ post.verb \in {"approve", "deny"}
    \/ post.card.kind = "activation" /\ post.verb \in {"activate", "abandon"}
    \/ post.card.kind = "plugin" /\ post.verb = "uninstall"
    \/ post.card.kind = "rollback" /\ post.verb = "rollback"
    \/ post.card = NoCard /\ post.verb \in {"recovery-rollback", "exit-safe-mode"}

(* The fingerprint that was recorded for c is the one it has now, and it   *)
(* will stay: the base row of c is registered.                             *)
Fixed(c) ==
    /\ approvals[c].fp = Fingerprint(c)
    /\ Base[c] = None \/ Base[c] \in Known(registry)

(* The activation that runs for a card is of the approval it showed.       *)
Carried ==
    serving # NoCard /\ th["op"].pc \in {"prepare", "health"} =>
        /\ th["op"].cand = serving.cand
        /\ approvals[serving.cand].decision = "approved-for-exact-diff" /\ Fixed(serving.cand)
        /\ approvals[serving.cand].fp = serving.fp /\ approvalId[serving.cand] = serving.id

(* The rollback that runs for a card is to the snapshot it showed.         *)
Offering ==
    Stage(th["op"]) = "rollback" =>
        /\ gov.state = "rollback-pending"
        /\ serving # NoCard => th["op"].snap = serving.target

(* No callback of a dead child is in flight.                               *)
Still == \A c \in Candidates : th[c].pc = "idle"

CardInv ==
    /\ approvalId \in [Candidates -> Nat]
    /\ Still
    /\ \A c \in Candidates : approvals[c].decision = "approval-requested" => Fixed(c)
    /\ th["op"].pc = "idle" => serving = NoCard
    /\ Carried /\ Offering

(* A boot takes up no rollback: the home was not stopped in one, and the   *)
(* process does not end.                                                   *)
FirstBoot ==
    \/ up = "up"
    \/ spent.lost = 0 /\ IF up = "down" THEN gov.state # "rollback-pending" ELSE th["op"].then = "boot"

(* The inductive invariant of the console.                                 *)
ConsoleInv ==
    /\ Inductive /\ LockInv /\ CardInv /\ FirstBoot
    /\ \A post \in posts : Offered(post)

-----------------------------------------------------------------------------

(* The shape of the cards a post is bound to.                              *)
LEMMA BoundCards ==
    ASSUME NEW post, NEW card \in Bound(post)
    PROVE  /\ post.card.kind = "approval" =>
                 \E c \in Candidates :
                    /\ approvals[c].decision = "approval-requested" /\ card.cand = c
                    /\ post.card.cand = c /\ post.card.id = approvalId[c]
                    /\ post.card.fp = approvals[c].fp
           /\ post.card.kind = "activation" =>
                 /\ card.cand \in Candidates /\ post.card.cand = card.cand
                 /\ post.card.id = approvalId[card.cand] /\ post.card.fp = approvals[card.cand].fp
           /\ post.card.kind = "plugin" => card.cand \in Candidates
           /\ post.card.kind = "rollback" => post.card.target = Fallback(gov)
           /\ post.card.kind \in {"approval", "activation", "plugin", "rollback"}
<1>1. CASE card \in BoundApproval(post.card)
  <2>1. PICK c \in Candidates :
          /\ approvals[c].decision = "approval-requested" /\ post.card = card
          /\ card = [kind |-> "approval", id |-> approvalId[c], cand |-> c, fp |-> approvals[c].fp]
    BY <1>1 DEF BoundApproval, ApprovalCards
  <2> QED
    BY <2>1
<1>2. CASE card \in BoundActivation(post.card)
  <2>1. PICK c \in Candidates : card = ActivationCard(c)
    BY <1>2 DEF BoundActivation, ActivationCards
  <2>2. card.cand = c /\ card.id = approvalId[c] /\ card.fp = approvals[c].fp
    BY <2>1 DEF ActivationCard
  <2>3. /\ post.card.kind = "activation" /\ card.id = post.card.id
        /\ card.cand = post.card.cand /\ card.fp = post.card.fp
    BY <1>2 DEF BoundActivation
  <2> QED
    BY <2>2, <2>3
<1>3. CASE card \in BoundPlugin(post.card)
  <2>1. PICK c \in ActiveGenerated(registry) :
          post.card = card /\ card = [kind |-> "plugin", cand |-> c, current |-> gov.current]
    BY <1>3 DEF BoundPlugin, PluginCards
  <2> QED
    BY <2>1 DEF ActiveGenerated
<1>4. CASE card \in BoundRollback(post.card)
  <2>1. /\ post.card = card
        /\ card = [kind |-> "rollback", current |-> gov.current, target |-> Fallback(gov),
                   mounted |-> rt.mounted]
    BY <1>4 DEF BoundRollback, RollbackCards
  <2> QED
    BY <2>1
<1> QED
  BY <1>1, <1>2, <1>3, <1>4 DEF Bound

(* What serving a post does: one call of the authority, about the          *)
(* candidate or the snapshot of the card that was posted.                  *)
DecidesCard(post) ==
    \E c \in Candidates : \E d \in {"approved-for-exact-diff", "rejected"} :
        /\ Decide(c, d) /\ approvals[c].decision = "approval-requested"
        /\ post.card.cand = c /\ post.card.id = approvalId[c] /\ post.card.fp = approvals[c].fp

StartsCard(post) ==
    LET c == post.card.cand IN
    /\ c \in Candidates /\ ActivateStart(c)
    /\ post.card.id = approvalId[c] /\ post.card.fp = approvals[c].fp
    /\ serving' = (IF th'["op"].pc = "idle" THEN NoCard ELSE post.card) /\ UNCHANGED approvalId

OtherCard ==
    \/ (\E c \in Candidates : AbandonFailedActivation(c)) /\ UNCHANGED <<approvalId, serving>>
    \/ (\E c \in Candidates : RemoveStart(c, "uninstall")) /\ UNCHANGED approvalId
    \/ ExitSafeMode /\ serving' = NoCard /\ UNCHANGED approvalId

RollsBack ==
    /\ Rollback /\ UNCHANGED approvalId
    /\ serving' = NoCard \/ (th'["op"].pc # "idle" /\ serving'.target = Fallback(gov))

LEMMA PostServed ==
    ASSUME NEW post, Offered(post), Serve(post)
    PROVE  /\ Settled /\ up = "up" /\ posts' = posts \ {post}
           /\ DecidesCard(post) \/ StartsCard(post) \/ OtherCard \/ RollsBack
<1>1. Settled /\ up = "up" /\ posts' = posts \ {post}
  BY DEF Serve
<1>2. ASSUME NEW card \in Bound(post), Execute(post, card)
      PROVE  DecidesCard(post) \/ StartsCard(post) \/ OtherCard \/ RollsBack
  <2>1. CASE post.verb \in {"approve", "deny"}
    <3>1. post.card.kind = "approval"
      BY <1>2, <2>1, BoundCards DEF Offered, NoCard
    <3>2. PICK c \in Candidates :
             /\ approvals[c].decision = "approval-requested" /\ card.cand = c
             /\ post.card.cand = c /\ post.card.id = approvalId[c]
             /\ post.card.fp = approvals[c].fp
      BY <1>2, <3>1, BoundCards
    <3>3. Decide(c, "approved-for-exact-diff") \/ Decide(c, "rejected")
      BY <1>2, <2>1, <3>2 DEF Execute
    <3> QED
      BY <3>2, <3>3 DEF DecidesCard
  <2>2. CASE post.verb = "activate"
    <3>1. post.card.kind = "activation"
      BY <1>2, <2>2, BoundCards DEF Offered, NoCard
    <3> QED
      BY <1>2, <2>2, <3>1, BoundCards DEF Execute, ActivateCard, Run, StartsCard
  <2>3. CASE post.verb = "abandon"
    <3>1. post.card.kind = "activation"
      BY <1>2, <2>3, BoundCards DEF Offered, NoCard
    <3> QED
      BY <1>2, <2>3, <3>1, BoundCards DEF Execute, AbandonCard, OtherCard
  <2>4. CASE post.verb = "uninstall"
    <3>1. post.card.kind = "plugin"
      BY <1>2, <2>4, BoundCards DEF Offered, NoCard
    <3> QED
      BY <1>2, <2>4, <3>1, BoundCards DEF Execute, UninstallCard, Run, OtherCard
  <2>5. CASE post.verb = "rollback"
    <3>1. post.card.kind = "rollback"
      BY <1>2, <2>5, BoundCards DEF Offered, NoCard
    <3> QED
      BY <1>2, <2>5, <3>1, BoundCards DEF Execute, RollbackCard, Run, RollsBack
  <2> QED
    BY <1>2, <2>1, <2>2, <2>3, <2>4, <2>5 DEF Execute
<1>3. CASE Recover(post.verb)
  <2>1. CASE RecoveryRollback
    BY <1>1, <2>1 DEF RecoveryRollback, Run, RollsBack
  <2>2. CASE LeaveSafeMode
    BY <1>1, <2>2 DEF LeaveSafeMode, Run, OtherCard
  <2> QED
    BY <1>3, <2>1, <2>2 DEF Recover
<1> QED
  BY <1>1, <1>2, <1>3 DEF Serve

(* Every step of the console is a step of the authority, or none.          *)
LEMMA ConsoleSteps ==
    ASSUME \A post \in posts : Offered(post), [ConsoleNext]_<<vars, consoleVars>>
    PROVE  [Next]_vars
<1>1. CASE Click \/ \E post \in posts : Refuse(post)
  BY <1>1 DEF Click, Refuse
<1>2. CASE Elsewhere
  BY <1>2 DEF Elsewhere, Next, Request
<1>3. CASE Onward
  BY <1>3 DEF Onward, Next
<1>4. ASSUME NEW post \in posts, Serve(post)
      PROVE  Next
  <2>1. Settled /\ (DecidesCard(post) \/ StartsCard(post) \/ OtherCard \/ RollsBack)
    BY <1>4, PostServed
  <2>2. CASE DecidesCard(post)
    BY <2>1, <2>2 DEF DecidesCard, Decide, Next, Request
  <2>3. CASE StartsCard(post)
    BY <2>1, <2>3 DEF StartsCard, Next, Request
  <2>4. CASE OtherCard
    BY <2>1, <2>4, RowsAssumption DEF OtherCard, Next, Request
  <2>5. CASE RollsBack
    BY <2>1, <2>5 DEF RollsBack, Next, Request
  <2> QED
    BY <2>1, <2>2, <2>3, <2>4, <2>5
<1>5. CASE UNCHANGED <<vars, consoleVars>>
  BY <1>5
<1> QED
  BY <1>1, <1>2, <1>3, <1>4, <1>5 DEF ConsoleNext

-----------------------------------------------------------------------------

(* Rows are never forgotten.                                               *)
LEMMA RowsStay ==
    ASSUME NEW reg \in Registries, NEW S
    PROVE  /\ Known(reg) \subseteq Known(SetStatus(reg, S, "disabled"))
           /\ Known(reg) \subseteq Known(SetStatus(reg, S, "active"))
           /\ Known(reg) \subseteq Known(ApplyOwners(reg, S))
           /\ Known(reg) \subseteq Known(DisableGenerated(reg))
           /\ SetStatus(reg, S, "disabled") \in Registries
<1>1. Known(reg) \subseteq Known(ApplyOwners(reg, S))
  BY DEF Registries, Statuses, ApplyOwners, Known
<1>2. \A T : Known(reg) \subseteq Known(SetStatus(reg, T, "disabled"))
  BY DEF Registries, Statuses, SetStatus, Known
<1>3. Known(reg) \subseteq Known(SetStatus(reg, S, "active"))
  BY DEF Registries, Statuses, SetStatus, Known
<1>4. SetStatus(reg, S, "disabled") \in Registries
  BY DEF Registries, Statuses, SetStatus
<1> QED
  BY <1>1, <1>2, <1>3, <1>4 DEF DisableGenerated

LEMMA RemountedRows ==
    ASSUME NEW t, NEW here, NEW then, NEW reg \in Registries, NEW g, NEW r, NEW d,
           Remounting(t, here, then, reg, g, r, d)
    PROVE  Known(reg) \subseteq Known(registry')
<1>1. PICK S : \/ registry' = reg
               \/ registry' = SetStatus(reg, S, "disabled")
               \/ registry' = DisableGenerated(SetStatus(reg, S, "disabled"))
  BY DEF Remounting, FailingClosed
<1>2. Known(reg) \subseteq Known(SetStatus(reg, S, "disabled"))
  BY RowsStay
<1>3. Known(SetStatus(reg, S, "disabled")) \subseteq Known(DisableGenerated(SetStatus(reg, S, "disabled")))
  <2>1. PICK other \in Registries : other = SetStatus(reg, S, "disabled")
    BY RowsStay
  <2> QED
    BY <2>1, RowsStay
<1> QED
  BY <1>1, <1>2, <1>3

(* A step that starts no activation and no rollback: no call is carried to *)
(* where it acts on a card that was not already on its way there.          *)
Passes ==
    /\ UNCHANGED approvals
    /\ Known(registry) \subseteq Known(registry')
    /\ \A c \in Candidates : th'[c].pc = "idle"
    /\ th'["op"].pc \in {"prepare", "health"} =>
          th["op"].pc = "prepare" /\ th'["op"].cand = th["op"].cand
    /\ Stage(th'["op"]) = "rollback" =>
          /\ Stage(th["op"]) = "rollback" /\ th'["op"].snap = th["op"].snap
          /\ UNCHANGED gov

LEMMA PassesBy ==
    ASSUME Still, UNCHANGED approvals, Known(registry) \subseteq Known(registry'),
           \A u \in Threads : u # "op" => th'[u] = th[u],
           th'["op"].pc \notin {"prepare", "health"}, Stage(th'["op"]) # "rollback"
    PROVE  Passes
BY OpApart DEF Passes, Still

LEMMA RestPasses ==
    ASSUME Inductive, Still, UNCHANGED approvals, Known(registry) \subseteq Known(registry'),
           Rest("op")
    PROVE  Passes
<1>1. Resting.pc = "idle" /\ Stage(Resting) = "idle"
  BY DEF Resting, Stage
<1> HIDE DEF Resting
<1>2. th'["op"] = Resting /\ \A u \in Threads : u # "op" => th'[u] = th[u]
  BY Moved, OpApart DEF Rest
<1> QED
  BY <1>1, <1>2, PassesBy

LEMMA RestoringPasses ==
    ASSUME Inductive, Still, UNCHANGED approvals, Known(registry) \subseteq Known(registry'),
           NEW ret \in Returns \ {"rollback"}, NEW snap, NEW reg, NEW r,
           Restoring("op", th["op"], ret, snap, reg, r)
    PROVE  Passes
<1>1. th["op"] \in SoundThreads(Known(registry))
  BY ThreadFacts, OpApart
<1>2. /\ th'["op"].pc = "restore" /\ th'["op"].ret = ret
      /\ \A u \in Threads : u # "op" => th'[u] = th[u]
  BY <1>1, RestoringMoves, OpApart
<1> QED
  BY <1>2, PassesBy DEF Stage, Returns

LEMMA RemountingPasses ==
    ASSUME Inductive, Still, UNCHANGED approvals,
           NEW here \in SoundThreads(Known(registry)), NEW then,
           NEW reg \in Registries, NEW g \in SoundGovs(Known(registry)), NEW r, NEW d,
           Known(registry) \subseteq Known(reg),
           Remounting("op", here, then, reg, g, r, d)
    PROVE  Passes
<1>1. /\ th'["op"].pc \in {"mounted", "close", "mount"}
      /\ \A u \in Threads : u # "op" => th'[u] = th[u]
  BY RemountingMoves, OpApart
<1>2. Known(registry) \subseteq Known(registry')
  BY RemountedRows
<1> QED
  BY <1>1, <1>2, PassesBy DEF Stage

LEMMA FailingClosedPasses ==
    ASSUME Inductive, Still, UNCHANGED approvals, NEW pc \in {"shut", "close"},
           NEW reg \in Registries, Known(registry) \subseteq Known(reg), NEW r,
           FailingClosed("op", th["op"], pc, reg, gov, r)
    PROVE  Passes
<1>1. th["op"] \in SoundThreads(Known(registry)) /\ gov \in SoundGovs(Known(registry))
  BY ThreadFacts, OpApart DEF Inductive
<1>2. /\ th'["op"].pc = pc /\ \A u \in Threads : u # "op" => th'[u] = th[u]
  BY <1>1, FailingClosedMoves, OpApart
<1>3. Known(reg) \subseteq Known(registry')
  BY RowsStay DEF FailingClosed
<1> QED
  BY <1>2, <1>3, PassesBy DEF Stage

LEMMA ActivatePreparedPasses ==
    ASSUME Inductive, Still, ActivatePrepared PROVE Passes
<1>1. th["op"] \in SoundThreads(Known(registry)) /\ th["op"].pc = "prepare"
  BY ThreadFacts, OpApart DEF ActivatePrepared
<1>2. CASE Goto("op", [th["op"] EXCEPT !.pc = "health", !.wait = TRUE, !.start = None])
  <2>1. PICK rec : rec = [th["op"] EXCEPT !.pc = "health", !.wait = TRUE, !.start = None]
    OBVIOUS
  <2>2. rec.pc = "health" /\ rec.cand = th["op"].cand
    BY <1>1, <2>1 DEF SoundThreads
  <2>3. th'["op"] = rec /\ \A u \in Threads : u # "op" => th'[u] = th[u]
    BY <1>2, <2>1, Moved, OpApart
  <2> QED
    BY <1>1, <2>2, <2>3, OpApart DEF ActivatePrepared, Passes, Still, Stage
<1>3. ASSUME NEW snap, NEW r, Restoring("op", th["op"], "undo", snap, registry, r) PROVE Passes
  BY <1>3, RestoringPasses DEF ActivatePrepared, Returns
<1> QED
  BY <1>2, <1>3 DEF ActivatePrepared

LEMMA ActivateHealthyPasses ==
    ASSUME Inductive, Still, ActivateHealthy PROVE Passes
<1>1. /\ th["op"] \in SoundThreads(Known(registry)) /\ registry \in Registries
      /\ UNCHANGED approvals
  BY ThreadFacts, OpApart DEF ActivateHealthy, Inductive, SoundRegistries
<1>2. ASSUME NEW wait, Goto("op", [th["op"] EXCEPT !.pc = "commit", !.wait = wait]),
             registry' = CommitRow(registry, th["op"].cand)
      PROVE  Passes
  <2>1. PICK rec : rec = [th["op"] EXCEPT !.pc = "commit", !.wait = wait]
    OBVIOUS
  <2>2. rec.pc = "commit"
    BY <1>1, <2>1 DEF SoundThreads
  <2>3. th'["op"] = rec /\ \A u \in Threads : u # "op" => th'[u] = th[u]
    BY <1>2, <2>1, Moved, OpApart
  <2>4. Known(registry) \subseteq Known(registry')
    <3>1. PICK out : out = Outgoing(registry, th["op"].cand)
      OBVIOUS
    <3>2. PICK mid \in Registries : mid = SetStatus(registry, out, "disabled")
      BY <1>1, RowsStay
    <3>3. registry' = SetStatus(mid, {th["op"].cand}, "active")
      BY <1>2, <3>1, <3>2 DEF CommitRow
    <3> QED
      BY <1>1, <3>2, <3>3, RowsStay
  <2> QED
    BY <1>1, <2>2, <2>3, <2>4, PassesBy DEF Stage
<1>3. ASSUME NEW S, NEW snap, registry' = SetStatus(registry, S, "disabled"),
             Restoring("op", th["op"], "undo", snap, registry', rt)
      PROVE  Passes
  <2>1. Known(registry) \subseteq Known(registry')
    BY <1>1, <1>3, RowsStay
  <2>2. PICK reg : reg = registry'
    OBVIOUS
  <2>3. Restoring("op", th["op"], "undo", snap, reg, rt)
    BY <1>3, <2>2
  <2> QED
    BY <1>1, <2>1, <2>3, RestoringPasses DEF Returns
<1> QED
  BY <1>2, <1>3 DEF ActivateHealthy

LEMMA ActivationPasses ==
    ASSUME Inductive, Still, ActivateUnhealthy \/ ActivateCommitted \/ ActivateUndone
    PROVE  Passes
<1>1. UNCHANGED approvals /\ registry \in Registries
  BY DEF ActivateUnhealthy, ActivateCommitted, ActivateUndone, Inductive, SoundRegistries
<1>2. CASE ActivateUnhealthy
  BY <1>1, <1>2, RestoringPasses DEF ActivateUnhealthy, Returns
<1>3. CASE ActivateCommitted
  BY <1>1, <1>3, RestoringPasses, RestPasses DEF ActivateCommitted, Release, Returns
<1>4. CASE ActivateUndone
  <2>1. Rest("op") /\ registry' = RestoredRegistry("op")
    BY <1>4 DEF ActivateUndone, Release, FlushLost
  <2> QED
    BY <1>1, <2>1, RestPasses, RestoredRegistrySound, OpApart
<1> QED
  BY <1>2, <1>3, <1>4

LEMMA RollbackRestoredPasses ==
    ASSUME Inductive, Still, RollbackRestored PROVE Passes
<1> DEFINE back == [gov EXCEPT !.lkg = th["op"].snap, !.current = th["op"].snap,
                               !.state = "rolled-back", !.pending = None]
<1>1. /\ th["op"] \in SoundThreads(Known(registry)) /\ gov \in SoundGovs(Known(registry))
      /\ th["op"].snap \in SoundSnapshots(Known(registry)) /\ UNCHANGED approvals
      /\ RestoredRegistry("op") \in Registries
      /\ Known(RestoredRegistry("op")) = Known(registry)
  BY ThreadFacts, RestoredRegistrySound, OpApart DEF RollbackRestored, Inductive, SoundRegistries
<1>2. CASE Remounting("op", th["op"], "rollback", RestoredRegistry("op"), back, rt, disk)
  <2>1. back \in SoundGovs(Known(registry))
    BY <1>1 DEF SoundGovs, ActivationStates
  <2> HIDE DEF back
  <2> QED
    BY <1>1, <1>2, <2>1, RemountingPasses
<1>3. CASE Recovering(th["op"], gov, RestoredRegistry("op"), rt)
  BY <1>1, <1>3, RestoringPasses DEF Recovering, Returns
<1> QED
  BY <1>2, <1>3 DEF RollbackRestored

LEMMA RollbackMountedPasses ==
    ASSUME Inductive, Still, RollbackMounted PROVE Passes
<1> DEFINE done == [gov EXCEPT !.current = Capture(registry, rt),
                               !.integrity = Restored(registry, th["op"].snap)]
<1>1. /\ Resting \in SoundThreads(Known(registry)) /\ gov \in SoundGovs(Known(registry))
      /\ registry \in Registries /\ UNCHANGED approvals
  BY RestingSound DEF RollbackMounted, Inductive, SoundRegistries
<1>2. ASSUME NEW d, Remounting("op", Resting, "boot", registry, done, rt, d) PROVE Passes
  <2>1. done \in SoundGovs(Known(registry))
    <3>1. /\ Capture(registry, rt) \in SoundSnapshots(Known(registry))
          /\ Restored(registry, th["op"].snap) \in BOOLEAN
      BY CaptureSound DEF Inductive, Restored
    <3> QED
      BY <1>1, <3>1 DEF SoundGovs
  <2> HIDE DEF done
  <2> QED
    BY <1>1, <1>2, <2>1, RemountingPasses
<1>3. CASE UNCHANGED registry /\ Release
  BY <1>1, <1>3, RestPasses DEF Release
<1>4. CASE Recovering(th["op"], done, registry, rt)
  BY <1>1, <1>4, RestoringPasses DEF Recovering, Returns
<1> QED
  BY <1>2, <1>3, <1>4 DEF RollbackMounted

LEMMA RollbackRecoveredPasses ==
    ASSUME Inductive, Still, up = "up", RollbackRecovered PROVE Passes
<1>1. /\ UNCHANGED approvals /\ RestoredRegistry("op") \in Registries
      /\ Known(RestoredRegistry("op")) = Known(registry)
  BY RestoredRegistrySound, OpApart DEF RollbackRecovered, SoundRegistries
<1>2. CASE registry' = RestoredRegistry("op") /\ Rest("op")
  BY <1>1, <1>2, RestPasses
<1>3. CASE FailingClosed("op", th["op"], "shut", RestoredRegistry("op"), gov, rt)
  BY <1>1, <1>3, FailingClosedPasses
<1> QED
  BY <1>2, <1>3 DEF RollbackRecovered, FlushLost

LEMMA RollbackClosedPasses ==
    ASSUME Inductive, Still, RollbackClosed PROVE Passes
<1> DEFINE closed == [gov EXCEPT !.failure = Failure(Blamed(gov), FALSE, TRUE)]
<1>1. /\ Resting \in SoundThreads(Known(registry)) /\ gov \in SoundGovs(Known(registry))
      /\ registry \in Registries /\ UNCHANGED approvals
  BY RestingSound DEF RollbackClosed, Inductive, SoundRegistries
<1>2. ASSUME NEW r, NEW d, Remounting("op", Resting, "boot", registry, closed, r, d) PROVE Passes
  <2>1. closed \in SoundGovs(Known(registry))
    BY <1>1, FailureTyped DEF SoundGovs
  <2> HIDE DEF closed
  <2> QED
    BY <1>1, <1>2, <2>1, RemountingPasses
<1>3. CASE UNCHANGED registry /\ Rest("op")
  BY <1>1, <1>3, RestPasses
<1> QED
  BY <1>2, <1>3 DEF RollbackClosed

LEMMA RemovalPasses ==
    ASSUME Inductive, Still, SafeModeEntered \/ Removed \/ RemoveReverted \/ Booted
    PROVE  Passes
<1>1. UNCHANGED approvals /\ registry \in Registries
  BY DEF SafeModeEntered, Removed, RemoveReverted, Booted, Inductive, SoundRegistries
<1>2. CASE SafeModeEntered \/ RemoveReverted \/ Booted
  BY <1>1, <1>2, RestPasses DEF SafeModeEntered, RemoveReverted, Booted, Release, FlushLost
<1>3. CASE Removed
  <2>1. PICK reg \in Registries : reg = SetStatus(registry, th["op"].todo, "disabled")
    BY <1>1, RowsStay
  <2>2. Known(registry) \subseteq Known(reg)
    BY <1>1, <2>1, RowsStay
  <2>3. registry' \in {reg, SetStatus(reg, th["op"].todo, "active")}
    BY <1>3, <2>1 DEF Removed
  <2>4. Known(registry) \subseteq Known(registry')
    BY <2>2, <2>3, RowsStay
  <2>5. CASE Release
    BY <1>1, <2>4, <2>5, RestPasses DEF Release
  <2>6. ASSUME NEW snap, NEW r, Restoring("op", th["op"], "revert", snap, registry', r)
        PROVE  Passes
    <3>1. PICK now : now = registry'
      OBVIOUS
    <3>2. Restoring("op", th["op"], "revert", snap, now, r)
      BY <2>6, <3>1
    <3> QED
      BY <1>1, <2>4, <3>2, RestoringPasses DEF Returns
  <2> QED
    BY <1>3, <2>5, <2>6 DEF Removed
<1> QED
  BY <1>2, <1>3

(* The loop of a restore keeps its snapshot and where it returns to.       *)
LEMMA RestoreLoopPasses ==
    ASSUME Inductive, Still, th["op"].pc \in {"restore", "restart"}, NEW r, RestoreLoop("op", r),
           UNCHANGED <<registry, approvals, gov>>
    PROVE  Passes
<1> DEFINE done == RestoreEnded(th["op"], TRUE)
<1>1. th["op"] \in SoundThreads(Known(registry)) /\ th["op"].ret \in Returns
  BY ThreadFacts, OpApart DEF Placed
<1>2. PICK rec :
         /\ Goto("op", rec) /\ rec.snap = th["op"].snap
         /\ (rec.pc = th["op"].ret) \/ (rec.pc = "restart" /\ rec.ret = th["op"].ret)
  <2>1. CASE Goto("op", done)
    <3>1. done.snap = th["op"].snap /\ done.pc = th["op"].ret
      BY <1>1 DEF RestoreEnded, SoundThreads
    <3> QED
      BY <2>1, <3>1
  <2>2. ASSUME NEW c, Goto("op", [th["op"] EXCEPT !.pc = "restart", !.wait = TRUE, !.drop = {},
                                                  !.start = c, !.todo = @ \ {c}])
        PROVE  \E rec : /\ Goto("op", rec) /\ rec.snap = th["op"].snap
                        /\ (rec.pc = th["op"].ret) \/ (rec.pc = "restart" /\ rec.ret = th["op"].ret)
    <3>1. PICK rec : rec = [th["op"] EXCEPT !.pc = "restart", !.wait = TRUE, !.drop = {},
                                            !.start = c, !.todo = @ \ {c}]
      OBVIOUS
    <3>2. rec.snap = th["op"].snap /\ rec.pc = "restart" /\ rec.ret = th["op"].ret
      BY <1>1, <3>1 DEF SoundThreads
    <3> QED
      BY <2>2, <3>1, <3>2
  <2> QED
    BY <2>1, <2>2 DEF RestoreLoop
<1>3. th'["op"] = rec /\ \A u \in Threads : u # "op" => th'[u] = th[u]
  BY <1>2, Moved, OpApart
<1> QED
  BY <1>1, <1>2, <1>3, OpApart DEF Passes, Still, Stage, Returns

LEMMA RestorePasses ==
    ASSUME Inductive, Still, RestoreDropped("op") \/ RestoreStarted("op")
    PROVE  Passes
<1>1. /\ th["op"].pc \in {"restore", "restart"} /\ UNCHANGED <<registry, approvals, gov>>
      /\ th["op"] \in SoundThreads(Known(registry)) /\ th["op"].ret \in Returns
  BY ThreadFacts, OpApart DEF RestoreDropped, RestoreStarted, Placed
<1>2. ASSUME NEW r, RestoreLoop("op", r) PROVE Passes
  BY <1>1, <1>2, RestoreLoopPasses
<1>3. CASE Goto("op", RestoreEnded(th["op"], FALSE))
  <2>1. PICK rec : rec = RestoreEnded(th["op"], FALSE)
    OBVIOUS
  <2>2. rec.snap = th["op"].snap /\ rec.pc = th["op"].ret
    BY <1>1, <2>1 DEF RestoreEnded, SoundThreads
  <2>3. th'["op"] = rec /\ \A u \in Threads : u # "op" => th'[u] = th[u]
    BY <1>3, <2>1, Moved, OpApart
  <2> QED
    BY <1>1, <2>2, <2>3, OpApart DEF Passes, Still, Stage, Returns
<1> QED
  BY <1>2, <1>3 DEF RestoreDropped, RestoreStarted

LEMMA MountPasses ==
    ASSUME Inductive, Still, \/ MountNext("op") \/ MountStarted("op") \/ MountsDone("op")
                             \/ MountsCleared("op") \/ Closed("op")
    PROVE  Passes
<1>1. UNCHANGED approvals /\ th["op"] \in SoundThreads(Known(registry)) /\ registry \in Registries
  BY ThreadFacts, OpApart
  DEF MountNext, MountStarted, MountsDone, MountsCleared, Closed, Inductive, SoundRegistries
<1>2. ASSUME NEW rec, Goto("op", rec), rec.pc \in {"mount", "mounting", "mounted"}, UNCHANGED registry
      PROVE  Passes
  <2>1. th'["op"] = rec /\ \A u \in Threads : u # "op" => th'[u] = th[u]
    BY <1>2, Moved, OpApart
  <2> QED
    BY <1>1, <1>2, <2>1, PassesBy DEF Stage
<1>3. CASE MountNext("op")
  <2>1. ASSUME NEW c PROVE [th["op"] EXCEPT !.todo = @ \ {c}].pc = th["op"].pc
    BY <1>1 DEF SoundThreads
  <2>2. ASSUME NEW c PROVE [th["op"] EXCEPT !.pc = "mounting", !.wait = TRUE, !.todo = @ \ {c},
                                            !.start = c].pc = "mounting"
    BY <1>1 DEF SoundThreads
  <2> QED
    BY <1>2, <1>3, <2>1, <2>2 DEF MountNext
<1>4. CASE MountStarted("op")
  <2>1. [th["op"] EXCEPT !.pc = "mount", !.wait = FALSE, !.start = None].pc = "mount"
    BY <1>1 DEF SoundThreads
  <2>2. ASSUME NEW snap, NEW r, Restoring("op", th["op"], "clear", snap, registry, r)
        PROVE  Passes
    BY <1>1, <1>4, <2>2, RestoringPasses DEF MountStarted, Returns
  <2> QED
    BY <1>2, <1>4, <2>1, <2>2 DEF MountStarted
<1>5. CASE MountsDone("op")
  <2>1. [th["op"] EXCEPT !.pc = "mounted", !.wait = FALSE].pc = "mounted"
    BY <1>1 DEF SoundThreads
  <2> QED
    BY <1>2, <1>5, <2>1 DEF MountsDone
<1>6. CASE MountsCleared("op")
  BY <1>1, <1>6, FailingClosedPasses DEF MountsCleared
<1>7. CASE Closed("op")
  <2>1. [th["op"] EXCEPT !.pc = "mounted", !.wait = FALSE, !.drop = {}].pc = "mounted"
    BY <1>1 DEF SoundThreads
  <2> QED
    BY <1>2, <1>7, <2>1 DEF Closed
<1> QED
  BY <1>3, <1>4, <1>5, <1>6, <1>7

(* The only step of a boot that is not one of the remount is its last.     *)
LEMMA BootMounts ==
    ASSUME ConsoleInv, OpStep
    PROVE  up = "up" \/ Booted
<1> SUFFICES ASSUME up # "up"
             PROVE  Booted
  OBVIOUS
<1>1. spent.lost = 0 /\ (up = "down" => th["op"].pc = "idle")
  BY OpApart DEF ConsoleInv, FirstBoot, Inductive
<1>2. th["op"].pc # "idle"
  BY DEF OpStep, ActivatePrepared, ActivateHealthy, ActivateUnhealthy, ActivateCommitted, ActivateUndone,
     RollbackRestored, RollbackMounted, RollbackRecovered, RollbackClosed, SafeModeEntered, Removed,
     RemoveReverted, Booted
<1>3. th["op"].then = "boot" /\ LockHeld
  BY <1>1, <1>2 DEF ConsoleInv, FirstBoot, LockInv
<1>4. Stage(th["op"]) \in MountPoints
  BY <1>3, OpFacts DEF ConsoleInv
<1> QED
  BY <1>3, <1>4 DEF MountPoints, Stage, OpStep, ActivatePrepared, ActivateHealthy, ActivateUnhealthy,
     ActivateCommitted, ActivateUndone, RollbackRestored, RollbackMounted, RollbackRecovered,
     RollbackClosed, SafeModeEntered, Removed, RemoveReverted

(* Every step of a call that is in flight.                                 *)
LEMMA AdvancePasses ==
    ASSUME ConsoleInv, NEW t \in Threads, Advance(t)
    PROVE  t = "op" /\ Passes
<1>0. Inductive /\ Still
  BY DEF ConsoleInv, CardInv
<1>1. t = "op"
  <2> SUFFICES ASSUME t \in Candidates PROVE FALSE
    BY DEF Threads
  <2>1. th[t].pc = "idle" /\ t # "op"
    BY <1>0, OpApart DEF Still
  <2> QED
    BY <2>1 DEF Advance, FailureStep, FailureRestored, FailureHandled, MountStep, RestoreDropped,
       RestoreStarted, MountNext, MountStarted, MountsDone, MountsCleared, Closed
<1>2. OpStep \/ MountStep("op")
  BY <1>1, OpApart DEF Advance
<1>3. RollbackRecovered => up = "up"
  BY BootMounts DEF OpStep, RollbackRecovered, Booted
<1> QED
  BY <1>0, <1>1, <1>2, <1>3, ActivatePreparedPasses, ActivateHealthyPasses, ActivationPasses,
     RollbackRestoredPasses, RollbackMountedPasses, RollbackRecoveredPasses, RollbackClosedPasses,
     RemovalPasses, RestorePasses, MountPasses DEF OpStep, MountStep

(* A boot takes up an interrupted rollback, and no activation.             *)
LEMMA BootBegins ==
    ASSUME Inductive, Still, Boot
    PROVE  /\ UNCHANGED approvals /\ Known(registry) \subseteq Known(registry')
           /\ \A c \in Candidates : th'[c].pc = "idle"
           /\ th'["op"].pc \notin {"prepare", "health"}
           /\ Stage(th'["op"]) = "rollback" => gov'.state = "rollback-pending"
           /\ th["op"].pc = "idle"
<1>1. /\ up = "down" /\ UNCHANGED approvals /\ gov \in SoundGovs(Known(registry))
      /\ \A t \in Threads : th[t].pc = "idle"
      /\ registry \in Registries /\ Resting \in SoundThreads(Known(registry))
  BY RestingSound DEF Boot, Inductive, SoundRegistries
<1>2. CASE /\ UNCHANGED <<registry, gov, disk>> /\ gov.state = "rollback-pending"
           /\ StartRollback(gov, [gov EXCEPT !.state = "active"], rt)
  <2>1. PICK prior : prior = [gov EXCEPT !.state = "active"]
    OBVIOUS
  <2>2. prior \in SoundGovs(Known(registry))
    BY <1>1, <2>1 DEF SoundGovs, ActivationStates
  <2>3. th'["op"].pc = "restore" /\ th'["op"].ret = "rollback"
    BY <1>1, <1>2, <2>1, <2>2, StartRollbackMoves
  <2>4. \A u \in Threads : u # "op" => th'[u] = th[u]
    BY <1>2, Moved, OpApart DEF StartRollback, Restoring
  <2> QED
    BY <1>1, <1>2, <2>3, <2>4, OpApart DEF Still
<1>3. ASSUME NEW g \in SoundGovs(Known(registry)), NEW d,
             Remounting("op", Resting, "boot", registry, g, rt, d)
      PROVE  Passes
  BY <1>1, <1>3, RemountingPasses
<1>4. CASE gov.state = "rollback-pending"
  <2>1. ~(gov.state \in {"activation-pending", "activating"})
    BY <1>4
  <2> QED
    BY <1>2, <1>4, <2>1 DEF Boot
<1>5. CASE gov.state # "rollback-pending"
  <2>1. PICK g : g = IF gov.state \in {"activation-pending", "activating"}
                     THEN [gov EXCEPT !.state = "activation-failed", !.pending = None,
                                      !.failure = Failure(gov.pending, TRUE, FALSE)]
                     ELSE gov
    OBVIOUS
  <2>2. g \in SoundGovs(Known(registry)) /\ g.state # "rollback-pending"
    BY <1>1, <1>5, <2>1 DEF SoundGovs, ActivationStates, Failure, Failures
  <2>3. Remounting("op", Resting, "boot", registry, g, rt, [disk EXCEPT !.gov = g, !.store.gov = g])
    BY <2>1, <2>2 DEF Boot
  <2>4. Passes
    BY <1>3, <2>2, <2>3
  <2> QED
    BY <1>1, <2>4, OpApart DEF Passes, Stage
<1> QED
  BY <1>4, <1>5

-----------------------------------------------------------------------------

(* A fingerprint whose base row is registered does not change any more.    *)
LEMMA FixedStays ==
    ASSUME Inductive, Inductive', NEW c \in Candidates, Fixed(c), approvals'[c] = approvals[c],
           Known(registry) \subseteq Known(registry')
    PROVE  Fixed(c)'
<1>1. /\ registry \in Registries /\ registry' \in Registries
      /\ Base[c] \in Rows \cup {None}
  BY GovernanceAssumption DEF Inductive, SoundRegistries
<1> QED
  BY <1>1 DEF Fixed, Fingerprint, Known, Registries

(* A fingerprint is recorded, or acted on, when the base row is there.     *)
LEMMA BaseRegistered ==
    ASSUME Inductive, NEW c \in Candidates, MayRequest(c)
    PROVE  Base[c] = None \/ Base[c] \in Known(registry)
<1>1. registry \in Registries /\ Base[c] \in Rows \cup {None}
  BY GovernanceAssumption DEF Inductive, SoundRegistries
<1>2. CASE Base[c] # None
  <2>1. \/ Base[c] \in Active(registry)
        \/ Base[c] \in Candidates /\ registry[Base[c]] = "disabled"
    BY <1>2 DEF MayRequest, BaseHolds
  <2> QED
    BY <1>1, <1>2, <2>1 DEF Active, Known
<1> QED
  BY <1>2

(* A step that carries the calls in flight on keeps what was shown.        *)
LEMMA PassedCard ==
    ASSUME ConsoleInv, Inductive', Passes, UNCHANGED approvalId,
           serving' = IF th'["op"].pc = "idle" THEN NoCard ELSE serving
    PROVE  CardInv'
<1>1. \A c \in Candidates : Fixed(c) => Fixed(c)'
  BY FixedStays DEF Passes, ConsoleInv
<1>2. /\ approvalId' \in [Candidates -> Nat] /\ Still'
      /\ \A c \in Candidates : approvals'[c].decision = "approval-requested" => Fixed(c)'
      /\ th'["op"].pc = "idle" => serving' = NoCard
  BY <1>1 DEF Passes, Still, ConsoleInv, CardInv
<1>3. Carried'
  <2> SUFFICES ASSUME serving' # NoCard, th'["op"].pc \in {"prepare", "health"}
               PROVE  /\ th'["op"].cand = serving'.cand
                      /\ approvals'[serving'.cand].decision = "approved-for-exact-diff"
                      /\ Fixed(serving.cand)' /\ serving' = serving
                      /\ approvals'[serving'.cand].fp = serving'.fp
                      /\ approvalId'[serving'.cand] = serving'.id
    BY DEF Carried, Fixed, Fingerprint
  <2>1. /\ serving' = serving /\ serving # NoCard /\ th["op"].pc = "prepare"
        /\ th'["op"].cand = th["op"].cand /\ approvals' = approvals
    BY DEF Passes
  <2>2. /\ th["op"].cand = serving.cand
        /\ approvals[serving.cand].decision = "approved-for-exact-diff" /\ Fixed(serving.cand)
        /\ approvals[serving.cand].fp = serving.fp /\ approvalId[serving.cand] = serving.id
    BY <2>1 DEF ConsoleInv, CardInv, Carried
  <2>3. PICK c \in Candidates : c = serving.cand
    BY <2>1, <2>2, ThreadFacts, OpApart DEF Placed, ConsoleInv, Inductive
  <2>4. Fixed(c)'
    BY <1>1, <2>2, <2>3
  <2>5. Fixed(serving.cand)'
    BY <2>1, <2>3, <2>4 DEF Fixed, Fingerprint
  <2> QED
    BY <2>1, <2>2, <2>5
<1>4. Offering'
  BY DEF Passes, Offering, ConsoleInv, CardInv
<1> QED
  BY <1>2, <1>3, <1>4 DEF CardInv

(* An approval that is asked for or decided is not the one that a running  *)
(* activation acts on.                                                     *)
LEMMA ApprovedCard ==
    ASSUME ConsoleInv, Inductive', NEW c \in Candidates, NEW decision, NEW id,
           approvals' = [approvals EXCEPT ![c] = [decision |-> decision, fp |-> Fingerprint(c)]],
           approvalId' = [approvalId EXCEPT ![c] = id], id \in Nat,
           decision = "approval-requested" =>
               ~Approved(c) /\ (Base[c] = None \/ Base[c] \in Known(registry)),
           decision # "approval-requested" => approvals[c].decision = "approval-requested",
           UNCHANGED <<registry, gov, th, serving>>
    PROVE  CardInv'
<1>1. /\ approvals \in [Candidates -> [decision : Decisions, fp : {"whole", "delta"}]]
      /\ approvalId \in [Candidates -> Nat] /\ Still
      /\ th["op"].pc = "idle" => serving = NoCard
  BY DEF ConsoleInv, CardInv, Inductive, SoundApprovals, Approvals
<1>2. /\ approvals'[c].decision = decision /\ approvals'[c].fp = Fingerprint(c)
      /\ \A d \in Candidates \ {c} : approvals'[d] = approvals[d] /\ approvalId'[d] = approvalId[d]
      /\ approvalId' \in [Candidates -> Nat]
  BY <1>1
<1>3. \A d \in Candidates \ {c} : Fixed(d) => Fixed(d)'
  BY <1>2, FixedStays DEF ConsoleInv
<1>4. ASSUME NEW d \in Candidates, approvals'[d].decision = "approval-requested"
      PROVE  Fixed(d)'
  <2>1. CASE d = c
    BY <1>2, <1>4, <2>1 DEF Fixed, Fingerprint
  <2>2. CASE d # c
    BY <1>2, <1>3, <1>4, <2>2 DEF ConsoleInv, CardInv
  <2> QED
    BY <2>1, <2>2
<1>5. Carried'
  <2> SUFFICES ASSUME serving # NoCard, th["op"].pc \in {"prepare", "health"}
               PROVE  /\ th["op"].cand = serving.cand
                      /\ approvals'[serving.cand].decision = "approved-for-exact-diff"
                      /\ Fixed(serving.cand)'
                      /\ approvals'[serving.cand].fp = serving.fp
                      /\ approvalId'[serving.cand] = serving.id
    BY DEF Carried, Fixed, Fingerprint
  <2>1. /\ th["op"].cand = serving.cand
        /\ approvals[serving.cand].decision = "approved-for-exact-diff" /\ Fixed(serving.cand)
        /\ approvals[serving.cand].fp = serving.fp /\ approvalId[serving.cand] = serving.id
    BY DEF ConsoleInv, CardInv, Carried
  <2>2. PICK d \in Candidates : d = serving.cand
    BY <2>1, ThreadFacts, OpApart DEF Placed, ConsoleInv, Inductive
  <2>3. d # c
    BY <2>1, <2>2 DEF Approved, Fixed
  <2>4. Fixed(d)'
    BY <1>3, <2>1, <2>2, <2>3
  <2>5. Fixed(serving.cand)'
    BY <2>2, <2>4 DEF Fixed, Fingerprint
  <2> QED
    BY <1>2, <2>1, <2>2, <2>3, <2>5
<1>6. Offering'
  BY DEF Offering, ConsoleInv, CardInv
<1> QED
  BY <1>1, <1>2, <1>4, <1>5, <1>6 DEF CardInv, Still

(* A call that is admitted finds none in flight.                           *)
LEMMA NoneInFlight ==
    ASSUME ConsoleInv, LifecycleIdle
    PROVE  th["op"].pc = "idle" /\ serving = NoCard /\ ~Pending(gov)
<1>1. up = "up" /\ mutation = "idle" /\ ~Pending(gov)
  BY DEF LifecycleIdle, Pending
<1> QED
  BY <1>1, Begun DEF ConsoleInv, CardInv

(* A call that starts where no card is acted on: a removal, Safe Mode.     *)
LEMMA StartedCard ==
    ASSUME ConsoleInv, Inductive', UNCHANGED <<approvals, approvalId>>,
           Known(registry) \subseteq Known(registry'),
           \A u \in Threads : u # "op" => th'[u] = th[u],
           th'["op"].pc \in {"safe", "disable", "uninstall"}
    PROVE  CardInv'
<1>1. \A c \in Candidates : Fixed(c) => Fixed(c)'
  BY FixedStays DEF ConsoleInv
<1>2. Still'
  BY OpApart DEF Still, ConsoleInv, CardInv
<1> QED
  BY <1>1, <1>2 DEF ConsoleInv, CardInv, Carried, Offering, Stage

(* Leaving Safe Mode and abandoning a failed activation start no call.     *)
LEMMA IdleCard ==
    ASSUME ConsoleInv, Inductive', th["op"].pc = "idle", UNCHANGED <<registry, th, approvalId>>,
           \A c \in Candidates : \/ approvals'[c] = approvals[c]
                                 \/ approvals'[c].decision # "approval-requested",
           serving' = NoCard
    PROVE  CardInv'
<1>1. \A c \in Candidates : Fixed(c) /\ approvals'[c] = approvals[c] => Fixed(c)'
  BY FixedStays DEF ConsoleInv
<1> QED
  BY <1>1 DEF ConsoleInv, CardInv, Carried, Offering, Still, Stage

(* A call whose first write is lost is over at once.                       *)
LEMMA LostCard ==
    ASSUME ConsoleInv, Inductive', FlushLost, UNCHANGED <<registry, approvals, approvalId>>, serving' = NoCard
    PROVE  CardInv'
<1>1. Rest("op") /\ Resting.pc = "idle"
  BY DEF FlushLost, Resting
<1> HIDE DEF Resting
<1>2. th'["op"] = Resting /\ \A u \in Threads : u # "op" => th'[u] = th[u]
  BY <1>1, Moved, OpApart DEF Rest, ConsoleInv
<1>3. Still'
  BY <1>2, OpApart DEF Still, ConsoleInv, CardInv
<1>4. \A c \in Candidates : Fixed(c) => Fixed(c)'
  BY FixedStays DEF ConsoleInv
<1> QED
  BY <1>1, <1>2, <1>3, <1>4 DEF ConsoleInv, CardInv, Carried, Offering, Stage

(* What a lost write leaves of the lifecycle call.                         *)
LEMMA LostIdle ==
    ASSUME Inductive, FlushLost
    PROVE  th'["op"].pc = "idle"
<1>1. Resting.pc = "idle"
  BY DEF Resting
<1> HIDE DEF Resting
<1> QED
  BY <1>1, Moved, OpApart DEF FlushLost, Rest

LEMMA ActivateStartCard ==
    ASSUME ConsoleInv, Inductive', NEW post, StartsCard(post)
    PROVE  CardInv'
<1>0. CASE FlushLost
  BY <1>0, LostIdle, LostCard DEF StartsCard, ActivateStart, ConsoleInv
<1> SUFFICES ASSUME ~FlushLost
             PROVE  CardInv'
  BY <1>0
<1> DEFINE c == post.card.cand
<1>1. /\ c \in Candidates /\ ActivateStart(c) /\ LifecycleIdle /\ Eligible(c)
      /\ post.card.id = approvalId[c] /\ post.card.fp = approvals[c].fp
      /\ serving' = (IF th'["op"].pc = "idle" THEN NoCard ELSE post.card)
      /\ UNCHANGED <<approvals, approvalId, registry>>
  BY DEF StartsCard, ActivateStart
<1>2. approvals[c].decision = "approved-for-exact-diff" /\ Fixed(c)
  BY <1>1, BaseRegistered DEF Eligible, Approved, Fixed, ConsoleInv
<1>3. PICK rec : /\ rec = [Resting EXCEPT !.pc = "prepare", !.cand = c, !.snap = gov.lkg, !.prior = gov,
                                  !.wait = c \notin rt.generated,
                                  !.start = IF c \in rt.generated THEN None ELSE c]
                 /\ Goto("op", rec)
  BY <1>1 DEF ActivateStart
<1>4. rec.pc = "prepare" /\ rec.cand = c
  BY <1>3 DEF Resting
<1>5. th'["op"] = rec /\ \A u \in Threads : u # "op" => th'[u] = th[u]
  BY <1>3, Moved, OpApart DEF ConsoleInv
<1>6. Still'
  BY <1>5, OpApart DEF Still, ConsoleInv, CardInv
<1>7. \A d \in Candidates : Fixed(d) => Fixed(d)'
  BY <1>1, FixedStays DEF ConsoleInv
<1>8. Fixed(c)'
  BY <1>1, <1>2 DEF Fixed, Fingerprint
<1>9. serving' = post.card
  BY <1>1, <1>4, <1>5
<1>10. Fixed(serving.cand)'
  BY <1>8, <1>9 DEF Fixed, Fingerprint
<1>11. Carried'
  BY <1>1, <1>2, <1>4, <1>5, <1>9, <1>10 DEF Carried
<1> QED
  BY <1>1, <1>4, <1>5, <1>6, <1>7, <1>11 DEF ConsoleInv, CardInv, Offering, Stage

LEMMA RollbackCardKept ==
    ASSUME ConsoleInv, Inductive', RollsBack
    PROVE  CardInv'
<1>0. CASE FlushLost
  BY <1>0, LostIdle, LostCard DEF RollsBack, Rollback, ConsoleInv
<1> SUFFICES ASSUME ~FlushLost
             PROVE  CardInv'
  BY <1>0
<1> DEFINE pending == [gov EXCEPT !.state = "rollback-pending"]
           here    == [Resting EXCEPT !.prior = gov, !.cand = None]
<1>1. /\ Rollback /\ UNCHANGED <<approvals, approvalId, registry>> /\ gov' = pending
      /\ serving' = NoCard \/ serving'.target = Fallback(gov)
      /\ gov \in SoundGovs(Known(registry)) /\ Resting \in SoundThreads(Known(registry))
  BY RestingSound DEF RollsBack, Rollback, ConsoleInv, Inductive, SoundRegistries
<1>2. pending.state = "rollback-pending" /\ Fallback(pending) = Fallback(gov)
  BY <1>1 DEF SoundGovs, Fallback
<1>3. Restoring("op", here, "rollback", Fallback(pending), registry, rt)
  BY DEF RollsBack, Rollback, StartRollback
<1>4. PICK rec : /\ rec = [here EXCEPT !.pc = "restore", !.wait = RestoreWaits(rt, Fallback(pending)),
                                  !.ret = "rollback", !.snap = Fallback(pending),
                                  !.owners = Active(registry), !.todo = Fallback(pending).mounted,
                                  !.drop = Unwanted(rt, Fallback(pending))]
                 /\ Goto("op", rec)
  BY <1>3 DEF Restoring
<1>5. rec.pc = "restore" /\ rec.ret = "rollback" /\ rec.snap = Fallback(pending)
  BY <1>4 DEF Resting
<1>6. th'["op"] = rec /\ \A u \in Threads : u # "op" => th'[u] = th[u]
  BY <1>4, Moved, OpApart DEF ConsoleInv
<1>7. Still'
  BY <1>6, OpApart DEF Still, ConsoleInv, CardInv
<1>8. \A d \in Candidates : Fixed(d) => Fixed(d)'
  BY <1>1, FixedStays DEF ConsoleInv
<1> HIDE DEF pending
<1> QED
  BY <1>1, <1>2, <1>5, <1>6, <1>7, <1>8 DEF ConsoleInv, CardInv, Carried, Offering, Stage

LEMMA ServeCard ==
    ASSUME ConsoleInv, Inductive', NEW post \in posts, Serve(post)
    PROVE  CardInv'
<1>1. DecidesCard(post) \/ StartsCard(post) \/ OtherCard \/ RollsBack
  BY PostServed DEF ConsoleInv
<1>2. CASE DecidesCard(post)
  <2>1. PICK c \in Candidates : \E d \in {"approved-for-exact-diff", "rejected"} :
           Decide(c, d) /\ approvals[c].decision = "approval-requested"
    BY <1>2 DEF DecidesCard
  <2>2. PICK d \in {"approved-for-exact-diff", "rejected"} :
           Decide(c, d) /\ approvals[c].decision = "approval-requested"
    BY <2>1
  <2>3. spent'.approvals \in Nat
    BY DEF Inductive, Spendings
  <2>4. PICK id \in Nat : id = spent'.approvals
    BY <2>3
  <2>5. /\ approvals' = [approvals EXCEPT ![c] = [decision |-> d, fp |-> Fingerprint(c)]]
        /\ approvalId' = [approvalId EXCEPT ![c] = id] /\ UNCHANGED <<registry, gov, th, serving>>
    BY <2>2, <2>4 DEF Decide, RecordApproval
  <2> QED
    BY <2>2, <2>5, ApprovedCard
<1>3. CASE OtherCard
  <2>1. ASSUME NEW c \in Candidates, AbandonFailedActivation(c), UNCHANGED <<approvalId, serving>>
        PROVE  CardInv'
    <3>1. th["op"].pc = "idle" /\ serving = NoCard /\ UNCHANGED <<registry, th>>
      BY <2>1, NoneInFlight DEF AbandonFailedActivation
    <3>2. approvals \in [Candidates -> [decision : Decisions, fp : {"whole", "delta"}]]
      BY DEF ConsoleInv, Inductive, SoundApprovals, Approvals
    <3>3. \A d \in Candidates : \/ approvals'[d] = approvals[d]
                                \/ approvals'[d].decision # "approval-requested"
      BY <2>1, <3>2 DEF AbandonFailedActivation
    <3> QED
      BY <2>1, <3>1, <3>3, IdleCard
  <2>2. ASSUME NEW c \in Candidates, RemoveStart(c, "uninstall"), UNCHANGED approvalId
        PROVE  CardInv'
    <3>1. PICK rec : Goto("op", rec) /\ rec.pc = "uninstall"
      <4>1. ASSUME NEW wait, NEW drop
            PROVE  [Resting EXCEPT !.pc = "uninstall", !.wait = wait, !.todo = {c},
                                   !.drop = drop, !.prior = gov].pc = "uninstall"
        BY DEF Resting
      <4> QED
        BY <2>2, <4>1 DEF RemoveStart
    <3>2. th'["op"] = rec /\ \A u \in Threads : u # "op" => th'[u] = th[u]
      BY <3>1, Moved, OpApart DEF ConsoleInv
    <3> QED
      BY <2>2, <3>1, <3>2, StartedCard DEF RemoveStart
  <2>3. ASSUME ExitSafeMode, serving' = NoCard, UNCHANGED approvalId
        PROVE  CardInv'
    <3>1. th["op"].pc = "idle" /\ UNCHANGED <<registry, th, approvals>>
      BY <2>3, NoneInFlight DEF ExitSafeMode
    <3> QED
      BY <2>3, <3>1, IdleCard
  <2> QED
    BY <1>3, <2>1, <2>2, <2>3 DEF OtherCard
<1> QED
  BY <1>1, <1>2, <1>3, ActivateStartCard, RollbackCardKept

LEMMA ElsewhereCard ==
    ASSUME ConsoleInv, Inductive', Elsewhere
    PROVE  CardInv'
<1>1. ASSUME NEW c \in Candidates, RequestApproval(c),
             approvalId' = [approvalId EXCEPT ![c] = spent'.approvals]
      PROVE  CardInv'
  <2>1. spent'.approvals \in Nat
    BY DEF Inductive, Spendings
  <2>2. PICK id \in Nat : id = spent'.approvals
    BY <2>1
  <2>3. /\ approvals' = [approvals EXCEPT ![c] = [decision |-> "approval-requested", fp |-> Fingerprint(c)]]
        /\ approvalId' = [approvalId EXCEPT ![c] = id] /\ UNCHANGED <<registry, gov, th, serving>>
        /\ ~Approved(c) /\ MayRequest(c)
    BY <1>1, <2>2 DEF RequestApproval, Elsewhere
  <2>4. Base[c] = None \/ Base[c] \in Known(registry)
    BY <2>3, BaseRegistered DEF ConsoleInv
  <2> QED
    BY <2>3, <2>4, ApprovedCard
<1>2. CASE EnterSafeMode /\ UNCHANGED approvalId
  <2>1. PICK rec : Goto("op", rec) /\ rec.pc = "safe"
    <3>1. ASSUME NEW wait, NEW drop
          PROVE  [Resting EXCEPT !.pc = "safe", !.wait = wait, !.drop = drop].pc = "safe"
      BY DEF Resting
    <3> QED
      BY <1>2, <3>1 DEF EnterSafeMode
  <2>2. th'["op"] = rec /\ \A u \in Threads : u # "op" => th'[u] = th[u]
    BY <2>1, Moved, OpApart DEF ConsoleInv
  <2>3. Known(registry) \subseteq Known(registry')
    BY <1>2, RowsStay DEF EnterSafeMode, ConsoleInv, Inductive, SoundRegistries
  <2> QED
    BY <1>2, <2>1, <2>2, <2>3, StartedCard DEF EnterSafeMode
<1>3. ASSUME NEW x \in Rows, RemoveStart(x, "disable"), UNCHANGED approvalId
      PROVE  CardInv'
  <2>1. PICK rec : Goto("op", rec) /\ rec.pc = "disable"
    <3>1. ASSUME NEW wait, NEW drop
          PROVE  [Resting EXCEPT !.pc = "disable", !.wait = wait, !.todo = {x},
                                 !.drop = drop, !.prior = gov].pc = "disable"
      BY DEF Resting
    <3> QED
      BY <1>3, <3>1 DEF RemoveStart
  <2>2. th'["op"] = rec /\ \A u \in Threads : u # "op" => th'[u] = th[u]
    BY <2>1, Moved, OpApart DEF ConsoleInv
  <2> QED
    BY <1>3, <2>1, <2>2, StartedCard DEF RemoveStart
<1> QED
  BY <1>1, <1>2, <1>3 DEF Elsewhere

LEMMA OnwardCard ==
    ASSUME ConsoleInv, Inductive', Onward
    PROVE  CardInv'
<1>1. /\ UNCHANGED approvalId
      /\ serving' = IF th'["op"].pc = "idle" THEN NoCard ELSE serving
  BY DEF Onward
<1>2. ASSUME NEW t \in Threads, Advance(t)
      PROVE  CardInv'
  BY <1>1, <1>2, AdvancePasses, PassedCard DEF ConsoleInv, CardInv
<1>3. CASE Boot
  <2>1. /\ UNCHANGED approvals /\ Known(registry) \subseteq Known(registry')
        /\ \A c \in Candidates : th'[c].pc = "idle"
        /\ th'["op"].pc \notin {"prepare", "health"}
        /\ Stage(th'["op"]) = "rollback" => gov'.state = "rollback-pending"
        /\ serving = NoCard
    BY <1>3, BootBegins DEF ConsoleInv, CardInv
  <2>2. \A c \in Candidates : Fixed(c) => Fixed(c)'
    BY <2>1, FixedStays DEF ConsoleInv
  <2> QED
    BY <1>1, <2>1, <2>2 DEF ConsoleInv, CardInv, Carried, Offering, Still
<1> QED
  BY <1>2, <1>3 DEF Onward

(* Once the process is up it stays so.                                     *)
LEMMA UpOnce ==
    ASSUME ConsoleInv, ConsoleNext
    PROVE  FirstBoot'
<1>1. CASE up = "up" /\ ~Onward
  <2>1. Click \/ Elsewhere \/ \E post \in posts : Serve(post) \/ Refuse(post)
    BY <1>1 DEF ConsoleNext
  <2>2. CASE Click \/ Elsewhere \/ \E post \in posts : Refuse(post)
    BY <1>1, <2>2
    DEF Click, Refuse, vars, Elsewhere, RequestApproval, EnterSafeMode, RemoveStart, FirstBoot
  <2>3. ASSUME NEW post \in posts, Serve(post)
        PROVE  FirstBoot'
    <3>1. DecidesCard(post) \/ StartsCard(post) \/ OtherCard \/ RollsBack
      BY <2>3, PostServed DEF ConsoleInv
    <3> QED
      BY <1>1, <3>1 DEF DecidesCard, Decide, RecordApproval, StartsCard, ActivateStart, OtherCard,
         AbandonFailedActivation, RemoveStart, ExitSafeMode, RollsBack, Rollback, FirstBoot
  <2> QED
    BY <2>1, <2>2, <2>3
<1>2. CASE up # "up" /\ ~Onward
  <2>1. UNCHANGED <<up, gov, th, spent>>
    <3>1. ~\E post \in posts : Serve(post)
      BY <1>2 DEF Serve
    <3>2. ~Elsewhere
      BY <1>2 DEF Elsewhere, RequestApproval, EnterSafeMode, RemoveStart, LifecycleIdle
    <3> QED
      BY <1>2, <3>1, <3>2 DEF ConsoleNext, Click, Refuse, vars
  <2> QED
    BY <2>1 DEF ConsoleInv, FirstBoot
<1>3. ASSUME NEW t \in Threads, Advance(t)
      PROVE  FirstBoot'
  <2>1. OpStep \/ MountStep("op")
    BY <1>3, AdvancePasses, OpApart DEF Advance
  <2>2. CASE OpStep
    <3>1. up = "up" \/ Booted
      BY <2>2, BootMounts
    <3>2. up = "up" => up' = "up"
      BY <2>2 DEF OpStep, ActivatePrepared, ActivateHealthy, ActivateUnhealthy, ActivateCommitted,
         ActivateUndone, RollbackRestored, RollbackMounted, RollbackRecovered, RollbackClosed,
         SafeModeEntered, Removed, RemoveReverted, Booted
    <3> QED
      BY <3>1, <3>2 DEF Booted, FirstBoot
  <2>3. CASE MountStep("op")
    <3>1. th'["op"].then = th["op"].then /\ up' = up /\ up # "down"
      BY <2>3, MountStepGoesOn, OpApart, ThreadFacts DEF GoesOn, ConsoleInv
    <3>2. spent' = spent
      BY <2>3 DEF MountStep, RestoreDropped, RestoreStarted, MountNext, MountStarted, MountsDone,
         MountsCleared, Closed
    <3> QED
      BY <3>1, <3>2 DEF ConsoleInv, FirstBoot
  <2> QED
    BY <2>1, <2>2, <2>3
<1>4. CASE Boot
  <2>1. up = "down" /\ up' = "booting" /\ spent' = spent /\ gov.state # "rollback-pending"
    BY <1>4 DEF Boot, ConsoleInv, FirstBoot
  <2>2. PICK g : g = IF gov.state \in {"activation-pending", "activating"}
                     THEN [gov EXCEPT !.state = "activation-failed", !.pending = None,
                                      !.failure = Failure(gov.pending, TRUE, FALSE)]
                     ELSE gov
    OBVIOUS
  <2>3. /\ gov \in SoundGovs(Known(registry)) /\ registry \in Registries
        /\ Resting \in SoundThreads(Known(registry))
    BY RestingSound DEF ConsoleInv, Inductive, SoundRegistries
  <2>4. g \in SoundGovs(Known(registry)) /\ g.state # "rollback-pending"
    BY <2>1, <2>2, <2>3 DEF SoundGovs, ActivationStates, Failure, Failures
  <2>5. PICK d : d = [disk EXCEPT !.gov = g, !.store.gov = g]
    OBVIOUS
  <2>6. Remounting("op", Resting, "boot", registry, g, rt, d)
    BY <1>4, <2>2, <2>4, <2>5 DEF Boot
  <2>7. th'["op"].then = "boot"
    BY <2>3, <2>4, <2>6, RemountingMoves, OpApart DEF ConsoleInv
  <2> QED
    BY <2>1, <2>7 DEF ConsoleInv, FirstBoot
<1> QED
  BY <1>1, <1>2, <1>3, <1>4 DEF Onward

(* A button on a card posts a decision the card offers.                    *)
LEMMA ClickOffers ==
    ASSUME \A post \in posts : Offered(post), Click
    PROVE  \A post \in posts' : Offered(post)
<1>1. ASSUME NEW card \in Cards, NEW verb \in Verbs(card)
      PROVE  Offered(Posted(verb, card))
  <2>1. card.kind \in {"approval", "activation", "plugin", "rollback"}
    BY DEF Cards, ActivationCards, ActivationCard, ApprovalCards, PluginCards, RollbackCards
  <2> QED
    BY <2>1 DEF Verbs, Offered, Posted
<1>2. ASSUME NEW verb \in {"recovery-rollback", "exit-safe-mode"}
      PROVE  Offered(Posted(verb, NoCard))
  BY DEF Offered, Posted
<1> QED
  BY <1>1, <1>2 DEF Click

LEMMA ConsoleNextInv ==
    ASSUME ConsoleInv, [ConsoleNext]_<<vars, consoleVars>>
    PROVE  ConsoleInv'
<1>1. [Next]_vars
  BY ConsoleSteps DEF ConsoleInv
<1>2. Inductive' /\ LockInv'
  BY <1>1, NextInductive, NextLock DEF ConsoleInv
<1>0. ConsoleNext => FirstBoot'
  BY UpOnce
<1>3. CASE (Click \/ \E post \in posts : Refuse(post)) \/ UNCHANGED <<vars, consoleVars>>
  <2>1. UNCHANGED <<vars, approvalId, serving>>
    BY <1>3 DEF Click, Refuse, consoleVars
  <2>2. CardInv'
    BY <2>1 DEF vars, ConsoleInv, CardInv, Still, Fixed, Fingerprint, Known, Carried, Offering, Stage
  <2>3. \A post \in posts' : Offered(post)
    BY <1>3, ClickOffers DEF Refuse, consoleVars, ConsoleInv
  <2>4. FirstBoot'
    BY <1>0, <2>1 DEF vars, ConsoleInv, FirstBoot
  <2> QED
    BY <1>2, <2>2, <2>3, <2>4 DEF ConsoleInv, Offered, NoCard
<1>4. ASSUME NEW post \in posts, Serve(post)
      PROVE  ConsoleInv'
  BY <1>2, <1>4, <1>0, ServeCard DEF ConsoleNext, Serve, ConsoleInv, Offered, NoCard
<1>5. CASE Elsewhere
  BY <1>2, <1>5, <1>0, ElsewhereCard DEF ConsoleNext, Elsewhere, ConsoleInv, Offered, NoCard
<1>6. CASE Onward
  BY <1>2, <1>6, <1>0, OnwardCard DEF ConsoleNext, Onward, ConsoleInv, Offered, NoCard
<1> QED
  BY <1>3, <1>4, <1>5, <1>6 DEF ConsoleNext

LEMMA ConsoleInitInv ==
    ASSUME Init, ConsoleInit
    PROVE  ConsoleInv
<1>1. Inductive /\ LockInv
  BY InitInductive, InitLock
<1>2. \A t \in Threads : th[t].pc = "idle"
  <2>1. Resting.pc = "idle"
    BY DEF Resting
  <2> HIDE DEF Resting
  <2> QED
    BY <2>1 DEF Init
<1>3. \A c \in Candidates : approvals[c].decision # "approval-requested"
  BY DEF Init, HomeApprovals
<1>4. FirstBoot
  BY DEF Init, HomeState, FirstBoot
<1> QED
  BY <1>1, <1>2, <1>3, <1>4, OpApart
  DEF ConsoleInit, ConsoleInv, CardInv, Still, Carried, Offering, Stage

(* At the wait of an activation for its health check, only the answer to   *)
(* it changes the registry, and it turns no other row on.                  *)
LEMMA HealthStep ==
    ASSUME ConsoleInv, Advance("op"), th["op"].pc = "health", registry' # registry,
           NEW x \in Candidates, registry'[x] = "active", registry[x] # "active"
    PROVE  x = th["op"].cand
<1>1. ActivateHealthy
  BY OpApart DEF Advance, OpStep, MountStep, ActivatePrepared, ActivateUnhealthy, ActivateCommitted,
     ActivateUndone, RollbackRestored, RollbackMounted, RollbackRecovered, RollbackClosed,
     SafeModeEntered, Removed, RemoveReverted, Booted, RestoreDropped, RestoreStarted, MountNext,
     MountStarted, MountsDone, MountsCleared, Closed
<1>2. x \in Rows
  BY RowsAssumption
<1>3. PICK out : \/ registry' = SetStatus(SetStatus(registry, out, "disabled"), {th["op"].cand}, "active")
                 \/ registry' = SetStatus(registry, out, "disabled")
  BY <1>1 DEF ActivateHealthy, CommitRow
<1> QED
  BY <1>2, <1>3 DEF SetStatus

(* A rollback that is reported has made its target current.                *)
LEMMA RollbackAnswered ==
    ASSUME ConsoleInv, Advance("op"), th["op"].pc = "rollback", gov'.state = "rolled-back"
    PROVE  gov'.current = th["op"].snap
<1>1. RollbackRestored
  BY OpApart DEF Advance, OpStep, MountStep, ActivatePrepared, ActivateHealthy, ActivateUnhealthy,
     ActivateCommitted, ActivateUndone, RollbackMounted, RollbackRecovered, RollbackClosed,
     SafeModeEntered, Removed, RemoveReverted, Booted, RestoreDropped, RestoreStarted, MountNext,
     MountStarted, MountsDone, MountsCleared, Closed
<1>2. gov.state = "rollback-pending" /\ gov \in SoundGovs(Known(registry))
  BY DEF ConsoleInv, CardInv, Offering, Stage, Inductive
<1>3. PICK back : back = [gov EXCEPT !.lkg = th["op"].snap, !.current = th["op"].snap,
                                     !.state = "rolled-back", !.pending = None]
  OBVIOUS
<1>4. back.current = th["op"].snap
  BY <1>2, <1>3 DEF SoundGovs
<1>5. back \in SoundGovs(Known(registry))
  BY <1>2, <1>3, ThreadFacts, OpApart DEF SoundGovs, ActivationStates, ConsoleInv
<1>6. ASSUME NEW reg, Remounting("op", th["op"], "rollback", reg, back, rt, disk)
      PROVE  gov'.current = back.current
  <2>1. ASSUME NEW here, NEW other, FailingClosed("op", here, "close", other, back, rt)
        PROVE  FALSE
    BY <1>5, <2>1 DEF FailingClosed, SoundGovs
  <2>2. \/ gov' = back
        \/ \E failure : gov' = [back EXCEPT !.failure = failure]
    BY <1>6, <2>1 DEF Remounting
  <2> QED
    BY <1>5, <2>2 DEF SoundGovs
<1>7. ASSUME NEW reg, Recovering(th["op"], gov, reg, rt)
      PROVE  FALSE
  BY <1>2, <1>7 DEF Recovering
<1> QED
  BY <1>1, <1>3, <1>4, <1>6, <1>7 DEF RollbackRestored

LEMMA DecidedShown ==
    ASSUME ConsoleInv, ConsoleNext
    PROVE  DecidesShown
<1> SUFFICES ASSUME NEW post \in posts, post \notin posts', NEW c \in Candidates,
                    approvals'[c].decision \notin {approvals[c].decision, "superseded"}
             PROVE  /\ c = post.card.cand /\ approvalId[c] = post.card.id
                    /\ approvals'[c].fp = post.card.fp
  BY DEF DecidesShown
<1>1. approvals' # approvals
  OBVIOUS
<1>2. PICK other \in posts : Serve(other)
  <2>1. ~Click /\ ~Elsewhere /\ ~Onward
    <3>1. Click => posts \subseteq posts'
      BY DEF Click
    <3> QED
      BY <3>1 DEF Elsewhere, Onward
  <2>2. \A other \in posts : ~Refuse(other)
    BY <1>1 DEF Refuse, vars
  <2> QED
    BY <2>1, <2>2 DEF ConsoleNext
<1>3. /\ other = post
      /\ DecidesCard(other) \/ StartsCard(other) \/ OtherCard \/ RollsBack
  BY <1>2, PostServed DEF ConsoleInv
<1>4. approvals \in [Candidates -> [decision : Decisions, fp : {"whole", "delta"}]]
  BY DEF ConsoleInv, Inductive, SoundApprovals, Approvals
<1>5. CASE DecidesCard(post)
  <2>1. PICK d \in Candidates : \E decision \in {"approved-for-exact-diff", "rejected"} :
          /\ Decide(d, decision) /\ approvals[d].decision = "approval-requested"
          /\ post.card.cand = d /\ post.card.id = approvalId[d] /\ post.card.fp = approvals[d].fp
    BY <1>5 DEF DecidesCard
  <2>2. PICK decision : approvals' = [approvals EXCEPT ![d] = [decision |-> decision, fp |-> Fingerprint(d)]]
    BY <2>1 DEF Decide, RecordApproval
  <2>3. d = c
    BY <1>4, <2>2
  <2>4. approvals'[c].fp = Fingerprint(c)
    BY <1>4, <2>2, <2>3
  <2>5. approvals[c].fp = Fingerprint(c)
    BY <2>1, <2>3 DEF ConsoleInv, CardInv, Fixed
  <2> QED
    BY <2>1, <2>3, <2>4, <2>5
<1>6. CASE OtherCard
  <2>1. PICK d : approvals' = [approvals EXCEPT ![d].decision = "superseded"]
    BY <1>1, <1>6 DEF OtherCard, AbandonFailedActivation, RemoveStart, ExitSafeMode
  <2>2. c # d => approvals'[c] = approvals[c]
    BY <1>4, <2>1
  <2>3. c = d => approvals'[c].decision = "superseded"
    BY <1>4, <2>1
  <2> QED
    BY <2>2, <2>3
<1>7. CASE StartsCard(post) \/ RollsBack
  BY <1>1, <1>7 DEF StartsCard, ActivateStart, RollsBack, Rollback
<1> QED
  BY <1>3, <1>5, <1>6, <1>7

(* Only the authority goes on while a call of it waits; the approvals do   *)
(* not touch the registry or the fields.                                   *)
LEMMA WhileWaiting ==
    ASSUME ConsoleInv, ConsoleNext, th["op"].pc # "idle"
    PROVE  Advance("op") \/ UNCHANGED <<registry, gov>>
<1>1. ~LifecycleIdle
  BY NoneInFlight
<1>2. CASE Click \/ \E post \in posts : Refuse(post)
  BY <1>2 DEF Click, Refuse, vars
<1>3. ASSUME NEW post \in posts, Serve(post)
      PROVE  UNCHANGED <<registry, gov>>
  <2>1. DecidesCard(post) \/ StartsCard(post) \/ OtherCard \/ RollsBack
    BY <1>3, PostServed DEF ConsoleInv
  <2> QED
    BY <1>1, <2>1
    DEF DecidesCard, Decide, RecordApproval, StartsCard, ActivateStart, OtherCard,
        AbandonFailedActivation, RemoveStart, ExitSafeMode, RollsBack, Rollback
<1>4. CASE Elsewhere
  BY <1>1, <1>4 DEF Elsewhere, RequestApproval, EnterSafeMode, RemoveStart
<1>5. CASE Onward
  <2>1. ~Boot
    BY BootBegins DEF ConsoleInv, CardInv
  <2>2. PICK t \in Threads : Advance(t)
    BY <1>5, <2>1 DEF Onward
  <2>3. t = "op"
    BY <2>2, AdvancePasses DEF ConsoleInv, CardInv
  <2> QED
    BY <2>2, <2>3
<1> QED
  BY <1>2, <1>3, <1>4, <1>5 DEF ConsoleNext

LEMMA ActivatedShown ==
    ASSUME ConsoleInv, ConsoleNext
    PROVE  ActivatesShown
<1> SUFFICES ASSUME serving # NoCard, registry' # registry, th["op"].pc = "health"
             PROVE  LET c == serving.cand IN
                    /\ \A x \in Candidates : registry'[x] = "active" => registry[x] = "active" \/ x = c
                    /\ Approved(c) /\ approvals[c].fp = serving.fp /\ approvalId[c] = serving.id
  BY DEF ActivatesShown
<1>1. Advance("op")
  BY WhileWaiting
<1>2. /\ th["op"].cand = serving.cand
      /\ Approved(serving.cand)
      /\ approvals[serving.cand].fp = serving.fp /\ approvalId[serving.cand] = serving.id
  BY DEF ConsoleInv, CardInv, Carried, Fixed, Approved
<1> QED
  BY <1>1, <1>2, HealthStep

LEMMA RolledBackToShown ==
    ASSUME ConsoleInv, ConsoleNext
    PROVE  RollsBackToShown
<1> SUFFICES ASSUME serving # NoCard, gov'.state = "rolled-back", th["op"].pc = "rollback"
             PROVE  gov'.current = serving.target
  BY DEF RollsBackToShown
<1>1. gov.state = "rollback-pending" /\ th["op"].snap = serving.target
  BY DEF ConsoleInv, CardInv, Offering, Stage
<1>2. Advance("op")
  BY <1>1, WhileWaiting
<1> QED
  BY <1>1, <1>2, RollbackAnswered

(* Whatever the console carries out for a card is about what the card      *)
(* said, for every set of extensions and versions and any number of posts, *)
(* however late they are served, as long as no child dies and the process  *)
(* does not crash in between.                                              *)
THEOREM ConsoleDecides ==
    Init /\ ConsoleInit /\ [][ConsoleNext]_<<vars, consoleVars>> => DecidedAsShown
<1>1. Init /\ ConsoleInit => ConsoleInv
  BY ConsoleInitInv
<1>2. ConsoleInv /\ [ConsoleNext]_<<vars, consoleVars>> => ConsoleInv'
  BY ConsoleNextInv
<1>3. ConsoleInv /\ [ConsoleNext]_<<vars, consoleVars>> =>
          [DecidesShown /\ ActivatesShown /\ RollsBackToShown]_<<vars, consoleVars>>
  BY DecidedShown, ActivatedShown, RolledBackToShown
<1> QED
  BY <1>1, <1>2, <1>3, PTL DEF DecidedAsShown

-----------------------------------------------------------------------------
(* A boot, a rollback and a failed removal, wherever the process crashed   *)
(* and whichever write failed: what they bring back runs.                  *)

(* The versions of an extension claim a capability in common, as ToolsFree *)
(* has them declare the same tools: no two can be active.  Were it not so, *)
(* a failed disable could leave two of them active, and a boot would mount *)
(* the one over the other.                                                 *)
VersionsClash == \A x, y \in Candidates : SameOwner(x, y) /\ x # y => Clash(x, y)

(* No snapshot mounts two versions of an owner.                            *)
Once(s) == OneEach(s.mounted)

OnceGov(g) == Once(g.current) /\ Once(g.lkg) /\ (g.target # NoSnapshot => Once(g.target))

OnceDisk(d) == OnceGov(d.gov) /\ OnceGov(d.store.gov)

(* Whatever a call may restore mounts one version of each owner, and what  *)
(* runs could be started again.                                            *)
AllOnce ==
    /\ OnceGov(gov) /\ OnceDisk(disk) /\ OnceGov(th["op"].prior) /\ Once(th["op"].snap)
    /\ Remembered(rt) /\ (up = "down" => rt = FreshRuntime)

OnceInv == spent.fatals = 0 => AllOnce

(* Rows without conflicts hold one version of each owner.                  *)
LEMMA FreeOfVersions ==
    ASSUME VersionsClash, NEW S, ConflictFree(S)
    PROVE  OneEach(S \cap Candidates)
BY DEF VersionsClash, ConflictFree, OneEach

(* A home at first.                                                        *)
LEMMA HomeOnce ==
    ASSUME VersionsClash, NEW kept \in {{}, Legacy}
    PROVE  OnceGov(HomeState(kept))
<1>1. OneEach({}) /\ OneEach(Legacy)
  <2>1. ConflictFree(Legacy) /\ Legacy \cap Candidates = Legacy
    BY HomeAssumption, GovernanceAssumption, ConflictFreeSubset
  <2> QED
    BY <2>1, FreeOfVersions DEF OneEach
<1>2. PICK g : g = HomeState(kept)
  OBVIOUS
<1>3. /\ g.current.mounted = kept /\ g.lkg.mounted = kept
      /\ g.target = IF kept = {} THEN NoSnapshot ELSE HomeSnapshot
  BY <1>2 DEF HomeState
<1>4. HomeSnapshot.mounted = {}
  BY DEF HomeSnapshot
<1> QED
  BY <1>1, <1>2, <1>3, <1>4 DEF OnceGov, Once

LEMMA RestingOnce ==
    ASSUME VersionsClash
    PROVE  Once(Resting.snap) /\ OnceGov(Resting.prior)
<1>1. Resting.snap = HomeSnapshot /\ Resting.prior = HomeState({})
  BY DEF Resting
<1>2. Once(HomeSnapshot)
  BY DEF Once, OneEach, HomeSnapshot
<1> QED
  BY <1>1, <1>2, HomeOnce

(* What is captured between waits.                                         *)
LEMMA CapturedOnce ==
    ASSUME NEW reg, NEW r, Calm(r)
    PROVE  Once(Capture(reg, r))
BY DEF Calm, OneEach, Once, Capture

LEMMA FallbackOnce ==
    ASSUME NEW g, OnceGov(g)
    PROVE  Once(Fallback(g))
BY DEF OnceGov, Fallback

LEMMA FreshRemembered == Remembered(FreshRuntime)
BY DEF Remembered, FreshRuntime, NobodyParked

(* The call goes on.                                                       *)
LEMMA OnceOn ==
    ASSUME Inductive, AllOnce, NEW rec, Goto("op", rec), Once(rec.snap), OnceGov(rec.prior),
           OnceGov(gov'), OnceDisk(disk'), Remembered(rt'), up' # "down"
    PROVE  AllOnce'
BY RunFacts, Moved DEF AllOnce

(* A call that ends.                                                       *)
LEMMA RestOnce ==
    ASSUME VersionsClash, Inductive, AllOnce, Rest("op"), OnceGov(gov'), OnceDisk(disk'), Remembered(rt'),
           up' # "down"
    PROVE  AllOnce'
BY RestingOnce, OnceOn DEF Rest

(* A call that goes into runtime.restore.                                  *)
LEMMA RestoringOnce ==
    ASSUME Inductive, AllOnce, NEW here \in ThreadStates, NEW ret, NEW snap, NEW reg, NEW r \in Runtimes,
           Restoring("op", here, ret, snap, reg, r), Remembered(r), Once(snap), OnceGov(here.prior),
           OnceGov(gov'), OnceDisk(disk'), up' # "down"
    PROVE  AllOnce'
<1>1. Remembered(rt')
  BY BeginRestoreKept DEF Restoring
<1>2. PICK rec : rec = [here EXCEPT !.pc = "restore", !.wait = RestoreWaits(r, snap), !.ret = ret,
                               !.snap = snap, !.owners = Active(reg), !.todo = snap.mounted,
                               !.drop = Unwanted(r, snap)]
  OBVIOUS
<1>3. rec.snap = snap /\ rec.prior = here.prior
  BY <1>2 DEF ThreadStates
<1> QED
  BY <1>1, <1>2, <1>3, OnceOn DEF Restoring

(* A call that fails closed.                                               *)
LEMMA FailingClosedOnce ==
    ASSUME Inductive, AllOnce, NEW here \in ThreadStates, NEW pc, NEW reg, NEW g \in Govs,
           NEW r \in Runtimes, FailingClosed("op", here, pc, reg, g, r), Calm(r), Remembered(r),
           OnceGov(g), Once(here.snap), OnceGov(here.prior), OnceDisk(disk'), up' # "down"
    PROVE  AllOnce'
<1>1. Remembered(rt')
  BY UnloadingKept DEF FailingClosed
<1>2. PICK rec : rec = [here EXCEPT !.pc = pc, !.wait = UnloadWaits(r, Candidates), !.drop = r.generated]
  OBVIOUS
<1>3. rec.snap = here.snap /\ rec.prior = here.prior
  BY <1>2 DEF ThreadStates
<1>4. PICK h : h = gov'
  OBVIOUS
<1>5. h.lkg = g.lkg /\ h.target = g.target /\ h.current = Capture(DisableGenerated(reg), r)
  BY <1>4 DEF FailingClosed, Govs
<1>6. OnceGov(gov')
  BY <1>4, <1>5, CapturedOnce DEF OnceGov
<1> QED
  BY <1>1, <1>2, <1>3, <1>6, OnceOn DEF FailingClosed

(* What a write leaves in the file and in the store.                       *)
LEMMA WholeOnce ==
    ASSUME NEW reg, NEW a, NEW g, OnceGov(g)
    PROVE  OnceDisk(FileOf(reg, a, g))
BY DEF OnceDisk, FileOf, Sections

LEMMA FlushOnce ==
    ASSUME Flush, OnceGov(gov')
    PROVE  OnceDisk(disk')
BY WholeOnce DEF Flush

LEMMA SavedOnce ==
    ASSUME NEW b, NEW K, NEW d \in Disks(b, K), SaveRegistry(d), OnceDisk(d)
    PROVE  OnceDisk(disk')
BY DEF SaveRegistry, Saved, Disks, OnceDisk

LEMMA AnsweredOnce ==
    ASSUME Inductive, AllOnce, NEW g, OnceGov(g), FlushAnswered(g)
    PROVE  OnceDisk(disk')
<1>1. disk \in Disks(blessed, Known(registry)) /\ disk' = [disk EXCEPT !.store = Sections(approvals, g)]
  BY DEF Inductive, FlushAnswered
<1>2. disk'.gov = disk.gov /\ disk'.store.gov = g
  BY <1>1 DEF Disks, Sections
<1> QED
  BY <1>2 DEF OnceDisk, AllOnce

(* A call that ends with an error of the disk.                             *)
LEMMA LostOnce ==
    ASSUME VersionsClash, Inductive, AllOnce, FlushLost, OnceGov(gov'), Remembered(rt'), up' # "down"
    PROVE  AllOnce'
<1>1. disk \in Disks(blessed, Known(registry)) /\ OnceDisk(disk)
  BY DEF Inductive, AllOnce
<1>2. PICK d : d = Saved(disk)
  OBVIOUS
<1>3. /\ d.gov \in {disk.gov, disk.store.gov}
      /\ DOMAIN d = {"registry", "approvals", "gov", "store"}
  BY <1>1, <1>2 DEF Saved, Disks
<1>4. disk' = [d EXCEPT !.store = Sections(approvals', gov')]
  BY <1>2 DEF FlushLost
<1>5. disk'.gov = d.gov /\ disk'.store.gov = gov'
  BY <1>3, <1>4 DEF Sections
<1> QED
  BY <1>1, <1>3, <1>5, RestOnce DEF OnceDisk, FlushLost

(* A call that goes into the remount.                                      *)
LEMMA RemountingOnce ==
    ASSUME Inductive, AllOnce, NEW here \in ThreadStates, NEW then, NEW reg, NEW g \in Govs,
           NEW r \in Runtimes, NEW b, NEW K, NEW d \in Disks(b, K), Remounting("op", here, then, reg, g, r, d),
           Calm(r), Remembered(r), OnceGov(g), OnceDisk(d), Once(here.snap), OnceGov(here.prior),
           then \in {"boot", "rollback"}, up' # "down"
    PROVE  AllOnce'
<1> DEFINE targets  == Committed(g).owners \cap Candidates
           held     == targets \cap Legacy \cap intact
           withheld == SetStatus(reg, held, "disabled")
<1>1. PICK go : go = [here EXCEPT !.then = then, !.todo = {}, !.held = {}]
  OBVIOUS
<1>2. go.prior = here.prior /\ go.snap = here.snap /\ go \in ThreadStates
  BY <1>1 DEF ThreadStates
<1>3. OnceDisk(disk')
  BY SavedOnce DEF Remounting
<1>4. CASE /\ gov' = g /\ rt' = r
           /\ Goto("op", [go EXCEPT !.pc = "mounted", !.wait = FALSE])
  <2>1. PICK rec : rec = [go EXCEPT !.pc = "mounted", !.wait = FALSE]
    OBVIOUS
  <2>2. rec.prior = here.prior /\ rec.snap = here.snap
    BY <1>2, <2>1 DEF ThreadStates
  <2> QED
    BY <1>3, <1>4, <2>1, <2>2, OnceOn
<1>5. CASE FailingClosed("op", go, "close", withheld, g, r)
  BY <1>2, <1>3, <1>5, FailingClosedOnce
<1>6. CASE /\ rt' = r
           /\ gov' = IF held = {} THEN g ELSE [g EXCEPT !.failure = Failure(Blamed(g), FALSE, FALSE)]
           /\ Goto("op", [go EXCEPT !.pc = "mount", !.wait = FALSE, !.todo = Remountable(g), !.held = held])
  <2>1. PICK todo, h : todo = Remountable(g) /\ h = held
    OBVIOUS
  <2>2. PICK rec : rec = [go EXCEPT !.pc = "mount", !.wait = FALSE, !.todo = todo, !.held = h]
    OBVIOUS
  <2>3. rec.prior = here.prior /\ rec.snap = here.snap
    BY <1>2, <2>2 DEF ThreadStates
  <2>4. PICK k : k = gov'
    OBVIOUS
  <2>5. k.current = g.current /\ k.lkg = g.lkg /\ k.target = g.target
    BY <1>6, <2>4 DEF Govs
  <2>6. OnceGov(gov')
    BY <2>4, <2>5 DEF OnceGov
  <2> QED
    BY <1>3, <1>6, <2>1, <2>2, <2>3, <2>6, OnceOn
<1> QED
  BY <1>1, <1>4, <1>5, <1>6 DEF Remounting

(* The restart loop of runtime.restore.                                    *)
LEMMA RestoreLoopOnce ==
    ASSUME Inductive, AllOnce, NEW r \in Runtimes, Calm(r), Remembered(r), RestoreLoop("op", r),
           gov' = gov, disk' = disk, up' = up, up # "down"
    PROVE  AllOnce'
<1>1. PICK missing : missing = Restartable(r, th["op"].todo)
  OBVIOUS
<1>2. missing \subseteq Candidates
  BY <1>1, RestartableType
<1>3. CASE rt' = EndRestore(r, th["op"].snap) /\ Goto("op", RestoreEnded(th["op"], TRUE))
  <2>1. PICK rec : rec = RestoreEnded(th["op"], TRUE)
    OBVIOUS
  <2>2. rec.snap = th["op"].snap /\ rec.prior = th["op"].prior
    BY <2>1, RunFacts DEF RestoreEnded, ThreadStates
  <2> QED
    BY <1>3, <2>1, <2>2, EndRestoreKept, OnceOn DEF AllOnce
<1>4. ASSUME NEW c \in missing, rt' = Park(r, c, Evolves(c)),
             Goto("op", [th["op"] EXCEPT !.pc = "restart", !.wait = TRUE, !.drop = {}, !.start = c,
                                         !.todo = @ \ {c}])
      PROVE  AllOnce'
  <2>1. PICK rec : rec = [th["op"] EXCEPT !.pc = "restart", !.wait = TRUE, !.drop = {}, !.start = c,
                                          !.todo = @ \ {c}]
    OBVIOUS
  <2>2. rec.snap = th["op"].snap /\ rec.prior = th["op"].prior
    BY <2>1, RunFacts DEF ThreadStates
  <2> QED
    BY <1>2, <1>4, <2>1, <2>2, ParkKept, OnceOn DEF AllOnce
<1> QED
  BY <1>1, <1>3, <1>4 DEF RestoreLoop

(* What every step of a lifecycle call starts from.                        *)
LEMMA OnceFacts ==
    ASSUME Inductive, AllOnce
    PROVE  /\ rt \in Runtimes /\ Remembered(rt) /\ gov \in Govs /\ OnceGov(gov) /\ OnceDisk(disk)
           /\ th["op"] \in ThreadStates /\ Once(th["op"].snap) /\ OnceGov(th["op"].prior)
           /\ th["op"].prior \in Govs /\ th["op"].snap \in Snapshots /\ disk \in Disks(blessed, Known(registry))
           /\ Resting \in ThreadStates /\ registry \in Registries
           /\ th["op"].pc # "idle" => up # "down"
BY RunFacts, ThreadFacts, SoundTyped DEF AllOnce, Inductive, SoundRegistries, ThreadStates

(* activate *)
LEMMA ActivateStartOnce ==
    ASSUME VersionsClash, Inductive, LockInv, AllRun, AllOnce, NEW c \in Candidates, ActivateStart(c)
    PROVE  AllOnce'
<1>1. up' = "up" /\ Calm(rt)
  BY IdleCall, PointCalm DEF ActivateStart, LifecycleIdle
<1>2. PICK g : g = [gov EXCEPT !.state = "activation-pending", !.pending = c, !.target = gov.lkg]
  OBVIOUS
<1>3. /\ g.current = gov.current /\ g.lkg = gov.lkg /\ g.target = gov.lkg
      /\ DOMAIN g = DOMAIN gov /\ "state" \in DOMAIN g
  BY <1>2, OnceFacts DEF Govs
<1>4. OnceGov(g)
  BY <1>3, OnceFacts DEF OnceGov
<1>5. PICK rec : rec = [Resting EXCEPT !.pc = "prepare", !.cand = c, !.snap = gov.lkg, !.prior = gov,
                                  !.wait = c \notin rt.generated,
                                  !.start = IF c \in rt.generated THEN None ELSE c]
  OBVIOUS
<1>6. Once(rec.snap) /\ OnceGov(rec.prior)
  BY <1>5, OnceFacts DEF ThreadStates, OnceGov
<1>7. CASE /\ disk' = FileOf(registry, approvals, g) /\ gov' = [g EXCEPT !.state = "activating"]
           /\ rt' = Park(rt, c, Evolves(c)) /\ Goto("op", rec)
  <2>1. PICK h : h = gov'
    OBVIOUS
  <2>2. h.current = g.current /\ h.lkg = g.lkg /\ h.target = g.target
    BY <1>2, <1>7, <2>1, OnceFacts DEF Govs
  <2>3. OnceGov(gov') /\ OnceDisk(disk')
    BY <1>4, <1>7, <2>1, <2>2, WholeOnce DEF OnceGov
  <2>4. Remembered(rt')
    BY <1>1, <1>7, OnceFacts, ParkKept
  <2> QED
    BY <1>1, <1>6, <1>7, <2>3, <2>4, OnceOn
<1>8. CASE gov' = g /\ rt' = rt /\ FlushLost
  BY <1>1, <1>4, <1>8, OnceFacts, LostOnce
<1> QED
  BY <1>2, <1>5, <1>7, <1>8 DEF ActivateStart

LEMMA ActivatePreparedOnce ==
    ASSUME Inductive, AllOnce, AllRun, ActivatePrepared
    PROVE  AllOnce'
<1>1. PICK c : c = th["op"].cand
  OBVIOUS
<1>2. th["op"].pc = "prepare" /\ gov' = gov /\ c \in Candidates /\ up' = up /\ up # "down"
  BY <1>1, Preparing, OnceFacts DEF ActivatePrepared
<1>3. ASSUME NEW r \in Prepared(c)
      PROVE  r \in Runtimes /\ Remembered(r)
  <2>1. Started(rt, c) \in Runtimes
    BY <1>2, OnceFacts DEF Started, Runtimes
  <2> QED
    BY <1>2, <1>3, <2>1, OnceFacts, StartedKept DEF Prepared
<1>4. ASSUME NEW r \in Prepared(c), Flush, rt' = r,
             Goto("op", [th["op"] EXCEPT !.pc = "health", !.wait = TRUE, !.start = None])
      PROVE  AllOnce'
  <2>1. PICK rec : rec = [th["op"] EXCEPT !.pc = "health", !.wait = TRUE, !.start = None]
    OBVIOUS
  <2>2. rec.snap = th["op"].snap /\ rec.prior = th["op"].prior
    BY <2>1, OnceFacts DEF ThreadStates
  <2> QED
    BY <1>2, <1>3, <1>4, <2>1, <2>2, OnceFacts, FlushOnce, OnceOn
<1>5. ASSUME NEW r \in Prepared(c), FlushAnswered(gov),
             Restoring("op", th["op"], "undo", th["op"].snap, registry, r)
      PROVE  AllOnce'
  BY <1>2, <1>3, <1>5, OnceFacts, AnsweredOnce, RestoringOnce
<1>6. ASSUME NEW clash \in Clashes(c), th["op"].start = c, disk' = disk,
             Restoring("op", th["op"], "undo", th["op"].snap, registry, StartFailed(rt, c, clash))
      PROVE  AllOnce'
  <2>1. clash \in BOOLEAN
    BY DEF Clashes
  <2>2. PICK r : r = StartFailed(rt, c, clash)
    OBVIOUS
  <2>3. r \in Runtimes /\ Remembered(r)
    BY <1>2, <2>1, <2>2, OnceFacts, StartFailedKept, StartFailedType
  <2> QED
    BY <1>2, <1>6, <2>2, <2>3, OnceFacts, RestoringOnce
<1> QED
  BY <1>1, <1>4, <1>5, <1>6 DEF ActivatePrepared

LEMMA ActivateHealthyOnce ==
    ASSUME Inductive, AllOnce, ActivateHealthy \/ ActivateUnhealthy
    PROVE  AllOnce'
<1>1. gov' = gov /\ disk' = disk /\ up' = up /\ up # "down"
  BY OnceFacts DEF ActivateHealthy, ActivateUnhealthy
<1>2. ASSUME NEW reg, Restoring("op", th["op"], "undo", th["op"].snap, reg, rt)
      PROVE  AllOnce'
  BY <1>1, <1>2, OnceFacts, RestoringOnce
<1>3. ASSUME NEW c, rt' = DiscardParked(rt, {c}),
             Goto("op", [th["op"] EXCEPT !.pc = "commit", !.wait = rt.parked[c] # {}])
      PROVE  AllOnce'
  <2>1. PICK rec : rec = [th["op"] EXCEPT !.pc = "commit", !.wait = rt.parked[c] # {}]
    OBVIOUS
  <2>2. rec.snap = th["op"].snap /\ rec.prior = th["op"].prior
    BY <2>1, OnceFacts DEF ThreadStates
  <2> QED
    BY <1>1, <1>3, <2>1, <2>2, OnceFacts, DiscardKept, OnceOn
<1>4. ASSUME ActivateUnhealthy
      PROVE  AllOnce'
  BY <1>2, <1>4 DEF ActivateUnhealthy
<1>5. ASSUME ActivateHealthy
      PROVE  AllOnce'
  <2>1. PICK c : c = th["op"].cand
    OBVIOUS
  <2>2. \/ /\ rt' = DiscardParked(rt, {c})
           /\ Goto("op", [th["op"] EXCEPT !.pc = "commit", !.wait = rt.parked[c] # {}])
        \/ Restoring("op", th["op"], "undo", th["op"].snap, registry', rt)
    BY <1>5, <2>1 DEF ActivateHealthy
  <2> QED
    BY <1>2, <1>3, <2>2
<1> QED
  BY <1>4, <1>5

LEMMA ActivateCommittedOnce ==
    ASSUME VersionsClash, Inductive, AllOnce, AllRun, ActivateCommitted
    PROVE  AllOnce'
<1>1. PICK c : c = th["op"].cand
  OBVIOUS
<1>2. th["op"].pc = "commit" /\ c \in rt.live /\ Calm(rt) /\ c \in Candidates /\ up' = up /\ up # "down"
  BY <1>1, OnceFacts, RunFacts, PointCalm DEF ActivateCommitted, AllRun, Runs
<1>3. PICK p : p = Mounted(rt, c)
  OBVIOUS
<1>4. c \in rt.recipes
  BY <1>2, OnceFacts DEF Remembered
<1>5. /\ Remembered(p) /\ p.generated = rt.generated /\ p.live = rt.live
      /\ p.mounted = rt.mounted \cup {c} /\ p.parked = rt.parked /\ p \in Runtimes
  <2>1. p \in Runtimes
    BY <1>2, <1>3, OnceFacts DEF Mounted, Runtimes
  <2> QED
    BY <1>3, <1>4, <2>1, OnceFacts, MountedKept
<1>6. Calm(p)
  BY <1>2, <1>5 DEF Calm
<1>7. PICK done : done = Capture(registry, p)
  OBVIOUS
<1>8. Once(done)
  BY <1>6, <1>7, CapturedOnce
<1>9. PICK h : h = gov'
  OBVIOUS
<1>10. h.current = done /\ h.lkg = done /\ h.target = gov.target
  BY <1>1, <1>3, <1>7, <1>9, OnceFacts DEF ActivateCommitted, Govs
<1>11. OnceGov(gov')
  BY <1>8, <1>9, <1>10, OnceFacts DEF OnceGov
<1>12. CASE rt' = p /\ Release /\ Flush
  BY <1>2, <1>5, <1>11, <1>12, FlushOnce, RestOnce DEF Release
<1>13. CASE Restoring("op", th["op"], "undo", th["op"].snap, registry, p) /\ FlushAnswered(gov')
  BY <1>2, <1>5, <1>11, <1>13, OnceFacts, AnsweredOnce, RestoringOnce
<1> QED
  BY <1>1, <1>3, <1>12, <1>13 DEF ActivateCommitted

LEMMA ActivateUndoneOnce ==
    ASSUME VersionsClash, Inductive, AllOnce, AllRun, ActivateUndone
    PROVE  AllOnce'
<1>1. th["op"].pc = "undo" /\ Calm(rt) /\ up' = up /\ up # "down" /\ rt' = rt
  BY OnceFacts, PointCalm DEF ActivateUndone
<1>2. PICK h : h = gov'
  OBVIOUS
<1>3. h.current = Capture(registry', rt) /\ h.lkg = th["op"].snap /\ h.target = gov.target
  BY <1>2, OnceFacts DEF ActivateUndone, Govs
<1>4. OnceGov(gov')
  BY <1>1, <1>2, <1>3, OnceFacts, CapturedOnce DEF OnceGov
<1> QED
  BY <1>1, <1>4, OnceFacts, FlushOnce, RestOnce, LostOnce DEF ActivateUndone, Release

(* rollback *)
LEMMA StartRollbackOnce ==
    ASSUME Inductive, AllOnce, NEW g, NEW prior, StartRollback(g, prior, rt), OnceGov(g), OnceGov(prior),
           OnceGov(gov'), OnceDisk(disk'), up' # "down", prior \in Govs
    PROVE  AllOnce'
<1>1. PICK here : here = [Resting EXCEPT !.prior = prior, !.cand = None]
  OBVIOUS
<1>2. here \in ThreadStates /\ here.prior = prior
  BY <1>1, OnceFacts DEF ThreadStates
<1>3. PICK snap : snap = Fallback(g)
  OBVIOUS
<1>4. Once(snap)
  BY <1>3, FallbackOnce
<1> QED
  BY <1>1, <1>2, <1>3, <1>4, OnceFacts, RestoringOnce DEF StartRollback

LEMMA RollbackOnce ==
    ASSUME VersionsClash, Inductive, AllOnce, Rollback
    PROVE  AllOnce'
<1>1. PICK g : g = [gov EXCEPT !.state = "rollback-pending"]
  OBVIOUS
<1>2. g \in Govs /\ g.current = gov.current /\ g.lkg = gov.lkg /\ g.target = gov.target
  BY <1>1, OnceFacts DEF Govs, ActivationStates
<1>3. OnceGov(g)
  BY <1>2, OnceFacts DEF OnceGov
<1>4. CASE StartRollback(g, gov, rt) /\ Flush
  BY <1>1, <1>3, <1>4, OnceFacts, FlushOnce, StartRollbackOnce DEF Rollback, LifecycleIdle
<1>5. CASE rt' = rt /\ FlushLost
  BY <1>1, <1>3, <1>5, OnceFacts, LostOnce DEF Rollback, LifecycleIdle
<1> QED
  BY <1>1, <1>4, <1>5 DEF Rollback

LEMMA RecoveringOnce ==
    ASSUME Inductive, AllOnce, NEW g, NEW reg, Recovering(th["op"], g, reg, rt), OnceGov(g),
           OnceDisk(disk'), up' = up, up # "down"
    PROVE  AllOnce'
<1>1. PICK snap : snap = th["op"].prior.current
  OBVIOUS
<1>2. Once(snap) /\ gov' = g
  BY <1>1, OnceFacts DEF OnceGov, Recovering
<1> QED
  BY <1>1, <1>2, OnceFacts, RestoringOnce DEF Recovering

LEMMA RollbackRestoredOnce ==
    ASSUME Inductive, AllOnce, AllRun, RollbackRestored
    PROVE  AllOnce'
<1>1. th["op"].pc = "rollback" /\ Calm(rt) /\ up' = up /\ up # "down"
  BY OnceFacts, PointCalm DEF RollbackRestored
<1>2. PICK target : target = th["op"].snap
  OBVIOUS
<1>3. PICK back : back = [gov EXCEPT !.lkg = target, !.current = target, !.state = "rolled-back",
                                    !.pending = None]
  OBVIOUS
<1>4. /\ back \in Govs /\ back.current = target /\ back.lkg = target /\ back.target = gov.target
  BY <1>2, <1>3, OnceFacts DEF Govs, ActivationStates
<1>5. OnceGov(back)
  BY <1>2, <1>4, OnceFacts DEF OnceGov
<1>6. PICK reg : reg = RestoredRegistry("op")
  OBVIOUS
<1>7. CASE Remounting("op", th["op"], "rollback", reg, back, rt, disk)
  BY <1>1, <1>4, <1>5, <1>7, OnceFacts, RemountingOnce
<1>8. CASE Recovering(th["op"], gov, reg, rt) /\ SaveRegistry(disk)
  BY <1>1, <1>8, OnceFacts, SavedOnce, RecoveringOnce
<1> QED
  BY <1>2, <1>3, <1>6, <1>7, <1>8 DEF RollbackRestored

LEMMA RollbackMountedOnce ==
    ASSUME VersionsClash, Inductive, AllOnce, AllRun, RollbackMounted
    PROVE  AllOnce'
<1>1. th["op"].pc = "mounted" /\ Calm(rt) /\ up' = up /\ up # "down"
  BY OnceFacts, PointCalm DEF RollbackMounted
<1>2. PICK ok : ok = Restored(registry, th["op"].snap)
  OBVIOUS
<1>3. PICK snap : snap = Capture(registry, rt)
  OBVIOUS
<1>4. ok \in BOOLEAN /\ Once(snap) /\ snap \in SoundSnapshots(Known(registry))
  BY <1>1, <1>2, <1>3, OnceFacts, CapturedOnce, CaptureSound DEF Restored, Inductive
<1>5. PICK done : done = [gov EXCEPT !.current = snap, !.integrity = ok]
  OBVIOUS
<1>6. done \in SoundGovs(Known(registry))
  BY <1>4, <1>5 DEF Inductive, SoundGovs
<1>7. done \in Govs /\ OnceGov(done)
  <2>1. done.current = snap /\ done.lkg = gov.lkg /\ done.target = gov.target
    BY <1>5, OnceFacts DEF Govs
  <2> QED
    BY <1>4, <1>6, <2>1, OnceFacts, SoundTyped DEF OnceGov
<1>8. PICK d : d = FileOf(registry, approvals, done)
  OBVIOUS
<1>9. CASE Remounting("op", Resting, "boot", registry, done, rt, d)
  <2>1. d \in Disks(blessed, Known(registry)) /\ OnceDisk(d)
    BY <1>6, <1>7, <1>8, FileSound, WholeOnce DEF Inductive
  <2> QED
    BY <1>1, <1>7, <1>9, <2>1, OnceFacts, RestingOnce, RemountingOnce
<1>10. CASE gov' = done /\ rt' = rt /\ Release /\ Flush
  BY <1>1, <1>7, <1>10, OnceFacts, FlushOnce, RestOnce DEF Release
<1>11. CASE Recovering(th["op"], done, registry, rt) /\ (SaveRegistry(disk) \/ FlushAnswered(done))
  <2>1. OnceDisk(disk')
    BY <1>7, <1>11, OnceFacts, SavedOnce, AnsweredOnce
  <2> QED
    BY <1>1, <1>7, <1>11, <2>1, RecoveringOnce
<1> QED
  BY <1>2, <1>3, <1>5, <1>8, <1>9, <1>10, <1>11 DEF RollbackMounted

(* The process ends.                                                       *)
LEMMA HaltOnce ==
    ASSUME VersionsClash, Halt, OnceGov(gov'), OnceDisk(disk')
    PROVE  AllOnce'
<1>1. th'["op"] = Resting /\ rt' = FreshRuntime /\ up' = "down"
  BY DEF Halt, Threads
<1> QED
  BY <1>1, RestingOnce, FreshRemembered DEF AllOnce

(* With what it has on disk.                                               *)
LEMMA DieOnce ==
    ASSUME VersionsClash, Inductive, AllOnce, Die
    PROVE  AllOnce'
<1>1. disk \in Disks(blessed, Known(registry)) /\ OnceDisk(disk)
  BY DEF Inductive, AllOnce
<1>2. disk'.gov = disk.gov /\ disk'.store.gov = disk.gov /\ gov' = disk.gov
  BY <1>1 DEF Die, Disks, Sections
<1> QED
  BY <1>1, <1>2, HaltOnce DEF OnceDisk, Die

LEMMA RollbackRecoveredOnce ==
    ASSUME VersionsClash, Inductive, AllOnce, AllRun, RollbackRecovered
    PROVE  AllOnce'
<1>1. th["op"].pc = "recover" /\ Calm(rt) /\ up # "down"
  BY OnceFacts, PointCalm DEF RollbackRecovered
<1>2. PICK reg : reg = RestoredRegistry("op")
  OBVIOUS
<1>3. CASE /\ gov' = IF th["op"].ok THEN [th["op"].prior EXCEPT !.pending = gov.pending] ELSE gov
           /\ \/ Flush /\ Halt
              \/ Flush /\ Rest("op") /\ UNCHANGED <<up, rt>>
              \/ FlushLost /\ UNCHANGED <<up, rt>>
  <2>1. PICK prior : prior = th["op"].prior
    OBVIOUS
  <2>2. PICK h : h = gov'
    OBVIOUS
  <2>3. th["op"].ok => h.current = prior.current /\ h.lkg = prior.lkg /\ h.target = prior.target
    BY <1>3, <2>1, <2>2, OnceFacts DEF Govs
  <2>4. OnceGov(gov')
    BY <1>3, <2>1, <2>2, <2>3, OnceFacts DEF OnceGov
  <2> QED
    BY <1>1, <1>3, <2>4, OnceFacts, FlushOnce, HaltOnce, RestOnce, LostOnce
<1>4. CASE FailingClosed("op", th["op"], "shut", reg, gov, rt) /\ up' = up
           /\ disk' = FileOf(registry', approvals, gov)
  BY <1>1, <1>4, OnceFacts, WholeOnce, FailingClosedOnce
<1>5. CASE Die
  BY <1>5, DieOnce
<1> QED
  BY <1>2, <1>3, <1>4, <1>5 DEF RollbackRecovered

LEMMA RollbackClosedOnce ==
    ASSUME VersionsClash, Inductive, AllOnce, AllRun, RollbackClosed
    PROVE  AllOnce'
<1>1. th["op"].pc = "shut" /\ up' = up /\ up # "down"
  BY OnceFacts DEF RollbackClosed
<1>2. PICK r : r = Dropped(rt, th["op"].drop)
  OBVIOUS
<1>3. Calm(r) /\ r \in Runtimes /\ Remembered(r)
  BY <1>1, <1>2, OnceFacts, StoppedCalm, DroppedKept DEF Stops
<1>4. PICK failure : failure = Failure(Blamed(gov), FALSE, TRUE)
  OBVIOUS
<1>5. PICK closed : closed = [gov EXCEPT !.failure = failure]
  OBVIOUS
<1>6. closed \in SoundGovs(Known(registry))
  <2>1. failure \in Failures
    BY <1>4, FailureTyped DEF Inductive
  <2> QED
    BY <1>5, <2>1 DEF Inductive, SoundGovs
<1>7. closed \in Govs /\ OnceGov(closed)
  <2>1. closed.current = gov.current /\ closed.lkg = gov.lkg /\ closed.target = gov.target
    BY <1>5, OnceFacts DEF Govs
  <2> QED
    BY <1>6, <2>1, OnceFacts, SoundTyped DEF OnceGov
<1>8. PICK d : d = FileOf(registry, approvals, closed)
  OBVIOUS
<1>9. d \in Disks(blessed, Known(registry)) /\ OnceDisk(d)
  BY <1>6, <1>7, <1>8, FileSound, WholeOnce DEF Inductive
<1>10. CASE Remounting("op", Resting, "boot", registry, closed, r, d)
  BY <1>1, <1>3, <1>7, <1>9, <1>10, OnceFacts, RestingOnce, RemountingOnce
<1>11. CASE gov' = closed /\ rt' = r /\ Rest("op") /\ disk' = d
  BY <1>1, <1>3, <1>7, <1>9, <1>11, RestOnce
<1> QED
  BY <1>2, <1>4, <1>5, <1>8, <1>10, <1>11 DEF RollbackClosed

(* The waits of runtime.restore and of the remount.                        *)
LEMMA RestoreDroppedOnce ==
    ASSUME Inductive, AllOnce, AllRun, RestoreDropped("op")
    PROVE  AllOnce'
<1>1. th["op"].pc = "restore" /\ gov' = gov /\ disk' = disk /\ up' = up /\ up # "down"
  BY OnceFacts DEF RestoreDropped
<1>2. PICK r : r = Dropped(rt, th["op"].drop)
  OBVIOUS
<1>3. Calm(r) /\ r \in Runtimes /\ Remembered(r)
  BY <1>1, <1>2, OnceFacts, StoppedCalm, DroppedKept DEF Stops
<1> QED
  BY <1>1, <1>2, <1>3, RestoreLoopOnce DEF RestoreDropped

LEMMA MountedType ==
    ASSUME NEW r \in Runtimes, NEW c \in Candidates
    PROVE  Mounted(r, c) \in Runtimes
BY DEF Mounted, Runtimes

(* What runs once a candidate was started again.                           *)
LEMMA StartedAgain ==
    ASSUME NEW r \in Runtimes, Remembered(r), NEW c \in Candidates, Starting(r, c), NEW p,
           p = Mounted(DiscardParked(Started(r, c), {c}), c)
    PROVE  /\ p \in Runtimes /\ Remembered(p) /\ Calm(p)
           /\ p.live = r.live \cup {c} /\ p.generated = r.generated \cup {c}
           /\ p.recipes = r.recipes \cup {c}
<1>1. PICK q : q = Started(r, c)
  OBVIOUS
<1>2. /\ q \in Runtimes /\ OnTrial(q, c) /\ Remembered(q) /\ q.recipes = r.recipes \cup {c}
      /\ q.generated = r.generated \cup {c} /\ q.live = r.live \cup {c}
  BY <1>1, StartedOnTrial, StartedKept DEF Started, Runtimes
<1>3. PICK s : s = DiscardParked(q, {c})
  OBVIOUS
<1>4. /\ s \in Runtimes /\ Remembered(s) /\ s.recipes = q.recipes /\ s.generated = q.generated
      /\ s.live = q.live
  BY <1>2, <1>3, StopTypes, DiscardKept
<1>5. p = Mounted(s, c)
  BY <1>1, <1>3
<1>6. c \in s.recipes
  BY <1>2, <1>4
<1>7. /\ Remembered(p) /\ p.recipes = s.recipes /\ p.generated = s.generated /\ p.live = s.live
  BY <1>4, <1>5, <1>6, MountedKept
<1>8. p \in Runtimes
  BY <1>4, <1>5, MountedType
<1>9. Calm(p)
  BY <1>2, <1>3, <1>5, CommittedCalm
<1> QED
  BY <1>2, <1>4, <1>7, <1>8, <1>9

LEMMA RestoreStartedOnce ==
    ASSUME Inductive, AllOnce, AllRun, RestoreStarted("op")
    PROVE  AllOnce'
<1>1. PICK c : c = th["op"].start
  OBVIOUS
<1>2. /\ th["op"].pc = "restart" /\ gov' = gov /\ disk' = disk /\ up' = up /\ up # "down"
      /\ c \in Candidates /\ Starting(rt, c)
  BY <1>1, OnceFacts, RunFacts, ThreadFacts DEF RestoreStarted, Placed, AllRun, Runs, Starts
<1>3. PICK r : r = Mounted(DiscardParked(Started(rt, c), {c}), c)
  OBVIOUS
<1>4. CASE RestoreLoop("op", r)
  BY <1>2, <1>3, <1>4, OnceFacts, StartedAgain, RestoreLoopOnce
<1>5. CASE rt' = StartFailed(rt, c, FALSE) /\ Goto("op", RestoreEnded(th["op"], FALSE))
  <2>1. PICK rec : rec = RestoreEnded(th["op"], FALSE)
    OBVIOUS
  <2>2. rec.snap = th["op"].snap /\ rec.prior = th["op"].prior
    BY <2>1, OnceFacts DEF RestoreEnded, ThreadStates
  <2> QED
    BY <1>2, <1>5, <2>1, <2>2, OnceFacts, StartFailedKept, OnceOn
<1> QED
  BY <1>1, <1>3, <1>4, <1>5 DEF RestoreStarted

LEMMA MountNextOnce ==
    ASSUME Inductive, AllOnce, AllRun, MountNext("op")
    PROVE  AllOnce'
<1>1. PICK c \in th["op"].todo :
          /\ th["op"].pc = "mount" /\ gov' = gov /\ disk' = disk /\ up' = up
          /\ \/ /\ c \in rt.generated
                /\ rt' = Mounted(DiscardParked(rt, {c}), c)
                /\ Goto("op", [th["op"] EXCEPT !.todo = @ \ {c}])
             \/ /\ rt' = Park(rt, c, Evolves(c))
                /\ Goto("op", [th["op"] EXCEPT !.pc = "mounting", !.wait = TRUE, !.todo = @ \ {c}, !.start = c])
  BY DEF MountNext
<1>2. up # "down" /\ c \in Candidates /\ Calm(rt)
  BY <1>1, OnceFacts, RunFacts, ThreadFacts, PointCalm DEF Placed
<1>3. ASSUME NEW rec, Goto("op", rec), rec.snap = th["op"].snap, rec.prior = th["op"].prior, Remembered(rt')
      PROVE  AllOnce'
  BY <1>1, <1>2, <1>3, OnceFacts, OnceOn
<1>4. CASE /\ c \in rt.generated
           /\ rt' = Mounted(DiscardParked(rt, {c}), c)
           /\ Goto("op", [th["op"] EXCEPT !.todo = @ \ {c}])
  <2>1. PICK rec : rec = [th["op"] EXCEPT !.todo = @ \ {c}]
    OBVIOUS
  <2>2. rec.snap = th["op"].snap /\ rec.prior = th["op"].prior
    BY <2>1, OnceFacts DEF ThreadStates
  <2>3. PICK q : q = DiscardParked(rt, {c})
    OBVIOUS
  <2>4. q \in Runtimes /\ Remembered(q) /\ q.recipes = rt.recipes
    BY <2>3, OnceFacts, StopTypes, DiscardKept
  <2>5. c \in q.recipes
    BY <1>4, <2>4, OnceFacts DEF Remembered
  <2>6. Remembered(rt')
    BY <1>4, <2>3, <2>4, <2>5, MountedKept
  <2> QED
    BY <1>3, <1>4, <2>1, <2>2, <2>6
<1>5. CASE /\ rt' = Park(rt, c, Evolves(c))
           /\ Goto("op", [th["op"] EXCEPT !.pc = "mounting", !.wait = TRUE, !.todo = @ \ {c}, !.start = c])
  <2>1. PICK rec : rec = [th["op"] EXCEPT !.pc = "mounting", !.wait = TRUE, !.todo = @ \ {c}, !.start = c]
    OBVIOUS
  <2>2. rec.snap = th["op"].snap /\ rec.prior = th["op"].prior
    BY <2>1, OnceFacts DEF ThreadStates
  <2>3. Remembered(rt')
    BY <1>2, <1>5, OnceFacts, ParkKept
  <2> QED
    BY <1>3, <1>5, <2>1, <2>2, <2>3
<1> QED
  BY <1>1, <1>4, <1>5

LEMMA MountStartedOnce ==
    ASSUME Inductive, AllOnce, AllRun, MountStarted("op")
    PROVE  AllOnce'
<1>1. PICK c : c = th["op"].start
  OBVIOUS
<1>2. /\ th["op"].pc = "mounting" /\ gov' = gov /\ disk' = disk /\ up' = up /\ up # "down"
      /\ c \in Candidates /\ Starting(rt, c)
  BY <1>1, OnceFacts, RunFacts, ThreadFacts DEF MountStarted, Placed, AllRun, Runs, Starts
<1>3. CASE /\ rt' = Mounted(DiscardParked(Started(rt, c), {c}), c)
           /\ Goto("op", [th["op"] EXCEPT !.pc = "mount", !.wait = FALSE, !.start = None])
  <2>1. PICK rec : rec = [th["op"] EXCEPT !.pc = "mount", !.wait = FALSE, !.start = None]
    OBVIOUS
  <2>2. rec.snap = th["op"].snap /\ rec.prior = th["op"].prior
    BY <2>1, OnceFacts DEF ThreadStates
  <2>3. Remembered(rt')
    BY <1>2, <1>3, OnceFacts, StartedAgain
  <2> QED
    BY <1>2, <1>3, <2>1, <2>2, <2>3, OnceFacts, OnceOn
<1>4. ASSUME NEW clash \in Clashes(c),
             Restoring("op", th["op"], "clear", [owners |-> th["op"].snap.owners, mounted |-> {}], registry,
                       StartFailed(rt, c, clash))
      PROVE  AllOnce'
  <2>1. clash \in BOOLEAN
    BY DEF Clashes
  <2>2. PICK r : r = StartFailed(rt, c, clash)
    OBVIOUS
  <2>3. r \in Runtimes /\ Remembered(r)
    BY <1>2, <2>1, <2>2, OnceFacts, StartFailedKept, StartFailedType
  <2>4. PICK snap : snap = [owners |-> th["op"].snap.owners, mounted |-> {}]
    OBVIOUS
  <2>5. Once(snap)
    BY <2>4 DEF Once, OneEach
  <2> QED
    BY <1>2, <1>4, <2>2, <2>3, <2>4, <2>5, OnceFacts, RestoringOnce
<1> QED
  BY <1>1, <1>3, <1>4 DEF MountStarted

LEMMA MountsDoneOnce ==
    ASSUME Inductive, AllOnce, AllRun, MountsDone("op")
    PROVE  AllOnce'
<1>1. th["op"].pc = "mount" /\ Calm(rt) /\ rt' = rt /\ up' = up /\ up # "down"
  BY OnceFacts, PointCalm DEF MountsDone
<1>2. PICK rec : rec = [th["op"] EXCEPT !.pc = "mounted", !.wait = FALSE]
  OBVIOUS
<1>3. rec.snap = th["op"].snap /\ rec.prior = th["op"].prior
  BY <1>2, OnceFacts DEF ThreadStates
<1>4. OnceGov(gov') /\ OnceDisk(disk')
  <2>1. CASE gov' = gov /\ disk' = disk
    BY <2>1, OnceFacts
  <2>2. CASE gov' = Adopted(gov, Capture(registry, rt)) /\ Flush
    <3>1. PICK h : h = gov'
      OBVIOUS
    <3>2. PICK now : now = Capture(registry, rt)
      OBVIOUS
    <3>3. h.current = now /\ h.lkg = now /\ h.target = now
      BY <2>2, <3>1, <3>2, OnceFacts DEF Adopted, Govs
    <3>4. OnceGov(gov')
      BY <1>1, <3>1, <3>2, <3>3, CapturedOnce DEF OnceGov
    <3> QED
      BY <2>2, <3>4, FlushOnce
  <2> QED
    BY <2>1, <2>2 DEF MountsDone
<1> QED
  BY <1>1, <1>2, <1>3, <1>4, OnceFacts, OnceOn DEF MountsDone

LEMMA MountsClearedOnce ==
    ASSUME Inductive, AllOnce, AllRun, MountsCleared("op")
    PROVE  AllOnce'
<1>1. th["op"].pc = "clear" /\ Calm(rt) /\ up' = up /\ up # "down" /\ OnceDisk(disk')
  BY OnceFacts, PointCalm, SavedOnce DEF MountsCleared
<1> QED
  BY <1>1, OnceFacts, FailingClosedOnce DEF MountsCleared

LEMMA ClosedOnce ==
    ASSUME Inductive, AllOnce, Closed("op")
    PROVE  AllOnce'
<1>1. th["op"].pc = "close" /\ up' = up /\ up # "down"
  BY OnceFacts DEF Closed
<1>2. PICK rec : rec = [th["op"] EXCEPT !.pc = "mounted", !.wait = FALSE, !.drop = {}]
  OBVIOUS
<1>3. rec.snap = th["op"].snap /\ rec.prior = th["op"].prior
  BY <1>2, OnceFacts DEF ThreadStates
<1>4. PICK h : h = gov'
  OBVIOUS
<1>5. h.current = gov.current /\ h.lkg = gov.lkg /\ h.target = gov.target
  BY <1>4, OnceFacts DEF Closed, Govs
<1>6. OnceGov(gov') /\ OnceDisk(disk')
  <2>1. OnceGov(gov')
    BY <1>4, <1>5, OnceFacts DEF OnceGov
  <2> QED
    BY <2>1, FlushOnce DEF Closed
<1> QED
  BY <1>1, <1>2, <1>3, <1>6, OnceFacts, DroppedKept, OnceOn DEF Closed

(* Safe Mode, disable, uninstall.                                          *)
LEMMA SafeModeOnce ==
    ASSUME VersionsClash, Inductive, LockInv, AllOnce, AllRun, EnterSafeMode \/ SafeModeEntered \/ ExitSafeMode
    PROVE  AllOnce'
<1>1. CASE EnterSafeMode
  <2>1. up' = "up" /\ Calm(rt) /\ OnceDisk(disk')
    BY <1>1, OnceFacts, IdleCall, PointCalm, SavedOnce DEF EnterSafeMode, LifecycleIdle
  <2>2. PICK h : h = gov'
    OBVIOUS
  <2>3. h.current = Capture(registry', rt) /\ h.lkg = gov.lkg /\ h.target = gov.target
    BY <1>1, <2>2, OnceFacts DEF EnterSafeMode, Govs
  <2>4. OnceGov(gov')
    BY <2>1, <2>2, <2>3, OnceFacts, CapturedOnce DEF OnceGov
  <2>5. PICK rec : rec = [Resting EXCEPT !.pc = "safe", !.wait = UnloadWaits(rt, Candidates),
                                         !.drop = rt.generated]
    OBVIOUS
  <2>6. rec.snap = Resting.snap /\ rec.prior = Resting.prior
    BY <2>5, OnceFacts DEF ThreadStates
  <2> QED
    BY <1>1, <2>1, <2>4, <2>5, <2>6, OnceFacts, RestingOnce, UnloadingKept, OnceOn DEF EnterSafeMode
<1>2. CASE SafeModeEntered
  <2>1. up' # "down" /\ gov' = gov /\ OnceDisk(disk') /\ Remembered(rt')
    BY <1>2, OnceFacts, DroppedKept, FlushOnce DEF SafeModeEntered
  <2> QED
    BY <1>2, <2>1, OnceFacts, RestOnce DEF SafeModeEntered
<1>3. CASE ExitSafeMode
  <2>1. Calm(rt)
    BY <1>3, IdleCall, PointCalm DEF ExitSafeMode
  <2>2. PICK h : h = gov'
    OBVIOUS
  <2>3. h.current = Capture(registry, rt) /\ h.lkg = gov.lkg /\ h.target = gov.target
    BY <1>3, <2>2, OnceFacts DEF ExitSafeMode, Govs
  <2>4. OnceGov(gov')
    BY <2>1, <2>2, <2>3, OnceFacts, CapturedOnce DEF OnceGov
  <2> QED
    BY <1>3, <2>4, FlushOnce DEF ExitSafeMode, AllOnce
<1> QED
  BY <1>1, <1>2, <1>3

LEMMA RemoveStartOnce ==
    ASSUME VersionsClash, Inductive, AllOnce, NEW x, NEW kind, RemoveStart(x, kind)
    PROVE  AllOnce'
<1>1. up' = "up" /\ gov' = gov /\ disk' = disk
  BY DEF RemoveStart, LifecycleIdle
<1>2. PICK unload : unload = {x} \cap Candidates
  OBVIOUS
<1>3. PICK rec : rec = [Resting EXCEPT !.pc = kind, !.wait = UnloadWaits(rt, unload), !.todo = {x},
                                       !.drop = unload \cap rt.generated, !.prior = gov]
  OBVIOUS
<1>4. rec.snap = Resting.snap /\ rec.prior = gov
  BY <1>3, OnceFacts DEF ThreadStates
<1> QED
  BY <1>1, <1>2, <1>3, <1>4, OnceFacts, RestingOnce, UnloadingKept, OnceOn DEF RemoveStart

LEMMA RemovedOnce ==
    ASSUME VersionsClash, Inductive, AllOnce, AllRun, Removed
    PROVE  AllOnce'
<1>1. th["op"].pc \in {"disable", "uninstall"} /\ up' = up /\ up # "down"
  BY OnceFacts DEF Removed
<1>2. PICK r : r = Dropped(rt, th["op"].drop)
  OBVIOUS
<1>3. Calm(r) /\ r \in Runtimes /\ Remembered(r)
  BY <1>1, <1>2, OnceFacts, StoppedCalm, DroppedKept DEF Stops
<1>4. PICK reg : reg = SetStatus(registry, th["op"].todo, "disabled")
  OBVIOUS
<1>5. PICK snap : snap = Capture(reg, r)
  OBVIOUS
<1>6. Once(snap) /\ snap \in Snapshots
  <2>1. snap.owners \subseteq Rows /\ snap = [owners |-> Active(reg), mounted |-> r.mounted]
    BY <1>5 DEF Capture, Active
  <2>2. r.mounted \subseteq Candidates
    BY <1>3 DEF Runtimes
  <2>3. snap \in Snapshots
    BY <2>1, <2>2 DEF Snapshots
  <2> QED
    BY <1>3, <1>5, <2>3, CapturedOnce
<1>7. PICK g : g = [gov EXCEPT !.current = snap, !.lkg = IF th["op"].pc = "uninstall" THEN snap ELSE @]
  OBVIOUS
<1>8. g \in Govs /\ g.current = snap /\ g.lkg \in {snap, gov.lkg} /\ g.target = gov.target
  BY <1>6, <1>7, OnceFacts DEF Govs
<1>9. OnceGov(g)
  BY <1>6, <1>8, OnceFacts DEF OnceGov
<1>10. CASE gov' = g /\ rt' = r /\ Release /\ Flush
  BY <1>1, <1>3, <1>9, <1>10, FlushOnce, RestOnce DEF Release
<1>11. CASE /\ gov' \in {g, [g EXCEPT !.safeMode = TRUE, !.state = "safe-mode"]} /\ FlushAnswered(g)
            /\ Restoring("op", th["op"], "revert", th["op"].prior.current, registry', r)
  <2>1. PICK h : h = gov'
    OBVIOUS
  <2>2. h.current = g.current /\ h.lkg = g.lkg /\ h.target = g.target
    BY <1>8, <1>11, <2>1 DEF Govs
  <2>3. OnceGov(gov')
    BY <1>9, <2>1, <2>2 DEF OnceGov
  <2>4. PICK back : back = th["op"].prior.current
    OBVIOUS
  <2>5. Once(back)
    BY <2>4, OnceFacts DEF OnceGov
  <2> QED
    BY <1>1, <1>3, <1>9, <1>11, <2>3, <2>4, <2>5, OnceFacts, AnsweredOnce, RestoringOnce
<1> QED
  BY <1>2, <1>4, <1>5, <1>7, <1>10, <1>11 DEF Removed

LEMMA RemoveRevertedOnce ==
    ASSUME VersionsClash, Inductive, AllOnce, RemoveReverted
    PROVE  AllOnce'
<1>1. up' = up /\ up # "down" /\ rt' = rt
  BY OnceFacts DEF RemoveReverted
<1>2. PICK h : h = gov'
  OBVIOUS
<1>3. h.current = th["op"].prior.current /\ h.lkg = th["op"].prior.lkg /\ h.target = gov.target
  BY <1>2, OnceFacts DEF RemoveReverted, Govs
<1>4. OnceGov(gov')
  BY <1>2, <1>3, OnceFacts DEF OnceGov
<1> QED
  BY <1>1, <1>4, OnceFacts, FlushOnce, RestOnce, LostOnce DEF RemoveReverted, Release

(* A step that leaves the calls, the fields and the runners alone.         *)
LEMMA RequestOnce ==
    ASSUME VersionsClash, Inductive, LockInv, AllRun, AllOnce, Request
    PROVE  AllOnce'
<1>1. ASSUME UNCHANGED <<gov, rt, th>>, Flush, up' = "up"
      PROVE  AllOnce'
  BY <1>1, FlushOnce DEF AllOnce
<1>2. ASSUME NEW c \in Candidates, RequestApproval(c) \/ RecordApproval(c, "approved-for-exact-diff")
                                   \/ RecordApproval(c, "rejected")
      PROVE  AllOnce'
  BY <1>1, <1>2 DEF RequestApproval, RecordApproval
<1>3. ASSUME NEW c \in Candidates, AbandonFailedActivation(c)
      PROVE  AllOnce'
  <2>1. PICK h : h = gov'
    OBVIOUS
  <2>2. h.current = gov.current /\ h.lkg = gov.lkg /\ h.target = gov.target
    BY <1>3, <2>1, OnceFacts DEF AbandonFailedActivation, Govs
  <2>3. OnceGov(gov')
    BY <2>1, <2>2, OnceFacts DEF OnceGov
  <2> QED
    BY <1>3, <2>3, FlushOnce DEF AbandonFailedActivation, LifecycleIdle, AllOnce
<1>4. \/ \E c \in Candidates : \/ RequestApproval(c)
                              \/ RecordApproval(c, "approved-for-exact-diff")
                              \/ RecordApproval(c, "rejected")
      \/ \E c \in Candidates : AbandonFailedActivation(c)
      \/ \E c \in Candidates : ActivateStart(c)
      \/ Rollback \/ EnterSafeMode \/ ExitSafeMode
      \/ \E x \in Rows : RemoveStart(x, "disable") \/ RemoveStart(x, "uninstall")
  BY DEF Request
<1> QED
  BY <1>2, <1>3, <1>4, ActivateStartOnce, RollbackOnce, SafeModeOnce, RemoveStartOnce

(* A boot takes up what the file holds.                                    *)
LEMMA BootOnce ==
    ASSUME VersionsClash, Inductive, AllOnce, AllRun, Boot
    PROVE  AllOnce'
<1>1. th["op"].pc = "idle" /\ Calm(rt) /\ up' # "down"
  BY RunFacts, PointCalm DEF Boot, Inductive
<1>2. CASE gov' = gov /\ disk' = disk /\ StartRollback(gov, [gov EXCEPT !.state = "active"], rt)
  <2>1. PICK prior : prior = [gov EXCEPT !.state = "active"]
    OBVIOUS
  <2>2. /\ prior \in Govs /\ prior.current = gov.current /\ prior.lkg = gov.lkg
        /\ prior.target = gov.target
    BY <2>1, OnceFacts DEF Govs, ActivationStates
  <2>3. OnceGov(prior)
    BY <2>2, OnceFacts DEF OnceGov
  <2> QED
    BY <1>1, <1>2, <2>1, <2>2, <2>3, OnceFacts, StartRollbackOnce
<1>3. ASSUME NEW g, NEW d, Remounting("op", Resting, "boot", registry, g, rt, d),
             g \in SoundGovs(Known(registry)), d = [disk EXCEPT !.gov = g, !.store.gov = g],
             g.current = gov.current, g.lkg = gov.lkg, g.target = gov.target
      PROVE  AllOnce'
  <2>1. g \in Govs /\ OnceGov(g)
    BY <1>3, OnceFacts, SoundTyped DEF OnceGov
  <2>2. d \in Disks(blessed, Known(registry)) /\ OnceDisk(d)
    <3>1. registry = disk.registry
      BY DEF Boot, Inductive
    <3> QED
      BY <1>3, <2>1, <3>1, OnceFacts DEF Disks, OnceDisk
  <2> QED
    BY <1>1, <1>3, <2>1, <2>2, OnceFacts, RestingOnce, RemountingOnce
<1>4. PICK broken, g, d :
         /\ broken = (gov.state \in {"activation-pending", "activating"})
         /\ g = IF broken THEN [gov EXCEPT !.state = "activation-failed", !.pending = None,
                                          !.failure = Failure(gov.pending, TRUE, FALSE)]
                          ELSE gov
         /\ d = [disk EXCEPT !.gov = g, !.store.gov = g]
  OBVIOUS
<1>5. \/ /\ g.state = "rollback-pending" /\ gov' = gov /\ disk' = disk
         /\ StartRollback(g, [g EXCEPT !.state = "active"], rt)
      \/ Remounting("op", Resting, "boot", registry, g, rt, d)
  BY <1>4 DEF Boot
<1>6. /\ g \in SoundGovs(Known(registry)) /\ g.current = gov.current /\ g.lkg = gov.lkg
      /\ g.target = gov.target
  <2>1. CASE broken
    <3>1. PICK failure : failure = Failure(gov.pending, TRUE, FALSE)
      OBVIOUS
    <3>2. failure \in Failures
      BY <3>1 DEF Failure, Failures, Inductive, SoundGovs
    <3>3. g = [gov EXCEPT !.state = "activation-failed", !.pending = None, !.failure = failure]
      BY <1>4, <2>1, <3>1
    <3> QED
      BY <3>2, <3>3 DEF Inductive, SoundGovs, ActivationStates
  <2>2. CASE ~broken
    BY <1>4, <2>2 DEF Inductive
  <2> QED
    BY <2>1, <2>2
<1>7. g.state = "rollback-pending" => g = gov
  BY <1>4, OnceFacts DEF Govs
<1> QED
  BY <1>2, <1>3, <1>4, <1>5, <1>6, <1>7

(* Every step keeps the invariant.                                         *)
LEMMA NextOnce ==
    ASSUME VersionsClash, Inductive, LockInv, RunsInv, OnceInv, [Next]_vars
    PROVE  OnceInv'
<1> SUFFICES ASSUME spent'.fatals = 0
             PROVE  AllOnce'
  BY DEF OnceInv
<1>1. AllRun /\ AllOnce /\ \A c \in Candidates : ~RunnerDies(c)
  BY DeathsCounted DEF RunsInv, OnceInv
<1>2. ASSUME NEW t \in Threads, Advance(t)
      PROVE  AllOnce'
  <2>1. CASE t \in Candidates
    BY <1>1, <1>2, <2>1, OpApart DEF AllRun, Advance, FailureStep, FailureRestored,
       FailureHandled, MountStep,
       RestoreDropped, RestoreStarted, MountNext, MountStarted, MountsDone, MountsCleared, Closed
  <2>2. CASE OpStep
    <3>1. CASE Booted
      BY <1>1, <3>1, OnceFacts, RestOnce DEF Booted
    <3> QED
      BY <1>1, <2>2, <3>1, ActivatePreparedOnce, ActivateHealthyOnce,
         ActivateCommittedOnce, ActivateUndoneOnce, RollbackRestoredOnce, RollbackMountedOnce,
         RollbackRecoveredOnce, RollbackClosedOnce, SafeModeOnce, RemovedOnce, RemoveRevertedOnce DEF OpStep
  <2>3. CASE MountStep("op")
    BY <1>1, <2>3, RestoreDroppedOnce, RestoreStartedOnce, MountNextOnce, MountStartedOnce,
       MountsDoneOnce, MountsClearedOnce, ClosedOnce DEF MountStep
  <2> QED
    BY <1>2, <2>1, <2>2, <2>3, OpApart DEF Advance, Threads
<1>3. CASE Environment
  <2>1. Crash => AllOnce'
    BY <1>1, DieOnce DEF Crash
  <2>2. ASSUME NEW c \in Candidates, Tamper(c)
        PROVE  AllOnce'
    BY <1>1, <2>2 DEF Tamper, AllOnce
  <2> QED
    BY <1>1, <1>3, <2>1, <2>2 DEF Environment
<1>4. CASE UNCHANGED vars
  BY <1>1, <1>4 DEF vars, AllOnce
<1> QED
  BY <1>1, <1>2, <1>3, <1>4, RequestOnce, BootOnce DEF Next

(* The invariant holds at first.                                           *)
LEMMA InitOnce ==
    ASSUME VersionsClash, Init
    PROVE  OnceInv
<1>1. PICK kept \in {{}, Legacy} :
         gov = HomeState(kept) /\ disk = FileOf(HomeRegistry(kept), HomeApprovals(kept), HomeState(kept))
  BY DEF Init
<1>2. th["op"] = Resting /\ rt = FreshRuntime
  BY DEF Init, Threads
<1> QED
  BY <1>1, <1>2, HomeOnce, WholeOnce, RestingOnce, FreshRemembered DEF OnceInv, AllOnce

-----------------------------------------------------------------------------
(* How far a restore is: all it can start again runs once it ends.         *)
Raised(rec, r) ==
    /\ rec.pc = "restore" =>
          /\ rec.todo = rec.snap.mounted /\ rec.drop \cap rec.snap.mounted = {}
          /\ rec.ret # "undo" => r.generated \ rec.drop \subseteq rec.snap.mounted
    /\ rec.pc = "restart" /\ rec.ret # "undo" =>
          /\ rec.start \in rec.snap.mounted /\ rec.todo \subseteq rec.snap.mounted
          /\ rec.snap.mounted \cap r.recipes \subseteq r.generated \cup rec.todo \cup {rec.start}
          /\ r.generated \subseteq rec.snap.mounted
    /\ rec.pc \in {"rollback", "recover", "revert", "clear"} /\ rec.ok =>
          r.generated = rec.snap.mounted \cap r.recipes

(* What a rollback to s is to have running.                                *)
Expected(s) == (s.owners \cap Candidates) \ Legacy

(* What the remount has not answered for yet.                              *)
Pend(rec) == rec.todo \cup IF rec.pc = "mounting" THEN {rec.start} ELSE {}

(* The rollback has committed its target, but for what it withholds.       *)
Aimed(rec, g, reg) == g.state = "rolled-back" /\ Active(reg) \cap rec.snap.owners \cap Legacy = {}

(* How far a remount is.                                                   *)
Mounting(rec, g, reg, r, process) ==
    rec.pc \in {"mount", "mounting"} =>
        /\ ~g.safeMode /\ Pend(rec) \subseteq Remountable(g)
        /\ Remountable(g) \subseteq r.live \cup Pend(rec)
        /\ process = "booting" => r.live \subseteq Remountable(g)
        /\ rec.then = "rollback" =>
              /\ Aimed(rec, g, reg) /\ g.current.owners = rec.snap.owners
              /\ r.live \subseteq Remountable(g) \cup rec.snap.mounted
        /\ rec.then = "boot" => process = "booting"
        /\ rec.held \subseteq Committed(g).owners \cap Legacy
        /\ ActiveGenerated(reg) \subseteq Committed(g).owners

(* What runs once it is over.                                              *)
Remounted(rec, g, reg, r, process, s) ==
    rec.pc = "mounted" =>
        /\ process = "booting" /\ g.safeMode => r.live = {}
        /\ ~g.safeMode /\ rec.then = "boot" /\ (rec.held = {} \/ s.faults = 0) => r.live = Remountable(g)
        /\ ~g.safeMode /\ rec.then = "rollback" =>
              /\ Aimed(rec, g, reg)
              /\ Expected(rec.snap) \subseteq r.live
              /\ r.live \subseteq Expected(rec.snap) \cup rec.snap.mounted
              /\ process = "booting" => r.live \subseteq Expected(rec.snap)

(* A home that fails closed runs nothing.                                  *)
Shutting(rec, g, r) == rec.pc \in {"close", "shut"} => g.safeMode /\ r.live = {}

(* A boot that takes up a rollback has nothing to start again.             *)
Early(rec, r, process) ==
    process = "booting" /\ Stage(rec) = "rollback" => rec.pc # "restart" /\ r.recipes = {}

(* What a removal would put back.                                          *)
Removing(rec, g, locked) ==
    /\ rec.pc \in {"disable", "uninstall"} => rec.prior.current = g.current /\ locked = rec.pc
    /\ Stage(rec) = "revert" => rec.snap = rec.prior.current

Ready(rec, g, reg, r, process, locked, s) ==
    /\ Raised(rec, r) /\ Mounting(rec, g, reg, r, process) /\ Remounted(rec, g, reg, r, process, s)
    /\ Shutting(rec, g, r) /\ Early(rec, r, process) /\ Removing(rec, g, locked)

AllReady == up # "down" => Ready(th["op"], gov, registry, rt, up, mutation, spent)

(* The inductive invariant of this part.                                   *)
ReadyInv == spent.fatals = 0 => AllReady

(* The call goes on.                                                       *)
LEMMA ReadyOn ==
    ASSUME Inductive, NEW rec, Goto("op", rec), Ready(rec, gov', registry', rt', up', mutation', spent')
    PROVE  AllReady'
BY RunFacts, Moved DEF AllReady

(* It goes to a point where it relies on nothing that runs.                *)
Plain(rec) == rec.pc \in {"idle", "prepare", "health", "commit", "safe", "undo"}

LEMMA PlainReady ==
    ASSUME NEW rec, Plain(rec), NEW g, NEW reg, NEW r, NEW process, NEW locked, NEW s
    PROVE  Ready(rec, g, reg, r, process, locked, s)
BY DEF Plain, Ready, Raised, Mounting, Remounted, Shutting, Early, Removing, Stage

LEMMA PlainOn ==
    ASSUME Inductive, NEW rec, Goto("op", rec), Plain(rec)
    PROVE  AllReady'
BY PlainReady, ReadyOn

LEMMA RestReady ==
    ASSUME Inductive, Rest("op")
    PROVE  AllReady'
BY RunFacts, PlainOn DEF Rest, Plain

(* A call that ends with an error of the disk.                             *)
LEMMA LostReady ==
    ASSUME Inductive, FlushLost
    PROVE  AllReady'
BY RestReady DEF FlushLost

(* A call that goes into runtime.restore.                                  *)
LEMMA RestoringReady ==
    ASSUME Inductive, NEW here \in ThreadStates, NEW ret, NEW snap, NEW reg, NEW r \in Runtimes,
           Restoring("op", here, ret, snap, reg, r), Remembered(r), ret # "undo" => Calm(r),
           up' = "booting" /\ ret = "rollback" => r.recipes = {},
           ret = "revert" => snap = here.prior.current
    PROVE  AllReady'
<1>1. PICK rec : rec = [here EXCEPT !.pc = "restore", !.wait = RestoreWaits(r, snap), !.ret = ret,
                               !.snap = snap, !.owners = Active(reg), !.todo = snap.mounted,
                               !.drop = Unwanted(r, snap)]
  OBVIOUS
<1>2. /\ rec.pc = "restore" /\ rec.ret = ret /\ rec.snap = snap /\ rec.todo = snap.mounted
      /\ rec.drop = r.generated \ snap.mounted /\ rec.prior = here.prior
  BY <1>1 DEF ThreadStates, Unwanted
<1>3. PICK p : p = rt'
  OBVIOUS
<1>4. p.recipes = r.recipes /\ (Calm(r) => p.generated \subseteq r.generated)
  BY <1>3, BeginRestoreKept DEF Restoring
<1>5. Raised(rec, p)
  BY <1>2, <1>4 DEF Raised
<1>6. Early(rec, p, up') /\ Removing(rec, gov', mutation')
  BY <1>2, <1>4 DEF Early, Removing, Stage
<1>7. Ready(rec, gov', registry', p, up', mutation', spent')
  BY <1>2, <1>5, <1>6 DEF Ready, Mounting, Remounted, Shutting
<1> QED
  BY <1>1, <1>3, <1>7, ReadyOn DEF Restoring

(* A call that fails closed.                                               *)
LEMMA FailingClosedReady ==
    ASSUME Inductive, NEW here \in ThreadStates, NEW pc \in {"close", "shut"}, NEW reg, NEW g \in Govs,
           NEW r \in Runtimes, FailingClosed("op", here, pc, reg, g, r), Calm(r), Remembered(r)
    PROVE  AllReady'
<1>1. PICK rec : rec = [here EXCEPT !.pc = pc, !.wait = UnloadWaits(r, Candidates), !.drop = r.generated]
  OBVIOUS
<1>2. rec.pc = pc
  BY <1>1 DEF ThreadStates
<1>3. PICK p : p = rt'
  OBVIOUS
<1>4. p.live = {}
  <2>1. p.live = r.live \ (Candidates \cap r.generated)
    BY <1>3, UnloadingKept DEF FailingClosed
  <2>2. r.live = r.generated /\ r.live \subseteq Candidates
    BY DEF Calm, Runtimes
  <2> QED
    BY <2>1, <2>2
<1>5. PICK h : h = gov'
  OBVIOUS
<1>6. h.safeMode = TRUE
  BY <1>5 DEF FailingClosed, Govs
<1>7. Ready(rec, h, registry', p, up', mutation', spent')
  BY <1>2, <1>4, <1>6 DEF Ready, Raised, Mounting, Remounted, Shutting, Early, Removing, Stage
<1> QED
  BY <1>1, <1>3, <1>5, <1>7, ReadyOn DEF FailingClosed

(* What the remount is to mount, and commit, do not depend on the failure  *)
(* that is noted.                                                          *)
LEMMA SameCommitted ==
    ASSUME NEW g, NEW h, h.state = g.state, h.current = g.current, h.lkg = g.lkg
    PROVE  Committed(h) = Committed(g) /\ Remountable(h) = Remountable(g)
BY DEF Committed, Remountable

(* A call that goes into the remount.                                      *)
LEMMA RemountingReady ==
    ASSUME Inductive, NEW here \in ThreadStates, NEW then \in {"boot", "rollback"},
           NEW reg \in Registries, NEW g \in Govs, NEW r \in Runtimes, NEW d,
           Remounting("op", here, then, reg, g, r, d), Calm(r), Remembered(r),
           up' = "booting" => r.live \subseteq Remountable(g) /\ (g.safeMode => r.live = {}),
           then = "boot" => up' = "booting",
           then = "rollback" =>
              /\ g.state = "rolled-back" /\ g.current = here.snap
              /\ r.live \subseteq Remountable(g) \cup here.snap.mounted
    PROVE  AllReady'
<1>1. PICK targets : targets = Committed(g).owners \cap Candidates
  OBVIOUS
<1>2. PICK held : held = targets \cap Legacy \cap intact
  OBVIOUS
<1>3. PICK withheld : withheld = SetStatus(reg, held, "disabled")
  OBVIOUS
<1>4. PICK go : go = [here EXCEPT !.then = then, !.todo = {}, !.held = {}]
  OBVIOUS
<1>5. /\ go \in ThreadStates /\ go.then = then /\ go.snap = here.snap /\ go.held = {} /\ go.todo = {}
      /\ go.prior = here.prior
  BY <1>4 DEF ThreadStates
<1>6. \/ /\ g.safeMode /\ registry' = reg /\ gov' = g /\ rt' = r
         /\ Goto("op", [go EXCEPT !.pc = "mounted", !.wait = FALSE])
      \/ FailingClosed("op", go, "close", withheld, g, r)
      \/ /\ ~g.safeMode /\ targets \subseteq intact /\ ActiveGenerated(reg) \subseteq targets
         /\ registry' = withheld /\ rt' = r
         /\ gov' = IF held = {} THEN g ELSE [g EXCEPT !.failure = Failure(Blamed(g), FALSE, FALSE)]
         /\ Goto("op", [go EXCEPT !.pc = "mount", !.wait = FALSE, !.todo = Remountable(g), !.held = held])
  BY <1>1, <1>2, <1>3, <1>4 DEF Remounting
<1>7. CASE /\ g.safeMode /\ registry' = reg /\ gov' = g /\ rt' = r
           /\ Goto("op", [go EXCEPT !.pc = "mounted", !.wait = FALSE])
  <2>1. PICK rec : rec = [go EXCEPT !.pc = "mounted", !.wait = FALSE]
    OBVIOUS
  <2>2. rec.pc = "mounted"
    BY <1>5, <2>1 DEF ThreadStates
  <2>3. Ready(rec, gov', registry', rt', up', mutation', spent')
    BY <1>7, <2>2 DEF Ready, Raised, Mounting, Remounted, Shutting, Early, Removing, Stage
  <2> QED
    BY <1>7, <2>1, <2>3, ReadyOn
<1>8. CASE FailingClosed("op", go, "close", withheld, g, r)
  BY <1>5, <1>8, FailingClosedReady
<1>9. CASE /\ ~g.safeMode /\ targets \subseteq intact /\ ActiveGenerated(reg) \subseteq targets
           /\ registry' = withheld /\ rt' = r
           /\ gov' = IF held = {} THEN g ELSE [g EXCEPT !.failure = Failure(Blamed(g), FALSE, FALSE)]
           /\ Goto("op", [go EXCEPT !.pc = "mount", !.wait = FALSE, !.todo = Remountable(g), !.held = held])
  <2>1. PICK todo : todo = Remountable(g)
    OBVIOUS
  <2>2. PICK rec : rec = [go EXCEPT !.pc = "mount", !.wait = FALSE, !.todo = todo, !.held = held]
    OBVIOUS
  <2>3. /\ rec.pc = "mount" /\ rec.todo = todo /\ rec.held = held /\ rec.then = then
        /\ rec.snap = here.snap
    BY <1>5, <2>2 DEF ThreadStates
  <2>4. PICK h : h = gov'
    OBVIOUS
  <2>5. h.state = g.state /\ h.current = g.current /\ h.lkg = g.lkg /\ h.safeMode = g.safeMode
    BY <1>9, <2>4 DEF Govs
  <2>6. Committed(h) = Committed(g) /\ Remountable(h) = todo
    BY <2>1, <2>5, SameCommitted
  <2>7. Pend(rec) = todo
    BY <2>3 DEF Pend
  <2>8. held \subseteq Committed(h).owners \cap Legacy
    BY <1>1, <1>2, <2>6
  <2>9. Active(registry') \cap held = {} /\ Active(registry') \subseteq Active(reg)
    BY <1>3, <1>9 DEF Active, SetStatus, Registries
  <2>10. ActiveGenerated(registry') \subseteq Committed(h).owners
    BY <1>1, <1>9, <2>6, <2>9 DEF ActiveGenerated
  <2>11. ASSUME then = "rollback"
         PROVE  /\ Aimed(rec, h, registry') /\ h.current.owners = rec.snap.owners
                /\ r.live \subseteq Remountable(h) \cup rec.snap.mounted
    <3>1. g.state = "rolled-back" /\ g.current = here.snap
      BY <2>11
    <3>2. Committed(g) = here.snap
      BY <3>1 DEF Committed
    <3>3. here.snap.owners \cap Legacy \subseteq held
      BY <1>1, <1>2, <1>9, <3>2, GovernanceAssumption
    <3>4. Aimed(rec, h, registry')
      BY <2>3, <2>5, <2>9, <3>1, <3>3 DEF Aimed
    <3> QED
      BY <2>1, <2>3, <2>5, <2>6, <2>11, <3>1, <3>4
  <2>12. Mounting(rec, h, registry', r, up')
    BY <1>9, <2>1, <2>3, <2>5, <2>6, <2>7, <2>8, <2>10, <2>11 DEF Mounting
  <2>13. Ready(rec, h, registry', r, up', mutation', spent')
    BY <2>3, <2>12 DEF Ready, Raised, Remounted, Shutting, Early, Removing, Stage
  <2> QED
    BY <1>9, <2>1, <2>2, <2>4, <2>13, ReadyOn
<1> QED
  BY <1>6, <1>7, <1>8, <1>9

(* The restart loop of runtime.restore.                                    *)
LEMMA RestoreLoopReady ==
    ASSUME Inductive, NEW r \in Runtimes, Calm(r), Remembered(r), RestoreLoop("op", r),
           NEW rec0, rec0 = th["op"], rec0.pc \in {"restore", "restart"}, Once(rec0.snap),
           rec0.ret # "undo" =>
              /\ rec0.todo \subseteq rec0.snap.mounted /\ r.generated \subseteq rec0.snap.mounted
              /\ rec0.snap.mounted \cap r.recipes \subseteq r.generated \cup rec0.todo,
           up' = "booting" /\ rec0.ret = "rollback" => r.recipes = {},
           rec0.ret = "revert" => rec0.snap = rec0.prior.current
    PROVE  AllReady'
<1>1. PICK missing : missing = Restartable(r, rec0.todo)
  OBVIOUS
<1>2. missing \subseteq Candidates /\ missing = (rec0.todo \ r.generated) \cap r.recipes
  BY <1>1, RestartableType DEF Restartable
<1>3. rec0.ret \in Returns /\ rec0 \in ThreadStates
  BY RunFacts, ThreadFacts DEF Placed
<1>4. CASE missing = {} /\ rt' = EndRestore(r, rec0.snap) /\ Goto("op", RestoreEnded(rec0, TRUE))
  <2>1. PICK rec : rec = RestoreEnded(rec0, TRUE)
    OBVIOUS
  <2>2. /\ rec.pc = rec0.ret /\ rec.snap = rec0.snap /\ rec.prior = rec0.prior /\ rec.ok = TRUE
    BY <1>3, <2>1 DEF RestoreEnded, ThreadStates
  <2>3. PICK p : p = rt'
    OBVIOUS
  <2>4. p.generated = r.generated /\ p.recipes = r.recipes
    BY <1>4, <2>3, EndRestoreKept
  <2>5. rec.pc # "undo" => p.generated = rec.snap.mounted \cap p.recipes
    BY <1>2, <1>4, <2>2, <2>4 DEF Remembered
  <2>6. Raised(rec, p)
    BY <1>3, <2>2, <2>5 DEF Raised, Returns
  <2>7. Ready(rec, gov', registry', p, up', mutation', spent')
    BY <1>3, <2>2, <2>4, <2>6
       DEF Ready, Mounting, Remounted, Shutting, Early, Removing, Stage, Returns
  <2> QED
    BY <1>4, <2>1, <2>3, <2>7, ReadyOn
<1>5. ASSUME NEW c \in missing, rt' = Park(r, c, Evolves(c)),
             Goto("op", [rec0 EXCEPT !.pc = "restart", !.wait = TRUE, !.drop = {}, !.start = c,
                                     !.todo = @ \ {c}])
      PROVE  AllReady'
  <2>1. PICK rec : rec = [rec0 EXCEPT !.pc = "restart", !.wait = TRUE, !.drop = {}, !.start = c,
                                      !.todo = @ \ {c}]
    OBVIOUS
  <2>2. /\ rec.pc = "restart" /\ rec.snap = rec0.snap /\ rec.prior = rec0.prior /\ rec.ret = rec0.ret
        /\ rec.start = c /\ rec.todo = rec0.todo \ {c}
    BY <1>3, <2>1 DEF ThreadStates
  <2>3. PICK p : p = rt'
    OBVIOUS
  <2>4. p.recipes = r.recipes /\ p.generated \subseteq r.generated
    BY <1>2, <1>5, <2>3, ParkKept
  <2>5. ASSUME rec0.ret # "undo"
        PROVE  p.generated = r.generated
    <3>1. Displaced(r, c) = {}
      BY <1>2, <2>5 DEF Displaced, Once, OneEach
    <3>2. p = r \/ p.generated = r.generated \ Displaced(r, c)
      BY <1>5, <2>3 DEF Park, Runtimes
    <3> QED
      BY <3>1, <3>2
  <2>6. Raised(rec, p)
    BY <1>2, <2>2, <2>4, <2>5 DEF Raised
  <2>7. ~(up' = "booting" /\ rec0.ret = "rollback")
    BY <1>2
  <2>8. Ready(rec, gov', registry', p, up', mutation', spent')
    BY <2>2, <2>6, <2>7 DEF Ready, Mounting, Remounted, Shutting, Early, Removing, Stage
  <2> QED
    BY <1>5, <2>1, <2>3, <2>8, ReadyOn
<1> QED
  BY <1>1, <1>4, <1>5 DEF RestoreLoop

(* A call that is under way is ready for its next step.                    *)
LEMMA ReadyFacts ==
    ASSUME Inductive, AllOnce, AllReady, th["op"].pc # "idle"
    PROVE  /\ Raised(th["op"], rt) /\ Mounting(th["op"], gov, registry, rt, up)
           /\ Remounted(th["op"], gov, registry, rt, up, spent) /\ Shutting(th["op"], gov, rt)
           /\ Early(th["op"], rt, up) /\ Removing(th["op"], gov, mutation) /\ up # "down"
BY OnceFacts DEF AllReady, Ready

(* The waits of runtime.restore.                                           *)
LEMMA RestoreDroppedReady ==
    ASSUME Inductive, AllOnce, AllRun, AllReady, RestoreDropped("op")
    PROVE  AllReady'
<1>1. PICK rec0 : rec0 = th["op"]
  OBVIOUS
<1>2. rec0.pc = "restore" /\ up' = up
  BY <1>1 DEF RestoreDropped
<1>3. PICK r : r = Dropped(rt, rec0.drop)
  OBVIOUS
<1>4. Calm(r) /\ r \in Runtimes /\ Remembered(r)
  BY <1>1, <1>2, <1>3, OnceFacts, StoppedCalm, DroppedKept DEF Stops
<1>5. r.generated = rt.generated \ rec0.drop /\ r.recipes = rt.recipes
  BY <1>3, OnceFacts, DroppedKept
<1>6. Raised(rec0, rt) /\ Early(rec0, rt, up) /\ Removing(rec0, gov, mutation)
  BY <1>1, <1>2, ReadyFacts
<1>7. rec0.ret # "undo" =>
        /\ rec0.todo \subseteq rec0.snap.mounted /\ r.generated \subseteq rec0.snap.mounted
        /\ rec0.snap.mounted \cap r.recipes \subseteq r.generated \cup rec0.todo
  BY <1>2, <1>5, <1>6 DEF Raised
<1>8. up' = "booting" /\ rec0.ret = "rollback" => r.recipes = {}
  BY <1>2, <1>5, <1>6 DEF Early, Stage
<1>9. rec0.ret = "revert" => rec0.snap = rec0.prior.current
  BY <1>2, <1>6 DEF Removing, Stage
<1>10. RestoreLoop("op", r) /\ Once(rec0.snap)
  BY <1>1, <1>3, OnceFacts DEF RestoreDropped
<1> QED
  BY <1>1, <1>2, <1>4, <1>7, <1>8, <1>9, <1>10, RestoreLoopReady

LEMMA RestoreStartedReady ==
    ASSUME Inductive, AllOnce, AllRun, AllReady, RestoreStarted("op")
    PROVE  AllReady'
<1>1. PICK rec0 : rec0 = th["op"]
  OBVIOUS
<1>2. PICK c : c = rec0.start
  OBVIOUS
<1>3. /\ rec0.pc = "restart" /\ up' = up /\ c \in Candidates /\ Starting(rt, c)
      /\ rec0 \in ThreadStates /\ rec0.ret \in Returns
  BY <1>1, <1>2, OnceFacts, RunFacts, ThreadFacts DEF RestoreStarted, Placed, AllRun, Runs, Starts
<1>4. Raised(rec0, rt) /\ Early(rec0, rt, up) /\ Removing(rec0, gov, mutation)
  BY <1>1, <1>3, ReadyFacts
<1>5. ~(up = "booting" /\ rec0.ret = "rollback")
  BY <1>3, <1>4 DEF Early, Stage
<1>6. rec0.ret = "revert" => rec0.snap = rec0.prior.current
  BY <1>3, <1>4 DEF Removing, Stage
<1>7. PICK r : r = Mounted(DiscardParked(Started(rt, c), {c}), c)
  OBVIOUS
<1>8. CASE RestoreLoop("op", r)
  <2>1. /\ r \in Runtimes /\ Remembered(r) /\ Calm(r)
        /\ r.generated = rt.generated \cup {c} /\ r.recipes = rt.recipes \cup {c}
    BY <1>3, <1>7, OnceFacts, StartedAgain
  <2>2. rec0.ret # "undo" =>
          /\ rec0.todo \subseteq rec0.snap.mounted /\ r.generated \subseteq rec0.snap.mounted
          /\ rec0.snap.mounted \cap r.recipes \subseteq r.generated \cup rec0.todo
    BY <1>2, <1>3, <1>4, <2>1 DEF Raised
  <2>3. Once(rec0.snap)
    BY <1>1, OnceFacts
  <2> QED
    BY <1>1, <1>3, <1>5, <1>6, <1>8, <2>1, <2>2, <2>3, RestoreLoopReady
<1>9. CASE Goto("op", RestoreEnded(rec0, FALSE))
  <2>1. PICK rec : rec = RestoreEnded(rec0, FALSE)
    OBVIOUS
  <2>2. /\ rec.pc = rec0.ret /\ rec.snap = rec0.snap /\ rec.prior = rec0.prior /\ rec.ok = FALSE
    BY <1>3, <2>1 DEF RestoreEnded, ThreadStates
  <2>3. Ready(rec, gov', registry', rt', up', mutation', spent')
    BY <1>3, <1>5, <1>6, <2>2
       DEF Ready, Raised, Mounting, Remounted, Shutting, Early, Removing, Stage, Returns
  <2> QED
    BY <1>9, <2>1, <2>3, ReadyOn
<1> QED
  BY <1>1, <1>2, <1>7, <1>8, <1>9 DEF RestoreStarted

(* The waits of the remount.                                               *)
LEMMA CommittedVersions ==
    ASSUME VersionsClash, Inductive
    PROVE  OneEach(Remountable(gov)) /\ Remountable(gov) \subseteq Candidates
<1>1. PICK S : S = Committed(gov).owners
  OBVIOUS
<1>2. ConflictFree(S)
  BY <1>1, FallbackSound DEF Inductive, SoundSnapshots, SoundSets
<1>3. OneEach(S \cap Candidates)
  BY <1>2, FreeOfVersions
<1> QED
  BY <1>1, <1>3 DEF Remountable, OneEach

LEMMA MountNextReady ==
    ASSUME VersionsClash, Inductive, AllOnce, AllRun, AllReady, MountNext("op")
    PROVE  AllReady'
<1>1. PICK rec0 : rec0 = th["op"]
  OBVIOUS
<1>2. PICK c \in rec0.todo :
          /\ rec0.pc = "mount" /\ gov' = gov /\ registry' = registry /\ up' = up /\ spent' = spent
          /\ mutation' = mutation
          /\ \/ /\ c \in rt.generated
                /\ rt' = Mounted(DiscardParked(rt, {c}), c)
                /\ Goto("op", [rec0 EXCEPT !.todo = @ \ {c}])
             \/ /\ c \notin rt.generated
                /\ rt' = Park(rt, c, Evolves(c))
                /\ Goto("op", [rec0 EXCEPT !.pc = "mounting", !.wait = TRUE, !.todo = @ \ {c}, !.start = c])
  BY <1>1 DEF MountNext
<1>3. /\ rec0 \in ThreadStates /\ c \in Candidates /\ Calm(rt) /\ rt \in Runtimes
      /\ Mounting(rec0, gov, registry, rt, up) /\ Once(rec0.snap)
  BY <1>1, <1>2, OnceFacts, RunFacts, ThreadFacts, PointCalm, ReadyFacts DEF Placed
<1>4. PICK T : T = Remountable(gov)
  OBVIOUS
<1>5. /\ OneEach(T) /\ rec0.todo \subseteq T /\ T \subseteq rt.live \cup rec0.todo
  BY <1>2, <1>3, <1>4, CommittedVersions DEF Mounting, Pend
<1>6. ASSUME NEW rec, rec.pc \in {"mount", "mounting"}, rec.then = rec0.then, rec.held = rec0.held,
             rec.snap = rec0.snap, Pend(rec) \subseteq T, T \subseteq rt'.live \cup Pend(rec),
             rt'.live \subseteq rt.live, Goto("op", rec)
      PROVE  AllReady'
  <2>1. PICK p : p = rt'
    OBVIOUS
  <2>2. Mounting(rec, gov, registry, p, up)
    BY <1>2, <1>3, <1>4, <1>6, <2>1 DEF Mounting, Aimed
  <2>3. Ready(rec, gov', registry', p, up', mutation', spent')
    BY <1>2, <1>6, <2>2 DEF Ready, Raised, Remounted, Shutting, Early, Removing, Stage
  <2> QED
    BY <1>6, <2>1, <2>3, ReadyOn
<1>7. CASE /\ c \in rt.generated
           /\ rt' = Mounted(DiscardParked(rt, {c}), c)
           /\ Goto("op", [rec0 EXCEPT !.todo = @ \ {c}])
  <2>1. PICK rec : rec = [rec0 EXCEPT !.todo = @ \ {c}]
    OBVIOUS
  <2>2. /\ rec.pc = "mount" /\ rec.then = rec0.then /\ rec.held = rec0.held /\ rec.snap = rec0.snap
        /\ rec.todo = rec0.todo \ {c}
    BY <1>2, <1>3, <2>1 DEF ThreadStates
  <2>3. PICK q : q = DiscardParked(rt, {c})
    OBVIOUS
  <2>4. q \in Runtimes /\ Remembered(q) /\ q.recipes = rt.recipes /\ q.live = rt.live
    BY <2>3, OnceFacts, StopTypes, DiscardKept
  <2>5. c \in q.recipes /\ c \in rt.live
    BY <1>3, <1>7, <2>4, OnceFacts DEF Remembered, Calm
  <2>6. PICK p : p = rt'
    OBVIOUS
  <2>7. p.live = rt.live
    BY <1>7, <2>3, <2>4, <2>5, <2>6, MountedKept
  <2>8. Pend(rec) = rec0.todo \ {c}
    BY <2>2 DEF Pend
  <2>9. Pend(rec) \subseteq T /\ T \subseteq p.live \cup Pend(rec) /\ p.live \subseteq rt.live
    BY <1>5, <2>5, <2>7, <2>8
  <2>10. Goto("op", rec)
    BY <1>7, <2>1
  <2> QED
    BY <1>6, <2>2, <2>6, <2>9, <2>10
<1>8. CASE /\ c \notin rt.generated
           /\ rt' = Park(rt, c, Evolves(c))
           /\ Goto("op", [rec0 EXCEPT !.pc = "mounting", !.wait = TRUE, !.todo = @ \ {c}, !.start = c])
  <2>1. PICK rec : rec = [rec0 EXCEPT !.pc = "mounting", !.wait = TRUE, !.todo = @ \ {c}, !.start = c]
    OBVIOUS
  <2>2. /\ rec.pc = "mounting" /\ rec.then = rec0.then /\ rec.held = rec0.held /\ rec.snap = rec0.snap
        /\ rec.todo = rec0.todo \ {c} /\ rec.start = c
    BY <1>3, <2>1 DEF ThreadStates
  <2>3. PICK p : p = rt'
    OBVIOUS
  <2>4. p.live = rt.live \/ p.live = rt.live \ Displaced(rt, c)
    BY <1>3, <1>8, <2>3 DEF Park, Runtimes
  <2>5. Displaced(rt, c) \cap T = {}
    BY <1>5 DEF Displaced, OneEach
  <2>6. Pend(rec) = rec0.todo
    BY <2>2, <1>2 DEF Pend
  <2>7. Pend(rec) \subseteq T /\ T \subseteq p.live \cup Pend(rec) /\ p.live \subseteq rt.live
    BY <1>5, <2>4, <2>5, <2>6
  <2>8. Goto("op", rec)
    BY <1>8, <2>1
  <2> QED
    BY <1>6, <2>2, <2>3, <2>7, <2>8
<1> QED
  BY <1>2, <1>7, <1>8

LEMMA MountStartedReady ==
    ASSUME Inductive, AllOnce, AllRun, AllReady, MountStarted("op")
    PROVE  AllReady'
<1>1. PICK rec0 : rec0 = th["op"]
  OBVIOUS
<1>2. PICK c : c = rec0.start
  OBVIOUS
<1>3. /\ rec0.pc = "mounting" /\ gov' = gov /\ registry' = registry /\ up' = up /\ spent' = spent
      /\ mutation' = mutation /\ c \in Candidates /\ Starting(rt, c) /\ rec0 \in ThreadStates
      /\ Mounting(rec0, gov, registry, rt, up)
  BY <1>1, <1>2, OnceFacts, RunFacts, ThreadFacts, ReadyFacts
     DEF MountStarted, Placed, AllRun, Runs, Starts
<1>4. CASE /\ rt' = Mounted(DiscardParked(Started(rt, c), {c}), c)
           /\ Goto("op", [rec0 EXCEPT !.pc = "mount", !.wait = FALSE, !.start = None])
  <2>1. PICK rec : rec = [rec0 EXCEPT !.pc = "mount", !.wait = FALSE, !.start = None]
    OBVIOUS
  <2>2. /\ rec.pc = "mount" /\ rec.then = rec0.then /\ rec.held = rec0.held /\ rec.snap = rec0.snap
        /\ rec.todo = rec0.todo
    BY <1>3, <2>1 DEF ThreadStates
  <2>3. PICK p : p = rt'
    OBVIOUS
  <2>4. p.live = rt.live \cup {c}
    BY <1>3, <1>4, <2>3, OnceFacts, StartedAgain
  <2>5. Pend(rec) = rec0.todo /\ Pend(rec0) = rec0.todo \cup {c}
    BY <1>2, <1>3, <2>2 DEF Pend
  <2>6. Mounting(rec, gov, registry, p, up)
    BY <1>3, <2>2, <2>4, <2>5 DEF Mounting, Aimed
  <2>7. Ready(rec, gov', registry', p, up', mutation', spent')
    BY <1>3, <2>2, <2>6 DEF Ready, Raised, Remounted, Shutting, Early, Removing, Stage
  <2> QED
    BY <1>4, <2>1, <2>3, <2>7, ReadyOn
<1>5. ASSUME NEW clash \in Clashes(c),
             Restoring("op", rec0, "clear", [owners |-> rec0.snap.owners, mounted |-> {}], registry,
                       StartFailed(rt, c, clash))
      PROVE  AllReady'
  <2>1. clash \in BOOLEAN
    BY DEF Clashes
  <2>2. PICK r : r = StartFailed(rt, c, clash)
    OBVIOUS
  <2>3. r \in Runtimes /\ Remembered(r) /\ Calm(r)
    BY <1>3, <2>1, <2>2, OnceFacts, StartFailedKept, StartFailedType, StartFailedCalm
  <2>4. PICK snap : snap = [owners |-> rec0.snap.owners, mounted |-> {}]
    OBVIOUS
  <2> QED
    BY <1>3, <1>5, <2>2, <2>3, <2>4, RestoringReady
<1> QED
  BY <1>1, <1>2, <1>4, <1>5 DEF MountStarted

(* A boot that withheld a row, no write having failed, has mounted nothing.*)
LEMMA WithholdsAll ==
    ASSUME Inductive, AllOnce, AllRun, FreeInv, th["op"].pc = "mount", ~gov.safeMode,
           th["op"].held \subseteq Committed(gov).owners \cap Legacy, th["op"].held # {}
    PROVE  rt.live = {}
<1>1. Calm(rt) /\ up # "down"
  BY OnceFacts, PointCalm
<1>2. CASE Opening
  BY <1>1, <1>2 DEF Opening, Calm
<1>3. CASE Opened
  <2>1. Free(gov.current) /\ Free(gov.lkg)
    BY <1>3, SoundFree DEF Opened
  <2> QED
    BY <2>1 DEF Free, Committed
<1> QED
  BY <1>1, <1>2, <1>3 DEF FreeInv

LEMMA MountsDoneReady ==
    ASSUME Inductive, WithheldInv, AllOnce, AllRun, AllReady, MountsDone("op")
    PROVE  AllReady'
<1>1. PICK rec0 : rec0 = th["op"]
  OBVIOUS
<1>2. /\ rec0.pc = "mount" /\ rec0.todo = {} /\ up' = up /\ registry' = registry /\ rt' = rt
      /\ spent' = spent /\ mutation' = mutation
      /\ Goto("op", [rec0 EXCEPT !.pc = "mounted", !.wait = FALSE])
  BY <1>1 DEF MountsDone
<1>3. /\ rec0 \in ThreadStates /\ gov \in Govs /\ Calm(rt) /\ Mounting(rec0, gov, registry, rt, up)
  BY <1>1, <1>2, OnceFacts, PointCalm, ReadyFacts
<1>4. PICK rec : rec = [rec0 EXCEPT !.pc = "mounted", !.wait = FALSE]
  OBVIOUS
<1>5. rec.pc = "mounted" /\ rec.then = rec0.then /\ rec.held = rec0.held /\ rec.snap = rec0.snap
  BY <1>3, <1>4 DEF ThreadStates
<1>6. Remountable(gov) \subseteq rt.live /\ ~gov.safeMode
  BY <1>2, <1>3 DEF Mounting, Pend
<1>7. PICK h : h = gov'
  OBVIOUS
<1>8. PICK now : now = Capture(registry, rt)
  OBVIOUS
<1>9. h = IF rec0.held = {} THEN gov ELSE Adopted(gov, now)
  BY <1>1, <1>7, <1>8 DEF MountsDone
<1>10. /\ h.state = gov.state /\ ~h.safeMode
       /\ rec0.held # {} => h.current = now /\ h.lkg = now
  BY <1>3, <1>6, <1>9 DEF Adopted, Govs
<1>11. ASSUME rec.then = "boot", rec.held = {} \/ spent.faults = 0
       PROVE  rt.live = Remountable(h)
  <2>1. rt.live = Remountable(gov)
    BY <1>2, <1>3, <1>5, <1>6, <1>11 DEF Mounting
  <2>2. CASE rec0.held = {}
    BY <1>9, <2>1, <2>2
  <2>3. CASE rec0.held # {}
    <3>1. FreeInv
      BY <1>5, <1>11, <2>3 DEF WithheldInv
    <3>2. rt.live = {}
      BY <1>1, <1>2, <1>3, <1>6, <2>3, <3>1, WithholdsAll DEF Mounting
    <3>3. Committed(h).owners = Active(registry)
      BY <1>8, <1>10, <2>3 DEF Committed, Capture
    <3>4. ActiveGenerated(registry) \subseteq Committed(gov).owners
      BY <1>2, <1>3 DEF Mounting
    <3>5. Remountable(h) \subseteq Remountable(gov)
      BY <3>3, <3>4 DEF Remountable, ActiveGenerated
    <3> QED
      BY <2>1, <3>2, <3>5
  <2> QED
    BY <2>2, <2>3
<1>12. ASSUME rec.then = "rollback"
       PROVE  /\ Aimed(rec, h, registry) /\ Expected(rec.snap) \subseteq rt.live
              /\ rt.live \subseteq Expected(rec.snap) \cup rec.snap.mounted
              /\ up = "booting" => rt.live \subseteq Expected(rec.snap)
  <2>1. Aimed(rec0, gov, registry) /\ gov.current.owners = rec.snap.owners
    BY <1>2, <1>3, <1>5, <1>12 DEF Mounting
  <2>2. Remountable(gov) = Expected(rec.snap)
    BY <2>1 DEF Remountable, Committed, Expected, Aimed
  <2> QED
    BY <1>2, <1>3, <1>5, <1>6, <1>10, <1>12, <2>1, <2>2 DEF Mounting, Aimed
<1>13. Remounted(rec, h, registry, rt, up, spent)
  BY <1>10, <1>11, <1>12 DEF Remounted
<1>14. Ready(rec, gov', registry', rt', up', mutation', spent')
  BY <1>2, <1>5, <1>7, <1>13 DEF Ready, Raised, Mounting, Shutting, Early, Removing, Stage
<1> QED
  BY <1>2, <1>4, <1>14, ReadyOn

LEMMA MountsClearedReady ==
    ASSUME Inductive, AllOnce, AllRun, MountsCleared("op")
    PROVE  AllReady'
<1>1. th["op"].pc = "clear" /\ Calm(rt)
  BY OnceFacts, PointCalm DEF MountsCleared
<1> QED
  BY <1>1, OnceFacts, FailingClosedReady DEF MountsCleared

LEMMA ClosedReady ==
    ASSUME Inductive, AllOnce, AllReady, Closed("op")
    PROVE  AllReady'
<1>1. th["op"].pc = "close" /\ Shutting(th["op"], gov, rt)
  BY ReadyFacts DEF Closed
<1>2. PICK rec : rec = [th["op"] EXCEPT !.pc = "mounted", !.wait = FALSE, !.drop = {}]
  OBVIOUS
<1>3. rec.pc = "mounted"
  BY <1>2, OnceFacts DEF ThreadStates
<1>4. PICK p : p = rt'
  OBVIOUS
<1>5. p.live = {}
  BY <1>1, <1>4, OnceFacts, DroppedKept DEF Closed, Shutting
<1>6. PICK h : h = gov'
  OBVIOUS
<1>7. h.safeMode = TRUE
  <2>1. gov.safeMode = TRUE
    BY <1>1, OnceFacts DEF Shutting, Govs
  <2> QED
    BY <1>6, <2>1, OnceFacts DEF Closed, Govs
<1>8. Ready(rec, h, registry', p, up', mutation', spent')
  BY <1>3, <1>5, <1>7 DEF Ready, Raised, Mounting, Remounted, Shutting, Early, Removing, Stage
<1> QED
  BY <1>2, <1>4, <1>6, <1>8, ReadyOn DEF Closed

-----------------------------------------------------------------------------
(* The lifecycle calls.                                                    *)

LEMMA ActivationReady ==
    ASSUME Inductive, AllOnce, AllRun,
           \/ ActivatePrepared \/ ActivateHealthy \/ ActivateUnhealthy \/ ActivateCommitted
           \/ ActivateUndone
    PROVE  AllReady'
<1>1. ASSUME NEW reg, NEW r \in Runtimes, Remembered(r),
             Restoring("op", th["op"], "undo", th["op"].snap, reg, r)
      PROVE  AllReady'
  BY <1>1, OnceFacts, RestoringReady
<1>2. PICK c : c = th["op"].cand
  OBVIOUS
<1>3. CASE ActivatePrepared
  <2>1. c \in Candidates
    BY <1>2, <1>3, Preparing DEF ActivatePrepared
  <2>2. CASE Goto("op", [th["op"] EXCEPT !.pc = "health", !.wait = TRUE, !.start = None])
    <3>1. PICK rec : rec = [th["op"] EXCEPT !.pc = "health", !.wait = TRUE, !.start = None]
      OBVIOUS
    <3>2. rec.pc = "health"
      BY <3>1, OnceFacts DEF ThreadStates
    <3> QED
      BY <2>2, <3>1, <3>2, PlainOn DEF Plain
  <2>3. ASSUME NEW clash \in Clashes(c),
               Restoring("op", th["op"], "undo", th["op"].snap, registry, StartFailed(rt, c, clash))
        PROVE  AllReady'
    <3>1. clash \in BOOLEAN
      BY DEF Clashes
    <3>2. PICK r : r = StartFailed(rt, c, clash)
      OBVIOUS
    <3>3. r \in Runtimes /\ Remembered(r)
      BY <2>1, <3>1, <3>2, OnceFacts, StartFailedKept, StartFailedType
    <3> QED
      BY <1>1, <2>3, <3>2, <3>3
  <2>4. ASSUME NEW r \in Prepared(c), Restoring("op", th["op"], "undo", th["op"].snap, registry, r)
        PROVE  AllReady'
    <3>1. Started(rt, c) \in Runtimes
      BY <2>1, OnceFacts DEF Started, Runtimes
    <3>2. r \in Runtimes /\ Remembered(r)
      BY <2>1, <2>4, <3>1, OnceFacts, StartedKept DEF Prepared
    <3> QED
      BY <1>1, <2>4, <3>2
  <2> QED
    BY <1>2, <1>3, <2>2, <2>3, <2>4 DEF ActivatePrepared
<1>4. CASE ActivateHealthy
  <2>1. CASE Goto("op", [th["op"] EXCEPT !.pc = "commit", !.wait = rt.parked[c] # {}])
    <3>1. PICK rec : rec = [th["op"] EXCEPT !.pc = "commit", !.wait = rt.parked[c] # {}]
      OBVIOUS
    <3>2. rec.pc = "commit"
      BY <3>1, OnceFacts DEF ThreadStates
    <3> QED
      BY <2>1, <3>1, <3>2, PlainOn DEF Plain
  <2>2. CASE Restoring("op", th["op"], "undo", th["op"].snap, registry', rt)
    BY <1>1, <2>2, OnceFacts
  <2> QED
    BY <1>2, <1>4, <2>1, <2>2 DEF ActivateHealthy
<1>5. CASE ActivateUnhealthy
  BY <1>1, <1>5, OnceFacts DEF ActivateUnhealthy
<1>6. CASE ActivateCommitted
  <2>1. th["op"].pc = "commit" /\ c \in rt.live /\ c \in Candidates
    BY <1>2, <1>6, OnceFacts, RunFacts DEF ActivateCommitted, AllRun, Runs
  <2>2. PICK p : p = Mounted(rt, c)
    OBVIOUS
  <2>3. p \in Runtimes /\ Remembered(p)
    BY <2>1, <2>2, OnceFacts, MountedType, MountedKept DEF Remembered
  <2>4. CASE Restoring("op", th["op"], "undo", th["op"].snap, registry, p)
    BY <1>1, <2>3, <2>4
  <2>5. CASE Rest("op")
    BY <2>5, RestReady
  <2> QED
    BY <1>2, <1>6, <2>2, <2>4, <2>5 DEF ActivateCommitted, Release
<1>7. CASE ActivateUndone
  BY <1>7, RestReady, LostReady DEF ActivateUndone, Release
<1> QED
  BY <1>3, <1>4, <1>5, <1>6, <1>7

(* rollback *)
LEMMA StartRollbackReady ==
    ASSUME Inductive, AllOnce, NEW g, NEW prior \in Govs, StartRollback(g, prior, rt), Calm(rt),
           up' = "booting" => rt.recipes = {}
    PROVE  AllReady'
<1>1. PICK here : here = [Resting EXCEPT !.prior = prior, !.cand = None]
  OBVIOUS
<1>2. here \in ThreadStates
  BY <1>1, OnceFacts DEF ThreadStates
<1> QED
  BY <1>1, <1>2, OnceFacts, RestoringReady DEF StartRollback

LEMMA RecoveringReady ==
    ASSUME Inductive, AllOnce, Calm(rt), NEW g, NEW reg, Recovering(th["op"], g, reg, rt)
    PROVE  AllReady'
BY OnceFacts, RestoringReady DEF Recovering

LEMMA RollbackRestoredReady ==
    ASSUME Inductive, AllOnce, AllRun, AllReady, RollbackRestored
    PROVE  AllReady'
<1>1. PICK rec0 : rec0 = th["op"]
  OBVIOUS
<1>2. /\ rec0.pc = "rollback" /\ Calm(rt) /\ up' = up /\ Raised(rec0, rt) /\ Early(rec0, rt, up)
      /\ rec0 \in ThreadStates /\ rt \in Runtimes /\ Remembered(rt) /\ gov \in Govs
      /\ rec0.snap \in Snapshots
  BY <1>1, OnceFacts, PointCalm, ReadyFacts DEF RollbackRestored
<1>3. PICK target : target = rec0.snap
  OBVIOUS
<1>4. PICK back : back = [gov EXCEPT !.lkg = target, !.current = target, !.state = "rolled-back",
                                    !.pending = None]
  OBVIOUS
<1>5. /\ back \in Govs /\ back.current = rec0.snap /\ back.state = "rolled-back"
  BY <1>2, <1>3, <1>4 DEF Govs, ActivationStates
<1>6. PICK reg : reg = RestoredRegistry("op")
  OBVIOUS
<1>7. CASE rec0.ok /\ Remounting("op", rec0, "rollback", reg, back, rt, disk)
  <2>1. reg \in Registries
    BY <1>6, RestoredActive DEF SoundRegistries
  <2>2. rt.live \subseteq rec0.snap.mounted
    BY <1>2, <1>7 DEF Raised, Calm
  <2>3. up = "booting" => rt.live = {}
    BY <1>2 DEF Early, Stage, Remembered
  <2> QED
    BY <1>2, <1>5, <1>7, <2>1, <2>2, <2>3, RemountingReady
<1>8. CASE Recovering(rec0, gov, reg, rt)
  BY <1>1, <1>2, <1>8, RecoveringReady
<1> QED
  BY <1>1, <1>3, <1>4, <1>6, <1>7, <1>8 DEF RollbackRestored

LEMMA RollbackMountedReady ==
    ASSUME Inductive, AllOnce, AllRun, AllReady, RollbackMounted
    PROVE  AllReady'
<1>1. PICK rec0 : rec0 = th["op"]
  OBVIOUS
<1>2. /\ rec0.pc = "mounted" /\ rec0.then = "rollback" /\ Calm(rt) /\ up' = up
      /\ Remounted(rec0, gov, registry, rt, up, spent) /\ rt \in Runtimes /\ Remembered(rt)
      /\ gov \in Govs /\ registry \in Registries /\ Resting \in ThreadStates
  BY <1>1, OnceFacts, PointCalm, ReadyFacts DEF RollbackMounted
<1>3. PICK ok : ok = Restored(registry, rec0.snap)
  OBVIOUS
<1>4. PICK snap : snap = Capture(registry, rt)
  OBVIOUS
<1>5. ok \in BOOLEAN /\ snap \in Snapshots /\ snap.owners = Active(registry)
  BY <1>2, <1>3, <1>4 DEF Restored, Capture, Snapshots, Runtimes, Active
<1>6. PICK done : done = [gov EXCEPT !.current = snap, !.integrity = ok]
  OBVIOUS
<1>7. /\ done \in Govs /\ done.current = snap /\ done.state = gov.state
      /\ done.safeMode = gov.safeMode
  BY <1>2, <1>5, <1>6 DEF Govs
<1>8. PICK d : d = FileOf(registry, approvals, done)
  OBVIOUS
<1>9. CASE ok /\ up = "booting" /\ Remounting("op", Resting, "boot", registry, done, rt, d)
  <2>1. done.safeMode => rt.live = {}
    BY <1>2, <1>7, <1>9 DEF Remounted
  <2>2. ASSUME ~gov.safeMode
        PROVE  rt.live \subseteq Remountable(done)
    <3>1. gov.state = "rolled-back" /\ rt.live \subseteq Expected(rec0.snap)
      BY <1>2, <1>9, <2>2 DEF Remounted, Aimed
    <3>2. snap.owners = rec0.snap.owners
      BY <1>3, <1>5, <1>9 DEF Restored
    <3>3. Remountable(done) = Expected(rec0.snap)
      BY <1>7, <3>1, <3>2 DEF Remountable, Committed, Expected
    <3> QED
      BY <3>1, <3>3
  <2>3. rt.live \subseteq Remountable(done)
    BY <1>7, <2>1, <2>2
  <2> QED
    BY <1>2, <1>7, <1>9, <2>1, <2>3, RemountingReady
<1>10. CASE Rest("op")
  BY <1>10, RestReady
<1>11. CASE Recovering(rec0, done, registry, rt)
  BY <1>1, <1>2, <1>11, RecoveringReady
<1> QED
  BY <1>1, <1>3, <1>4, <1>6, <1>8, <1>9, <1>10, <1>11 DEF RollbackMounted, Release

(* The process ends.                                                       *)
LEMMA HaltReady ==
    ASSUME Halt
    PROVE  AllReady'
BY DEF Halt, AllReady

LEMMA RollbackRecoveredReady ==
    ASSUME Inductive, AllOnce, AllRun, RollbackRecovered
    PROVE  AllReady'
<1>1. th["op"].pc = "recover" /\ Calm(rt)
  BY OnceFacts, PointCalm DEF RollbackRecovered
<1>2. PICK reg : reg = RestoredRegistry("op")
  OBVIOUS
<1>3. CASE FailingClosed("op", th["op"], "shut", reg, gov, rt)
  BY <1>1, <1>3, OnceFacts, FailingClosedReady
<1> QED
  BY <1>2, <1>3, HaltReady, RestReady, LostReady DEF RollbackRecovered, Die

LEMMA RollbackClosedReady ==
    ASSUME Inductive, AllOnce, AllRun, AllReady, RollbackClosed
    PROVE  AllReady'
<1>1. th["op"].pc = "shut" /\ up' = up /\ Shutting(th["op"], gov, rt)
  BY ReadyFacts DEF RollbackClosed
<1>2. PICK r : r = Dropped(rt, th["op"].drop)
  OBVIOUS
<1>3. Calm(r) /\ r \in Runtimes /\ Remembered(r) /\ r.live = {}
  BY <1>1, <1>2, OnceFacts, StoppedCalm, DroppedKept DEF Stops, Shutting
<1>4. PICK failure : failure = Failure(Blamed(gov), FALSE, TRUE)
  OBVIOUS
<1>5. PICK closed : closed = [gov EXCEPT !.failure = failure]
  OBVIOUS
<1>6. closed \in Govs
  <2>1. failure \in Failures
    BY <1>4, FailureTyped DEF Inductive
  <2> QED
    BY <1>5, <2>1, OnceFacts DEF Govs
<1>7. PICK d : d = FileOf(registry, approvals, closed)
  OBVIOUS
<1>8. CASE up = "booting" /\ Remounting("op", Resting, "boot", registry, closed, r, d)
  BY <1>1, <1>3, <1>6, <1>8, OnceFacts, RemountingReady
<1>9. CASE Rest("op")
  BY <1>9, RestReady
<1> QED
  BY <1>2, <1>4, <1>5, <1>7, <1>8, <1>9 DEF RollbackClosed

(* Safe Mode, disable, uninstall.                                          *)
LEMMA RemovalReady ==
    ASSUME Inductive, AllOnce, AllRun, Removed \/ RemoveReverted \/ SafeModeEntered \/ Booted
    PROVE  AllReady'
<1>1. CASE Rest("op")
  BY <1>1, RestReady
<1>2. CASE Removed
  <2>1. PICK r : r = Dropped(rt, th["op"].drop)
    OBVIOUS
  <2>2. Calm(r) /\ r \in Runtimes /\ Remembered(r)
    BY <1>2, <2>1, OnceFacts, StoppedCalm, DroppedKept DEF Stops, Removed
  <2>3. CASE Restoring("op", th["op"], "revert", th["op"].prior.current, registry', r)
    BY <2>2, <2>3, OnceFacts, RestoringReady
  <2> QED
    BY <1>1, <1>2, <2>1, <2>3 DEF Removed, Release
<1> QED
  BY <1>1, <1>2, LostReady DEF RemoveReverted, SafeModeEntered, Booted, Release

LEMMA RequestReady ==
    ASSUME Inductive, LockInv, AllOnce, AllRun, AllReady, Request
    PROVE  AllReady'
<1>1. ASSUME UNCHANGED <<registry, gov, rt, th, mutation, up>>, spent'.faults = spent.faults
      PROVE  AllReady'
  BY <1>1 DEF AllReady, Ready, Remounted
<1>2. ASSUME th'["op"].pc = "idle"
      PROVE  AllReady'
  BY <1>2, PlainReady DEF AllReady, Plain
<1>3. ASSUME NEW c \in Candidates, \/ RequestApproval(c) \/ RecordApproval(c, "approved-for-exact-diff")
                                   \/ RecordApproval(c, "rejected")
      PROVE  AllReady'
  <2>1. spent'.faults = spent.faults
    BY <1>3 DEF RequestApproval, RecordApproval, SpendApproval, Inductive, Spendings
  <2> QED
    BY <1>1, <1>3, <2>1 DEF RequestApproval, RecordApproval
<1>4. ASSUME LifecycleIdle, UNCHANGED th
      PROVE  AllReady'
  BY <1>2, <1>4, IdleCall
<1>5. ASSUME NEW c \in Candidates, ActivateStart(c)
      PROVE  AllReady'
  <2>1. PICK rec : rec = [Resting EXCEPT !.pc = "prepare", !.cand = c, !.snap = gov.lkg, !.prior = gov,
                                    !.wait = c \notin rt.generated,
                                    !.start = IF c \in rt.generated THEN None ELSE c]
    OBVIOUS
  <2>2. rec.pc = "prepare"
    BY <2>1, OnceFacts DEF ThreadStates
  <2> QED
    BY <1>5, <2>1, <2>2, PlainOn, LostReady DEF ActivateStart, Plain
<1>6. CASE Rollback
  <2>1. Calm(rt) /\ up' = "up"
    BY <1>6, IdleCall, PointCalm DEF Rollback, LifecycleIdle
  <2>2. ASSUME NEW g, StartRollback(g, gov, rt)
        PROVE  AllReady'
    BY <2>1, <2>2, OnceFacts, StartRollbackReady
  <2> QED
    BY <1>6, <2>2, LostReady DEF Rollback
<1>7. CASE EnterSafeMode
  <2>1. PICK rec : rec = [Resting EXCEPT !.pc = "safe", !.wait = UnloadWaits(rt, Candidates),
                                         !.drop = rt.generated]
    OBVIOUS
  <2>2. rec.pc = "safe"
    BY <2>1, OnceFacts DEF ThreadStates
  <2> QED
    BY <1>7, <2>1, <2>2, PlainOn DEF EnterSafeMode, Plain
<1>8. ASSUME NEW x \in Rows, NEW kind \in {"disable", "uninstall"}, RemoveStart(x, kind)
      PROVE  AllReady'
  <2>1. PICK unload : unload = {x} \cap Candidates
    OBVIOUS
  <2>2. PICK rec : rec = [Resting EXCEPT !.pc = kind, !.wait = UnloadWaits(rt, unload), !.todo = {x},
                                         !.drop = unload \cap rt.generated, !.prior = gov]
    OBVIOUS
  <2>3. rec.pc = kind /\ rec.prior = gov
    BY <2>2, OnceFacts DEF ThreadStates
  <2>4. gov' = gov /\ mutation' = kind
    BY <1>8 DEF RemoveStart
  <2>5. Ready(rec, gov', registry', rt', up', mutation', spent')
    BY <2>3, <2>4 DEF Ready, Raised, Mounting, Remounted, Shutting, Early, Removing, Stage
  <2> QED
    BY <1>8, <2>1, <2>2, <2>5, ReadyOn DEF RemoveStart
<1>9. \/ \E c \in Candidates : \/ RequestApproval(c)
                              \/ RecordApproval(c, "approved-for-exact-diff")
                              \/ RecordApproval(c, "rejected")
      \/ \E c \in Candidates : AbandonFailedActivation(c)
      \/ \E c \in Candidates : ActivateStart(c)
      \/ Rollback \/ EnterSafeMode \/ ExitSafeMode
      \/ \E x \in Rows : RemoveStart(x, "disable") \/ RemoveStart(x, "uninstall")
  BY DEF Request
<1>10. ASSUME ExitSafeMode \/ \E c \in Candidates : AbandonFailedActivation(c)
       PROVE  LifecycleIdle /\ UNCHANGED th
  BY <1>10 DEF ExitSafeMode, AbandonFailedActivation
<1> QED
  BY <1>3, <1>4, <1>5, <1>6, <1>7, <1>8, <1>9, <1>10

(* A boot begins with nothing running.                                     *)
LEMMA BootReady ==
    ASSUME Inductive, AllOnce, AllRun, Boot
    PROVE  AllReady'
<1>1. /\ th["op"].pc = "idle" /\ Calm(rt) /\ up' = "booting" /\ rt = FreshRuntime
      /\ registry \in Registries /\ gov \in Govs /\ rt \in Runtimes /\ Remembered(rt)
      /\ Resting \in ThreadStates
  BY RunFacts, PointCalm, OnceFacts DEF Boot, Inductive, AllOnce
<1>2. rt.recipes = {} /\ rt.live = {}
  BY <1>1 DEF FreshRuntime
<1>3. ASSUME StartRollback(gov, [gov EXCEPT !.state = "active"], rt)
      PROVE  AllReady'
  <2>1. PICK prior : prior = [gov EXCEPT !.state = "active"]
    OBVIOUS
  <2>2. prior \in Govs
    BY <1>1, <2>1 DEF Govs, ActivationStates
  <2> QED
    BY <1>1, <1>2, <1>3, <2>1, <2>2, StartRollbackReady
<1>4. ASSUME NEW g \in Govs, NEW d, Remounting("op", Resting, "boot", registry, g, rt, d)
      PROVE  AllReady'
  BY <1>1, <1>2, <1>4, RemountingReady
<1>5. PICK broken, g, d :
         /\ broken = (gov.state \in {"activation-pending", "activating"})
         /\ g = IF broken THEN [gov EXCEPT !.state = "activation-failed", !.pending = None,
                                          !.failure = Failure(gov.pending, TRUE, FALSE)]
                          ELSE gov
         /\ d = [disk EXCEPT !.gov = g, !.store.gov = g]
  OBVIOUS
<1>6. \/ /\ g.state = "rollback-pending" /\ StartRollback(g, [g EXCEPT !.state = "active"], rt)
      \/ Remounting("op", Resting, "boot", registry, g, rt, d)
  BY <1>5 DEF Boot
<1>7. g \in Govs /\ (g.state = "rollback-pending" => g = gov)
  <2>1. CASE broken
    <3>1. PICK failure : failure = Failure(gov.pending, TRUE, FALSE)
      OBVIOUS
    <3>2. failure \in Failures
      BY <1>1, <3>1 DEF Failure, Failures, Govs
    <3>3. g = [gov EXCEPT !.state = "activation-failed", !.pending = None, !.failure = failure]
      BY <1>5, <2>1, <3>1
    <3> QED
      BY <1>1, <3>2, <3>3 DEF Govs, ActivationStates
  <2>2. CASE ~broken
    BY <1>1, <1>5, <2>2
  <2> QED
    BY <2>1, <2>2
<1> QED
  BY <1>3, <1>4, <1>6, <1>7

(* Every step keeps the invariant.                                         *)
LEMMA NextReady ==
    ASSUME VersionsClash, Inductive, LockInv, WithheldInv, RunsInv, OnceInv, ReadyInv, [Next]_vars
    PROVE  ReadyInv'
<1> SUFFICES ASSUME spent'.fatals = 0
             PROVE  AllReady'
  BY DEF ReadyInv
<1>1. AllRun /\ AllOnce /\ AllReady /\ \A c \in Candidates : ~RunnerDies(c)
  BY DeathsCounted DEF RunsInv, OnceInv, ReadyInv
<1>2. ASSUME NEW t \in Threads, Advance(t)
      PROVE  AllReady'
  <2>1. CASE t \in Candidates
    BY <1>1, <1>2, <2>1, OpApart DEF AllRun, Advance, FailureStep, FailureRestored,
       FailureHandled, MountStep,
       RestoreDropped, RestoreStarted, MountNext, MountStarted, MountsDone, MountsCleared, Closed
  <2>2. CASE OpStep
    BY <1>1, <2>2, ActivationReady, RollbackRestoredReady, RollbackMountedReady,
       RollbackRecoveredReady, RollbackClosedReady, RemovalReady DEF OpStep
  <2>3. CASE MountStep("op")
    BY <1>1, <2>3, RestoreDroppedReady, RestoreStartedReady, MountNextReady, MountStartedReady,
       MountsDoneReady, MountsClearedReady, ClosedReady DEF MountStep
  <2> QED
    BY <1>2, <2>1, <2>2, <2>3, OpApart DEF Advance, Threads
<1>3. CASE Environment
  <2>1. Crash => AllReady'
    BY <1>1, HaltReady DEF Crash, Die
  <2>2. ASSUME NEW c \in Candidates, Tamper(c)
        PROVE  AllReady'
    <3>1. PICK s : s = spent'
      OBVIOUS
    <3>2. s.faults = spent.faults /\ s.fatals = spent.fatals
      BY <2>2, <3>1 DEF Tamper, Inductive, Spendings
    <3>3. UNCHANGED <<th, gov, registry, rt, up, mutation>>
      BY <2>2 DEF Tamper
    <3> QED
      BY <1>1, <3>1, <3>2, <3>3 DEF AllReady, Ready, Remounted
  <2> QED
    BY <1>1, <1>3, <2>1, <2>2 DEF Environment
<1>4. CASE UNCHANGED vars
  BY <1>1, <1>4 DEF vars, AllReady
<1> QED
  BY <1>1, <1>2, <1>3, <1>4, RequestReady, BootReady DEF Next

(* The invariant holds at first: no process is up.                         *)
LEMMA InitReady ==
    ASSUME Init
    PROVE  ReadyInv
BY DEF Init, ReadyInv, AllReady

-----------------------------------------------------------------------------
(* What the remount leaves running.                                        *)

(* A boot ends where the reconstruction returns.                           *)
LEMMA BootEnds ==
    ASSUME [Next]_vars, up = "booting", up' = "up"
    PROVE  Booted
<1>1. up' # up /\ up # "up" /\ up' # "down" /\ up # "down"
  OBVIOUS
<1>2. ASSUME NEW t \in Threads, Advance(t)
      PROVE  Booted
  <2>1. CASE OpStep
    BY <1>1, <2>1 DEF OpStep, ActivatePrepared, ActivateHealthy, ActivateUnhealthy, ActivateCommitted,
       ActivateUndone, RollbackRestored, RollbackMounted, RollbackRecovered, RollbackClosed, Die, Halt,
       SafeModeEntered, Removed, RemoveReverted
  <2>2. ~FailureStep(t)
    BY <1>1 DEF FailureStep, FailureRestored, FailureHandled
  <2>3. ~MountStep(t)
    BY <1>1 DEF MountStep, RestoreDropped, RestoreStarted, MountNext, MountStarted, MountsDone,
       MountsCleared, Closed
  <2> QED
    BY <1>2, <2>1, <2>2, <2>3 DEF Advance
<1>3. ~Request
  BY <1>1 DEF Request, RequestApproval, RecordApproval, AbandonFailedActivation, ActivateStart,
     Rollback, EnterSafeMode, ExitSafeMode, RemoveStart, LifecycleIdle
<1>4. ~Boot /\ ~UNCHANGED vars
  BY <1>1 DEF Boot, vars
<1>5. ~Environment
  BY <1>1 DEF Environment, Crash, Die, Halt, RunnerDies, Tamper
<1> QED
  BY <1>2, <1>3, <1>4, <1>5 DEF Next

(* BootFaithful: whatever the previous process left in the file, what the  *)
(* reconstruction of a boot leaves running is what it committed.           *)
THEOREM BootsFaithful == VersionsClash => (Spec => BootFaithful)
<1> SUFFICES ASSUME VersionsClash
             PROVE  Spec => BootFaithful
  OBVIOUS
<1> DEFINE I == Inductive /\ LockInv /\ WithheldInv /\ RunsInv /\ OnceInv /\ ReadyInv
           Faithful == /\ up = "booting" /\ up' = "up"
                       /\ spent.fatals = 0 /\ (th["op"].held = {} \/ spent.faults = 0)
                       => rt'.live = IF gov'.safeMode THEN {}
                                     ELSE (Committed(gov').owners \cap Candidates) \ Legacy
<1>1. Init => I
  BY InitInductive, InitLock, InitWithheld, InitRuns, InitOnce, InitReady
<1>2. I /\ [Next]_vars => I'
  BY NextInductive, NextLock, NextWithheld, NextRuns, NextOnce, NextReady
<1>3. I /\ [Next]_vars => [Faithful]_vars
  <2> SUFFICES ASSUME I, [Next]_vars, up = "booting", up' = "up", spent.fatals = 0,
                      th["op"].held = {} \/ spent.faults = 0
               PROVE  rt'.live = IF gov'.safeMode THEN {}
                                 ELSE (Committed(gov').owners \cap Candidates) \ Legacy
    OBVIOUS
  <2>1. Booted
    BY BootEnds
  <2>2. Remounted(th["op"], gov, registry, rt, up, spent)
    BY DEF ReadyInv, AllReady, Ready
  <2>3. /\ gov.safeMode => rt.live = {}
        /\ ~gov.safeMode => rt.live = Remountable(gov)
    BY <2>1, <2>2 DEF Booted, Remounted
  <2>4. gov' = gov /\ rt' = rt
    BY <2>1 DEF Booted
  <2> QED
    BY <2>3, <2>4 DEF Remountable
<1> HIDE DEF Faithful, I
<1>4. Spec => [][Faithful]_vars
  BY <1>1, <1>2, <1>3, PTL DEF Spec
<1> QED
  BY <1>4 DEF BootFaithful, Faithful

(* A rollback that ends has brought up its target.                         *)
LEMMA RollbackEnds ==
    ASSUME Inductive, RunsInv, KeptInv, ReadyInv, up = "up", spent.fatals = 0, RollbackMounted,
           Restored(registry, th["op"].snap), gov.safeMode => Undisturbed(spent)
    PROVE  /\ ActiveGenerated(registry) \subseteq rt.live
           /\ rt.live \subseteq ActiveGenerated(registry) \cup th["op"].snap.mounted
<1>1. PICK rec : rec = th["op"]
  OBVIOUS
<1>2. rec.pc = "mounted" /\ rec.then = "rollback" /\ Active(registry) = rec.snap.owners /\ Calm(rt)
  BY <1>1, PointCalm DEF RollbackMounted, Restored, RunsInv
<1>3. CASE gov.safeMode
  <2>1. Remounts(rec, gov, rt) /\ Served(gov, registry, rt)
    BY <1>1, <1>2, <1>3 DEF KeptInv, AllKept, Kept
  <2> QED
    BY <1>1, <1>2, <2>1 DEF Remounts, Served, Calm
<1>4. CASE ~gov.safeMode
  <2>1. Remounted(rec, gov, registry, rt, up, spent)
    BY <1>1 DEF ReadyInv, AllReady, Ready
  <2>2. /\ Active(registry) \cap rec.snap.owners \cap Legacy = {}
        /\ Expected(rec.snap) \subseteq rt.live
        /\ rt.live \subseteq Expected(rec.snap) \cup rec.snap.mounted
    BY <1>2, <1>4, <2>1 DEF Remounted, Aimed
  <2>3. Expected(rec.snap) = ActiveGenerated(registry)
    BY <1>2, <2>2 DEF Expected, ActiveGenerated
  <2> QED
    BY <1>1, <2>2, <2>3
<1> QED
  BY <1>3, <1>4

(* RollbackExact: finishRollback has turned the target's rows active and   *)
(* no others, and the remount has every one of them running.               *)
THEOREM RollbackReachesTarget == VersionsClash => (Spec => RollbackExact)
<1> SUFFICES ASSUME VersionsClash
             PROVE  Spec => RollbackExact
  OBVIOUS
<1> DEFINE I == Inductive /\ LockInv /\ WithheldInv /\ RunsInv /\ KeptInv /\ OnceInv /\ ReadyInv
           Exact == Ends("mounted") /\ th["op"].then = "rollback" =>
                       /\ Active(registry') = th["op"].snap.owners
                       /\ \/ spent.fatals > 0
                          \/ gov'.safeMode /\ spent.crashes + spent.faults > 0
                          \/ /\ ActiveGenerated(registry') \subseteq rt'.live
                             /\ rt'.live \subseteq ActiveGenerated(registry') \cup th["op"].snap.mounted
<1>1. Init => I
  BY InitInductive, InitLock, InitWithheld, InitRuns, InitKept, InitOnce, InitReady
<1>2. I /\ [Next]_vars => I'
  BY NextInductive, NextLock, NextWithheld, NextRuns, NextKept, NextOnce, NextReady
<1>3. I /\ [Next]_vars => [Exact]_vars
  <2> SUFFICES ASSUME I, [Next]_vars, Ends("mounted"), th["op"].then = "rollback"
               PROVE  /\ Active(registry') = th["op"].snap.owners
                      /\ \/ spent.fatals > 0
                         \/ gov'.safeMode /\ spent.crashes + spent.faults > 0
                         \/ /\ ActiveGenerated(registry') \subseteq rt'.live
                            /\ rt'.live \subseteq ActiveGenerated(registry') \cup th["op"].snap.mounted
    OBVIOUS
  <2>1. RollbackMounted /\ up = "up"
    BY CallEnds DEF Ends, Stay
  <2>2. ~Recovering(th["op"], [gov EXCEPT !.current = Capture(registry, rt),
                                          !.integrity = Restored(registry, th["op"].snap)], registry, rt)
    <3>1. ASSUME NEW here, NEW ret, NEW snap, NEW reg, NEW r, Restoring("op", here, ret, snap, reg, r),
                 here \in ThreadStates
          PROVE  th'["op"].pc = "restore"
      <4>1. PICK rec : rec = [here EXCEPT !.pc = "restore", !.wait = RestoreWaits(r, snap), !.ret = ret,
                                          !.snap = snap, !.owners = Active(reg), !.todo = snap.mounted,
                                          !.drop = Unwanted(r, snap)]
        OBVIOUS
      <4>2. rec.pc = "restore"
        BY <3>1, <4>1 DEF ThreadStates
      <4> QED
        BY <3>1, <4>1, <4>2, OpApart, Moved DEF Restoring
    <3> QED
      BY <3>1, RunFacts DEF Recovering, Ends
  <2>3. /\ Restored(registry, th["op"].snap) /\ registry' = registry /\ rt' = rt
        /\ gov' = [gov EXCEPT !.current = Capture(registry, rt),
                              !.integrity = Restored(registry, th["op"].snap)]
    BY <2>1, <2>2 DEF RollbackMounted
  <2>4. gov'.safeMode = gov.safeMode
    BY <2>3, SoundTyped DEF Inductive, Govs
  <2>5. spent.fatals \in Nat /\ spent.crashes \in Nat /\ spent.faults \in Nat
    BY DEF Inductive, Spendings
  <2>6. CASE spent.fatals = 0 /\ (gov.safeMode => Undisturbed(spent))
    BY <2>1, <2>3, <2>6, RollbackEnds DEF Restored
  <2>7. CASE ~(spent.fatals = 0 /\ (gov.safeMode => Undisturbed(spent)))
    BY <2>3, <2>4, <2>5, <2>7 DEF Restored, Undisturbed
  <2> QED
    BY <2>6, <2>7
<1> HIDE DEF Exact, I
<1>4. Spec => [][Exact]_vars
  BY <1>1, <1>2, <1>3, PTL DEF Spec
<1> QED
  BY <1>4 DEF RollbackExact, Exact

-----------------------------------------------------------------------------
(* What the record of a removal names.                                     *)

(* Where the record names the rows that are active.                        *)
Noted(rec) ==
    \/ rec.pc \in {"idle", "disable", "uninstall", "safe", "close", "shut"}
    \/ rec.then = "boot" /\ (rec.pc = "mounted" \/ (rec.pc = "mount" /\ rec.held = {}))

Recorded(rec, g, reg, s) ==
    Undisturbed(s) =>
        /\ Noted(rec) => g.current.owners = Active(reg)
        /\ rec.pc = "uninstall" => rec.todo \subseteq Active(reg)

(* The one failed write is the one of the removal that is taken back.      *)
Reverting(rec, g, reg, locked, s) ==
    Stage(rec) = "revert" /\ locked = "uninstall" /\ ~g.safeMode
    /\ s.fatals = 0 /\ s.crashes = 0 /\ s.faults = 1
        => Active(reg) = rec.prior.current.owners

RecordInv ==
    up # "down" => Recorded(th["op"], gov, registry, spent) /\ Reverting(th["op"], gov, registry, mutation, spent)

(* The call goes on elsewhere.                                             *)
LEMMA RecordOn ==
    ASSUME Inductive, NEW rec, Goto("op", rec), Stage(rec) # "revert", rec.pc # "uninstall",
           Undisturbed(spent') /\ Noted(rec) => gov'.current.owners = Active(registry')
    PROVE  RecordInv'
<1>1. th'["op"] = rec
  BY OpApart, Moved
<1>2. Recorded(rec, gov', registry', spent') /\ Reverting(rec, gov', registry', mutation', spent')
  BY DEF Recorded, Reverting
<1> QED
  BY <1>1, <1>2 DEF RecordInv

LEMMA RecordRest ==
    ASSUME Inductive, Rest("op"), Undisturbed(spent') => gov'.current.owners = Active(registry')
    PROVE  RecordInv'
<1>1. Resting.pc = "idle" /\ Stage(Resting) # "revert"
  BY DEF Resting, Stage
<1> QED
  BY <1>1, RecordOn DEF Rest

(* A write was lost: something was disturbed, and the call is over.        *)
LEMMA LostRecord ==
    ASSUME Inductive, FlushLost
    PROVE  RecordInv'
BY RecordRest DEF FlushLost, Inductive, Spendings, Undisturbed

(* It goes into runtime.restore.                                           *)
LEMMA RestoringRecord ==
    ASSUME Inductive, NEW here \in ThreadStates, NEW ret, ret # "revert", NEW snap, NEW reg, NEW r,
           Restoring("op", here, ret, snap, reg, r)
    PROVE  RecordInv'
<1>1. PICK rec : rec = [here EXCEPT !.pc = "restore", !.wait = RestoreWaits(r, snap), !.ret = ret,
                                    !.snap = snap, !.owners = Active(reg), !.todo = snap.mounted,
                                    !.drop = Unwanted(r, snap)]
  OBVIOUS
<1>2. rec.pc = "restore" /\ rec.ret = ret
  BY <1>1 DEF ThreadStates
<1>3. Stage(rec) # "revert" /\ ~Noted(rec)
  BY <1>2 DEF Stage, Noted
<1> QED
  BY <1>1, <1>2, <1>3, RecordOn DEF Restoring

(* It fails closed.                                                        *)
LEMMA FailingClosedRecord ==
    ASSUME Inductive, NEW here \in ThreadStates, NEW pc \in {"close", "shut"}, NEW reg, NEW g \in Govs,
           NEW r, FailingClosed("op", here, pc, reg, g, r)
    PROVE  RecordInv'
<1>1. PICK rec : rec = [here EXCEPT !.pc = pc, !.wait = UnloadWaits(r, Candidates), !.drop = r.generated]
  OBVIOUS
<1>2. rec.pc = pc
  BY <1>1 DEF ThreadStates
<1>3. gov'.current = Capture(DisableGenerated(reg), r) /\ registry' = DisableGenerated(reg)
  BY DEF FailingClosed, Govs
<1>4. gov'.current.owners = Active(registry')
  BY <1>3 DEF Capture
<1>5. Stage(rec) # "revert" /\ rec.pc # "uninstall"
  BY <1>2 DEF Stage
<1> QED
  BY <1>1, <1>4, <1>5, RecordOn DEF FailingClosed

(* It goes into the remount.                                               *)
LEMMA RemountingRecord ==
    ASSUME Inductive, NEW here \in ThreadStates, NEW then \in {"boot", "rollback"},
           NEW reg \in Registries, NEW g \in Govs, NEW r, NEW d, Remounting("op", here, then, reg, g, r, d),
           then = "boot" /\ Undisturbed(spent') => g.current.owners = Active(reg)
    PROVE  RecordInv'
<1>1. PICK targets : targets = Committed(g).owners \cap Candidates
  OBVIOUS
<1>2. PICK held : held = targets \cap Legacy \cap intact
  OBVIOUS
<1>3. PICK withheld : withheld = SetStatus(reg, held, "disabled")
  OBVIOUS
<1>4. PICK go : go = [here EXCEPT !.then = then, !.todo = {}, !.held = {}]
  OBVIOUS
<1>5. go \in ThreadStates /\ go.then = then
  BY <1>4 DEF ThreadStates
<1>6. \/ /\ g.safeMode /\ registry' = reg /\ gov' = g /\ rt' = r
         /\ Goto("op", [go EXCEPT !.pc = "mounted", !.wait = FALSE])
      \/ FailingClosed("op", go, "close", withheld, g, r)
      \/ /\ registry' = withheld /\ gov' = IF held = {} THEN g ELSE [g EXCEPT !.failure = Failure(Blamed(g), FALSE, FALSE)]
         /\ Goto("op", [go EXCEPT !.pc = "mount", !.wait = FALSE, !.todo = Remountable(g), !.held = held])
  BY <1>1, <1>2, <1>3, <1>4 DEF Remounting
<1>7. CASE /\ g.safeMode /\ registry' = reg /\ gov' = g /\ rt' = r
           /\ Goto("op", [go EXCEPT !.pc = "mounted", !.wait = FALSE])
  <2>1. PICK rec : rec = [go EXCEPT !.pc = "mounted", !.wait = FALSE]
    OBVIOUS
  <2>2. rec.pc = "mounted" /\ rec.then = then
    BY <1>5, <2>1 DEF ThreadStates
  <2>3. Stage(rec) # "revert" /\ (Noted(rec) => then = "boot")
    BY <2>2 DEF Stage, Noted
  <2> QED
    BY <1>7, <2>1, <2>2, <2>3, RecordOn
<1>8. CASE FailingClosed("op", go, "close", withheld, g, r)
  BY <1>5, <1>8, FailingClosedRecord
<1>9. CASE /\ registry' = withheld
           /\ gov' = IF held = {} THEN g ELSE [g EXCEPT !.failure = Failure(Blamed(g), FALSE, FALSE)]
           /\ Goto("op", [go EXCEPT !.pc = "mount", !.wait = FALSE, !.todo = Remountable(g), !.held = held])
  <2>1. PICK rec : rec = [go EXCEPT !.pc = "mount", !.wait = FALSE, !.todo = Remountable(g), !.held = held]
    OBVIOUS
  <2>2. rec.pc = "mount" /\ rec.then = then /\ rec.held = held
    BY <1>5, <2>1 DEF ThreadStates
  <2>3. Stage(rec) # "revert" /\ (Noted(rec) => then = "boot" /\ held = {})
    BY <2>2 DEF Stage, Noted
  <2>4. held = {} => withheld = reg
    BY <1>3 DEF SetStatus, Registries
  <2> QED
    BY <1>9, <2>1, <2>2, <2>3, <2>4, RecordOn
<1> QED
  BY <1>6, <1>7, <1>8, <1>9

(* A call that is under way: what its record says.                         *)
LEMMA RecordFacts ==
    ASSUME Inductive, LockInv, RecordInv, th["op"].pc # "idle"
    PROVE  /\ Recorded(th["op"], gov, registry, spent) /\ up # "down"
           /\ Reverting(th["op"], gov, registry, mutation, spent)
BY OpApart DEF RecordInv, Inductive

(* Nothing was disturbed: a boot is the first one, and no restore stopped. *)
LEMMA KeptFacts ==
    ASSUME KeptInv, up # "down", Undisturbed(spent)
    PROVE  /\ Kept(th["op"], gov, registry, rt)
           /\ up = "booting" => th["op"].then = "boot" /\ th["op"].pc \in {"mount", "close", "mounted"}
BY DEF KeptInv, AllKept

LEMMA NoMoreFaults ==
    ASSUME Inductive, spent' = [spent EXCEPT !.faults = @ + 1]
    PROVE  /\ ~Undisturbed(spent')
           /\ spent'.fatals = 0 /\ spent'.crashes = 0 /\ spent'.faults = 1 => Undisturbed(spent)
BY DEF Inductive, Spendings, Undisturbed

LEMMA AnswerDisturbs ==
    ASSUME Inductive, NEW g, FlushAnswered(g)
    PROVE  ~Undisturbed(spent')
BY NoMoreFaults DEF FlushAnswered

(* activate *)
LEMMA ActivationRecord ==
    ASSUME Inductive, \/ ActivatePrepared \/ ActivateHealthy \/ ActivateUnhealthy \/ ActivateCommitted
                      \/ ActivateUndone
    PROVE  RecordInv'
<1>1. th["op"] \in ThreadStates /\ gov \in Govs
  BY RunFacts, SoundTyped DEF Inductive
<1>2. PICK c : c = th["op"].cand
  OBVIOUS
<1>3. ASSUME NEW reg, NEW r, Restoring("op", th["op"], "undo", th["op"].snap, reg, r)
      PROVE  RecordInv'
  BY <1>1, <1>3, RestoringRecord
<1>4. ASSUME NEW rec, Goto("op", rec), rec.pc \in {"health", "commit"}
      PROVE  RecordInv'
  BY <1>4, RecordOn DEF Stage, Noted
<1>5. CASE ActivatePrepared
  <2>1. CASE Goto("op", [th["op"] EXCEPT !.pc = "health", !.wait = TRUE, !.start = None])
    <3>1. PICK rec : rec = [th["op"] EXCEPT !.pc = "health", !.wait = TRUE, !.start = None]
      OBVIOUS
    <3>2. rec.pc = "health"
      BY <1>1, <3>1 DEF ThreadStates
    <3> QED
      BY <1>4, <2>1, <3>1, <3>2
  <2>2. ASSUME NEW r \in Prepared(c), Restoring("op", th["op"], "undo", th["op"].snap, registry, r)
        PROVE  RecordInv'
    BY <1>3, <2>2
  <2>3. ASSUME NEW clash \in Clashes(c),
               Restoring("op", th["op"], "undo", th["op"].snap, registry, StartFailed(rt, c, clash))
        PROVE  RecordInv'
    BY <1>3, <2>3
  <2> QED
    BY <1>2, <1>5, <2>1, <2>2, <2>3 DEF ActivatePrepared
<1>6. CASE ActivateHealthy
  <2>1. CASE Goto("op", [th["op"] EXCEPT !.pc = "commit", !.wait = rt.parked[c] # {}])
    <3>1. PICK rec : rec = [th["op"] EXCEPT !.pc = "commit", !.wait = rt.parked[c] # {}]
      OBVIOUS
    <3>2. rec.pc = "commit"
      BY <1>1, <3>1 DEF ThreadStates
    <3> QED
      BY <1>4, <2>1, <3>1, <3>2
  <2> QED
    BY <1>2, <1>3, <1>6, <2>1 DEF ActivateHealthy
<1>7. CASE ActivateUnhealthy
  BY <1>3, <1>7 DEF ActivateUnhealthy
<1>8. CASE ActivateCommitted
  <2>1. PICK done : done = Capture(registry, Mounted(rt, c))
    OBVIOUS
  <2>2. gov'.current = done
    BY <1>1, <1>2, <1>8, <2>1 DEF ActivateCommitted, Govs
  <2>3. gov'.current.owners = Active(registry')
    BY <1>8, <2>1, <2>2 DEF ActivateCommitted, Capture
  <2>4. CASE Rest("op")
    BY <2>3, <2>4, RecordRest
  <2> QED
    BY <1>3, <1>8, <2>4 DEF ActivateCommitted, Release
<1>9. CASE ActivateUndone
  <2>1. gov'.current = Capture(registry', rt)
    BY <1>1, <1>9 DEF ActivateUndone, Govs
  <2>2. gov'.current.owners = Active(registry')
    BY <2>1 DEF Capture
  <2> QED
    BY <1>9, <2>2, RecordRest, LostRecord DEF ActivateUndone, Release
<1> QED
  BY <1>5, <1>6, <1>7, <1>8, <1>9

(* rollback *)
LEMMA RecoveringRecord ==
    ASSUME Inductive, NEW g, NEW reg, Recovering(th["op"], g, reg, rt)
    PROVE  RecordInv'
BY RunFacts, RestoringRecord DEF Recovering

LEMMA RollbackRecord ==
    ASSUME Inductive, LockInv, KeptInv, RecordInv,
           RollbackRestored \/ RollbackMounted \/ RollbackRecovered \/ RollbackClosed
    PROVE  RecordInv'
<1>1. PICK rec0 : rec0 = th["op"]
  OBVIOUS
<1>2. /\ rec0 \in ThreadStates /\ gov \in Govs /\ registry \in Registries /\ rt \in Runtimes
      /\ Resting \in ThreadStates /\ rec0.snap \in Snapshots
  BY <1>1, RunFacts, ThreadFacts, SoundTyped DEF Inductive, SoundRegistries, ThreadStates
<1>3. /\ Undisturbed(spent') => spent' = spent
      /\ rec0.pc # "idle" /\ up # "down" /\ Recorded(rec0, gov, registry, spent)
  <2>1. rec0.pc # "idle" /\ up # "down" /\ Recorded(rec0, gov, registry, spent)
    BY <1>1, RecordFacts DEF RollbackRestored, RollbackMounted, RollbackRecovered, RollbackClosed
  <2>2. spent' = spent \/ ~Undisturbed(spent')
    <3>1. FlushLost => ~Undisturbed(spent')
      BY DEF FlushLost, Inductive, Spendings, Undisturbed
    <3>2. RollbackRecovered => spent' = spent \/ ~Undisturbed(spent')
      BY <3>1, NoMoreFaults DEF RollbackRecovered
    <3>3. RollbackMounted => spent' = spent \/ ~Undisturbed(spent')
      BY AnswerDisturbs DEF RollbackMounted
    <3> QED
      BY <3>2, <3>3 DEF RollbackRestored, RollbackClosed
  <2> QED
    BY <2>1, <2>2
<1>4. up = "booting" => ~Undisturbed(spent) \/ (rec0.then = "boot" /\ rec0.pc \in {"mount", "close", "mounted"})
  BY <1>1, <1>3, KeptFacts
<1>5. PICK reg : reg = RestoredRegistry("op")
  OBVIOUS
<1>6. reg \in Registries
  BY <1>5, RestoredActive DEF SoundRegistries
<1>7. CASE RollbackRestored
  <2>1. PICK target : target = rec0.snap
    OBVIOUS
  <2>2. PICK back : back = [gov EXCEPT !.lkg = target, !.current = target, !.state = "rolled-back",
                                      !.pending = None]
    OBVIOUS
  <2>3. back \in Govs
    BY <1>2, <2>1, <2>2 DEF Govs, ActivationStates
  <2>4. \/ Remounting("op", rec0, "rollback", reg, back, rt, disk)
        \/ Recovering(rec0, gov, reg, rt)
    BY <1>1, <1>5, <1>7, <2>1, <2>2 DEF RollbackRestored
  <2> QED
    BY <1>1, <1>2, <1>6, <2>3, <2>4, RemountingRecord, RecoveringRecord
<1>8. CASE RollbackMounted
  <2>1. PICK ok : ok = Restored(registry, rec0.snap)
    OBVIOUS
  <2>2. PICK snap : snap = Capture(registry, rt)
    OBVIOUS
  <2>3. ok \in BOOLEAN /\ snap \in Snapshots /\ snap.owners = Active(registry)
    BY <1>2, <2>1, <2>2 DEF Restored, Capture, Snapshots, Runtimes, Active
  <2>4. PICK done : done = [gov EXCEPT !.current = snap, !.integrity = ok]
    OBVIOUS
  <2>5. done \in Govs /\ done.current = snap
    BY <1>2, <2>3, <2>4 DEF Govs
  <2>6. PICK d : d = FileOf(registry, approvals, done)
    OBVIOUS
  <2>7. \/ Remounting("op", Resting, "boot", registry, done, rt, d)
        \/ gov' = done /\ registry' = registry /\ Rest("op")
        \/ Recovering(rec0, done, registry, rt)
    BY <1>1, <1>8, <2>1, <2>2, <2>4, <2>6 DEF RollbackMounted, Release
  <2>8. CASE Remounting("op", Resting, "boot", registry, done, rt, d)
    BY <1>2, <2>3, <2>5, <2>8, RemountingRecord
  <2>9. CASE gov' = done /\ registry' = registry /\ Rest("op")
    BY <2>3, <2>5, <2>9, RecordRest
  <2> QED
    BY <1>1, <2>7, <2>8, <2>9, RecoveringRecord
<1>9. CASE RollbackRecovered
  <2>1. rec0.pc = "recover"
    BY <1>1, <1>9 DEF RollbackRecovered
  <2>2. CASE FailingClosed("op", rec0, "shut", reg, gov, rt)
    BY <1>2, <2>2, FailingClosedRecord
  <2>3. CASE Halt \/ Die
    BY <2>3 DEF Die, Halt, RecordInv
  <2>4. CASE rec0.ok /\ registry' = reg /\ gov' = [rec0.prior EXCEPT !.pending = gov.pending] /\ Rest("op")
    <3>1. rec0.prior \in Govs
      BY <1>2 DEF ThreadStates
    <3>2. gov'.current = rec0.prior.current
      BY <2>4, <3>1 DEF Govs
    <3>3. Active(reg) = rec0.snap.owners
      BY <1>1, <1>5, <2>4, RestoredActive
    <3>4. Undisturbed(spent) => rec0.snap = rec0.prior.current
      BY <1>1, <1>3, <2>1, KeptFacts DEF Kept, RestoreKept
    <3> QED
      BY <1>3, <2>4, <3>2, <3>3, <3>4, RecordRest
  <2> QED
    BY <1>1, <1>5, <1>9, <2>2, <2>3, <2>4, LostRecord DEF RollbackRecovered
<1>10. CASE RollbackClosed
  <2>1. rec0.pc = "shut"
    BY <1>1, <1>10 DEF RollbackClosed
  <2>2. PICK r : r = Dropped(rt, rec0.drop)
    OBVIOUS
  <2>3. PICK failure : failure = Failure(Blamed(gov), FALSE, TRUE)
    OBVIOUS
  <2>4. PICK closed : closed = [gov EXCEPT !.failure = failure]
    OBVIOUS
  <2>5. closed \in Govs /\ closed.current = gov.current
    <3>1. failure \in Failures
      BY <2>3, FailureTyped DEF Inductive
    <3> QED
      BY <1>2, <2>4, <3>1 DEF Govs
  <2>6. PICK d : d = FileOf(registry, approvals, closed)
    OBVIOUS
  <2>7. Undisturbed(spent) => gov.current.owners = Active(registry)
    BY <1>3, <2>1 DEF Recorded, Noted
  <2>8. \/ Remounting("op", Resting, "boot", registry, closed, r, d)
        \/ gov' = closed /\ registry' = registry /\ Rest("op")
    BY <1>1, <1>10, <2>2, <2>3, <2>4, <2>6 DEF RollbackClosed
  <2>9. CASE Remounting("op", Resting, "boot", registry, closed, r, d)
    BY <1>2, <1>3, <2>5, <2>7, <2>9, RemountingRecord
  <2>10. CASE gov' = closed /\ registry' = registry /\ Rest("op")
    BY <1>3, <2>5, <2>7, <2>10, RecordRest
  <2> QED
    BY <2>8, <2>9, <2>10
<1> QED
  BY <1>7, <1>8, <1>9, <1>10

(* Safe Mode, disable, uninstall.                                          *)
LEMMA RemovedRecord ==
    ASSUME Inductive, LockInv, ReadyInv, RecordInv, Removed
    PROVE  RecordInv'
<1>1. PICK rec0 : rec0 = th["op"]
  OBVIOUS
<1>2. /\ rec0 \in ThreadStates /\ gov \in Govs /\ registry \in Registries /\ rec0.todo \subseteq Rows
  BY <1>1, RunFacts, ThreadFacts, SoundTyped DEF Inductive, SoundRegistries, ThreadStates
<1>3. /\ rec0.pc \in {"disable", "uninstall"} /\ Recorded(rec0, gov, registry, spent) /\ up' = up /\ up # "down"
  BY <1>1, RecordFacts DEF Removed
<1>4. PICK row : row = rec0.todo
  OBVIOUS
<1>5. PICK r : r = Dropped(rt, rec0.drop)
  OBVIOUS
<1>6. PICK reg : reg = SetStatus(registry, row, "disabled")
  OBVIOUS
<1>7. PICK snap : snap = Capture(reg, r)
  OBVIOUS
<1>8. PICK g : g = [gov EXCEPT !.current = snap, !.lkg = IF rec0.pc = "uninstall" THEN snap ELSE @]
  OBVIOUS
<1>9. g.current = snap /\ snap.owners = Active(reg)
  BY <1>2, <1>7, <1>8 DEF Govs, Capture
<1>10. CASE registry' = reg /\ gov' = g /\ Rest("op")
  BY <1>9, <1>10, RecordRest
<1>11. CASE /\ spent' = [spent EXCEPT !.faults = @ + 1] /\ mutation' = mutation
            /\ \E free \in BOOLEAN : /\ registry' = IF free THEN SetStatus(reg, row, "active") ELSE reg
                                     /\ gov' = IF free THEN g ELSE [g EXCEPT !.safeMode = TRUE, !.state = "safe-mode"]
            /\ Restoring("op", rec0, "revert", rec0.prior.current, registry', r)
  <2>1. PICK free \in BOOLEAN : /\ registry' = IF free THEN SetStatus(reg, row, "active") ELSE reg
                                /\ gov' = IF free THEN g ELSE [g EXCEPT !.safeMode = TRUE, !.state = "safe-mode"]
    BY <1>11
  <2>2. PICK rec : rec = [rec0 EXCEPT !.pc = "restore", !.wait = RestoreWaits(r, rec0.prior.current),
                              !.ret = "revert", !.snap = rec0.prior.current, !.owners = Active(registry'),
                              !.todo = rec0.prior.current.mounted, !.drop = Unwanted(r, rec0.prior.current)]
    OBVIOUS
  <2>3. rec.prior = rec0.prior
    BY <1>2, <2>2 DEF ThreadStates
  <2>4. th'["op"] = rec
    BY <1>11, <2>2, OpApart, Moved DEF Restoring
  <2>5. Recorded(rec, gov', registry', spent')
    BY <1>11, NoMoreFaults DEF Recorded
  <2>6. ASSUME mutation = "uninstall", ~gov'.safeMode, spent'.fatals = 0, spent'.crashes = 0, spent'.faults = 1
        PROVE  Active(registry') = rec0.prior.current.owners
    <3>1. Undisturbed(spent)
      BY <1>11, <2>6, NoMoreFaults
    <3>2. Removing(rec0, gov, mutation)
      BY <1>1, <1>3, <3>1 DEF ReadyInv, AllReady, Ready, Undisturbed
    <3>3. rec0.pc = "uninstall" /\ rec0.prior.current = gov.current
      BY <1>3, <2>6, <3>2 DEF Removing
    <3>4. row \subseteq Active(registry) /\ gov.current.owners = Active(registry)
      BY <1>3, <1>4, <3>1, <3>3 DEF Recorded, Noted
    <3>5. free
      <4>1. g \in [DOMAIN gov -> {g[x] : x \in DOMAIN gov}] /\ "safeMode" \in DOMAIN gov
        BY <1>2, <1>8 DEF Govs
      <4> QED
        BY <2>1, <2>6, <4>1
    <3>6. Active(registry') = Active(registry)
      BY <1>2, <1>4, <1>6, <2>1, <3>4, <3>5 DEF Active, SetStatus, Registries
    <3> QED
      BY <3>3, <3>4, <3>6
  <2>7. Reverting(rec, gov', registry', mutation', spent')
    BY <1>11, <2>3, <2>6 DEF Reverting
  <2> QED
    BY <2>4, <2>5, <2>7 DEF RecordInv
<1> QED
  <2>1. PICK free : free = \A x \in row : MayActivate(reg, x)
    OBVIOUS
  <2>2. free \in BOOLEAN
    BY <2>1
  <2> QED
    BY <1>1, <1>4, <1>5, <1>6, <1>7, <1>8, <1>10, <1>11, <2>1, <2>2 DEF Removed, Release, FlushAnswered

LEMMA RemovalRecord ==
    ASSUME Inductive, LockInv, KeptInv, RecordInv, RemoveReverted \/ SafeModeEntered \/ Booted
    PROVE  RecordInv'
<1> SUFFICES ASSUME ~FlushLost
             PROVE  RecordInv'
  BY LostRecord
<1>1. th["op"].pc # "idle" /\ spent' = spent /\ Rest("op") /\ registry' = registry
  BY DEF RemoveReverted, SafeModeEntered, Booted, Release
<1>2. Recorded(th["op"], gov, registry, spent) /\ up # "down"
  BY <1>1, RecordFacts
<1>3. CASE RemoveReverted
  BY <1>1, <1>2, <1>3, KeptFacts, RecordRest DEF RemoveReverted, Kept
<1>4. CASE SafeModeEntered \/ Booted
  <2>1. Noted(th["op"]) /\ gov' = gov
    BY <1>4 DEF SafeModeEntered, Booted, Noted
  <2> QED
    BY <1>1, <1>2, <2>1, RecordRest DEF Recorded
<1> QED
  BY <1>3, <1>4

(* The waits of runtime.restore: the registry and the fields stay.         *)
LEMMA RestoreRecord ==
    ASSUME Inductive, LockInv, RecordInv, RestoreDropped("op") \/ RestoreStarted("op")
    PROVE  RecordInv'
<1>1. PICK rec0 : rec0 = th["op"]
  OBVIOUS
<1>2. /\ rec0 \in ThreadStates /\ rec0.pc \in {"restore", "restart"} /\ Stage(rec0) = rec0.ret
      /\ UNCHANGED <<gov, registry, mutation, spent, up>>
      /\ Reverting(rec0, gov, registry, mutation, spent) /\ up # "down"
  BY <1>1, RunFacts, RecordFacts DEF RestoreDropped, RestoreStarted, Stage
<1>3. ASSUME NEW rec, Goto("op", rec), rec.prior = rec0.prior, Stage(rec) = rec0.ret,
             ~Noted(rec), rec.pc # "uninstall"
      PROVE  RecordInv'
  <2>1. th'["op"] = rec
    BY <1>3, OpApart, Moved
  <2>2. Recorded(rec, gov', registry', spent')
    BY <1>3 DEF Recorded
  <2>3. Reverting(rec, gov', registry', mutation', spent')
    BY <1>2, <1>3 DEF Reverting
  <2> QED
    BY <2>1, <2>2, <2>3 DEF RecordInv
<1>4. ASSUME NEW ok \in BOOLEAN, Goto("op", RestoreEnded(rec0, ok))
      PROVE  RecordInv'
  <2>1. PICK rec : rec = RestoreEnded(rec0, ok)
    OBVIOUS
  <2>2. rec.pc = rec0.ret /\ rec.prior = rec0.prior
    BY <1>2, <2>1 DEF RestoreEnded, ThreadStates
  <2>3. rec0.ret \in Returns
    BY <1>1, <1>2, OpApart, ThreadFacts DEF Placed
  <2>4. Stage(rec) = rec0.ret /\ ~Noted(rec) /\ rec.pc # "uninstall"
    BY <2>2, <2>3 DEF Stage, Noted, Returns
  <2> QED
    BY <1>3, <1>4, <2>1, <2>2, <2>4
<1>5. ASSUME NEW r, RestoreLoop("op", r)
      PROVE  RecordInv'
  <2>1. ASSUME NEW c, Goto("op", [rec0 EXCEPT !.pc = "restart", !.wait = TRUE, !.drop = {}, !.start = c,
                                              !.todo = @ \ {c}])
        PROVE  RecordInv'
    <3>1. PICK rec : rec = [rec0 EXCEPT !.pc = "restart", !.wait = TRUE, !.drop = {}, !.start = c,
                                        !.todo = @ \ {c}]
      OBVIOUS
    <3>2. rec.pc = "restart" /\ rec.prior = rec0.prior /\ rec.ret = rec0.ret
      BY <1>2, <3>1 DEF ThreadStates
    <3>3. Stage(rec) = rec0.ret /\ ~Noted(rec)
      BY <3>2 DEF Stage, Noted
    <3> QED
      BY <1>3, <2>1, <3>1, <3>2, <3>3
  <2> QED
    BY <1>1, <1>4, <1>5, <2>1 DEF RestoreLoop
<1> QED
  BY <1>1, <1>4, <1>5 DEF RestoreDropped, RestoreStarted

(* The waits of the remount.                                               *)
LEMMA MountRecord ==
    ASSUME Inductive, LockInv, KeptInv, RecordInv,
           MountNext("op") \/ MountStarted("op") \/ MountsDone("op") \/ MountsCleared("op") \/ Closed("op")
    PROVE  RecordInv'
<1>1. PICK rec0 : rec0 = th["op"]
  OBVIOUS
<1>2. /\ rec0 \in ThreadStates /\ gov \in Govs /\ rt \in Runtimes
      /\ rec0.pc \in {"mount", "mounting", "clear", "close"} /\ spent' = spent
      /\ registry' = registry \/ MountsCleared("op")
      /\ Recorded(rec0, gov, registry, spent) /\ up # "down"
  BY <1>1, RunFacts, RecordFacts, SoundTyped
     DEF MountNext, MountStarted, MountsDone, MountsCleared, Closed, Inductive
<1>3. CASE MountNext("op")
  <2>1. PICK c : \/ Goto("op", [rec0 EXCEPT !.todo = @ \ {c}])
                 \/ Goto("op", [rec0 EXCEPT !.pc = "mounting", !.wait = TRUE, !.todo = @ \ {c}, !.start = c])
    BY <1>1, <1>3 DEF MountNext
  <2>2. PICK rec : /\ Goto("op", rec)
                   /\ \/ rec = [rec0 EXCEPT !.todo = @ \ {c}]
                      \/ rec = [rec0 EXCEPT !.pc = "mounting", !.wait = TRUE, !.todo = @ \ {c}, !.start = c]
    BY <2>1
  <2>3. rec0.pc = "mount" /\ gov' = gov /\ registry' = registry /\ spent' = spent
    BY <1>1, <1>3 DEF MountNext
  <2>4. rec.pc \in {"mount", "mounting"} /\ (Noted(rec) => Noted(rec0))
    BY <1>2, <2>2, <2>3 DEF ThreadStates, Noted
  <2>5. Undisturbed(spent') /\ Noted(rec) => gov'.current.owners = Active(registry')
    BY <1>2, <2>3, <2>4 DEF Recorded
  <2> QED
    BY <2>2, <2>4, <2>5, RecordOn DEF Stage
<1>4. CASE MountStarted("op")
  <2>1. PICK c : c = rec0.start
    OBVIOUS
  <2>2. CASE Goto("op", [rec0 EXCEPT !.pc = "mount", !.wait = FALSE, !.start = None])
    <3>1. PICK rec : rec = [rec0 EXCEPT !.pc = "mount", !.wait = FALSE, !.start = None]
      OBVIOUS
    <3>2. rec.pc = "mount" /\ rec0.pc = "mounting" /\ spent' = spent
      BY <1>1, <1>2, <1>4, <3>1 DEF ThreadStates, MountStarted
    <3>3. ~Undisturbed(spent')
      BY <1>1, <1>2, <3>2, KeptFacts DEF Kept
    <3> QED
      BY <2>2, <3>1, <3>2, <3>3, RecordOn DEF Stage
  <2>3. ASSUME NEW clash, Restoring("op", rec0, "clear", [owners |-> rec0.snap.owners, mounted |-> {}],
                                    registry, StartFailed(rt, c, clash))
        PROVE  RecordInv'
    BY <1>2, <2>3, RestoringRecord
  <2> QED
    BY <1>1, <1>4, <2>1, <2>2, <2>3 DEF MountStarted
<1>5. CASE MountsDone("op")
  <2>1. PICK rec : rec = [rec0 EXCEPT !.pc = "mounted", !.wait = FALSE]
    OBVIOUS
  <2>2. rec.pc = "mounted" /\ rec.then = rec0.then /\ rec0.pc = "mount" /\ spent' = spent /\ registry' = registry
    BY <1>1, <1>2, <1>5, <2>1 DEF ThreadStates, MountsDone
  <2>3. PICK now : now = Capture(registry, rt)
    OBVIOUS
  <2>4. \/ rec0.held = {} /\ gov' = gov
        \/ gov' = Adopted(gov, now)
    BY <1>1, <1>5, <2>3 DEF MountsDone
  <2>5. gov' = Adopted(gov, now) => gov'.current.owners = Active(registry')
    <3>1. gov' = Adopted(gov, now) => gov'.current = now
      BY <1>2 DEF Adopted, Govs
    <3> QED
      BY <2>2, <2>3, <3>1 DEF Capture
  <2>6. Undisturbed(spent') /\ Noted(rec) => gov'.current.owners = Active(registry')
    BY <1>2, <2>2, <2>4, <2>5 DEF Recorded, Noted
  <2> QED
    BY <1>1, <1>5, <2>1, <2>2, <2>6, RecordOn DEF MountsDone, Stage
<1>6. CASE MountsCleared("op")
  BY <1>1, <1>2, <1>6, FailingClosedRecord DEF MountsCleared
<1>7. CASE Closed("op")
  <2>1. PICK rec : rec = [rec0 EXCEPT !.pc = "mounted", !.wait = FALSE, !.drop = {}]
    OBVIOUS
  <2>2. rec.pc = "mounted" /\ rec.then = rec0.then /\ rec0.pc = "close" /\ spent' = spent /\ registry' = registry
    BY <1>1, <1>2, <1>7, <2>1 DEF ThreadStates, Closed
  <2>3. gov'.current = gov.current
    BY <1>2, <1>7 DEF Closed, Govs
  <2>4. Undisturbed(spent') /\ Noted(rec) => gov'.current.owners = Active(registry')
    BY <1>2, <2>2, <2>3 DEF Recorded, Noted
  <2> QED
    BY <1>1, <1>7, <2>1, <2>2, <2>4, RecordOn DEF Closed, Stage
<1> QED
  BY <1>3, <1>4, <1>5, <1>6, <1>7

(* A home as it was found.                                                 *)
LEMMA HomeRecord ==
    ASSUME BeforeBoot(gov, registry, rt)
    PROVE  gov.current.owners = Active(registry) /\ gov.state \in {"idle", "active"}
<1>1. PICK kept \in {{}, Legacy} : gov = HomeState(kept) /\ registry = HomeRegistry(kept)
  BY DEF BeforeBoot
<1>2. kept \subseteq Candidates /\ Candidates \subseteq Rows
  BY GovernanceAssumption, RowsAssumption
<1>3. Active(registry) = (Rows \ Candidates) \cup kept
  BY <1>1, <1>2 DEF Active, HomeRegistry
<1> QED
  BY <1>1, <1>3 DEF HomeState

LEMMA BootRecord ==
    ASSUME Inductive, KeptInv, Boot
    PROVE  RecordInv'
<1>1. /\ registry \in Registries /\ gov \in Govs /\ Resting \in ThreadStates /\ spent' = spent /\ up = "down"
  BY RunFacts, SoundTyped DEF Boot, Inductive, SoundRegistries
<1>2. Undisturbed(spent) => gov.current.owners = Active(registry)
  BY <1>1, HomeRecord DEF KeptInv
<1>3. PICK broken, g, d :
         /\ broken = (gov.state \in {"activation-pending", "activating"})
         /\ g = IF broken THEN [gov EXCEPT !.state = "activation-failed", !.pending = None,
                                          !.failure = Failure(gov.pending, TRUE, FALSE)]
                          ELSE gov
         /\ d = [disk EXCEPT !.gov = g, !.store.gov = g]
  OBVIOUS
<1>4. \/ StartRollback(g, [g EXCEPT !.state = "active"], rt)
      \/ Remounting("op", Resting, "boot", registry, g, rt, d)
  BY <1>3 DEF Boot
<1>5. g \in Govs /\ g.current = gov.current
  <2>1. CASE broken
    <3>1. PICK failure : failure = Failure(gov.pending, TRUE, FALSE)
      OBVIOUS
    <3>2. failure \in Failures
      BY <1>1, <3>1 DEF Failure, Failures, Govs
    <3>3. g = [gov EXCEPT !.state = "activation-failed", !.pending = None, !.failure = failure]
      BY <1>3, <2>1, <3>1
    <3> QED
      BY <1>1, <3>2, <3>3 DEF Govs, ActivationStates
  <2>2. CASE ~broken
    BY <1>1, <1>3, <2>2
  <2> QED
    BY <2>1, <2>2
<1>6. CASE StartRollback(g, [g EXCEPT !.state = "active"], rt)
  <2>1. PICK prior : prior = [g EXCEPT !.state = "active"]
    OBVIOUS
  <2>2. PICK here : here = [Resting EXCEPT !.prior = prior, !.cand = None]
    OBVIOUS
  <2>3. prior \in Govs
    BY <1>5, <2>1 DEF Govs, ActivationStates
  <2>4. here \in ThreadStates
    BY <1>1, <2>2, <2>3 DEF ThreadStates
  <2> QED
    BY <1>6, <2>1, <2>2, <2>4, RestoringRecord DEF StartRollback
<1>7. CASE Remounting("op", Resting, "boot", registry, g, rt, d)
  BY <1>1, <1>2, <1>5, <1>7, RemountingRecord
<1> QED
  BY <1>4, <1>6, <1>7

(* A call that is admitted.                                                *)
LEMMA RequestRecord ==
    ASSUME Inductive, LockInv, RecordInv, Request
    PROVE  RecordInv'
<1>1. /\ Resting \in ThreadStates /\ gov \in Govs /\ registry \in Registries
      /\ spent.fatals \in Nat /\ spent.crashes \in Nat /\ spent.faults \in Nat
  BY RunFacts, SoundTyped DEF Inductive, SoundRegistries, Spendings
<1>2. ASSUME LifecycleIdle
      PROVE  /\ th["op"].pc = "idle" /\ up = "up"
             /\ Undisturbed(spent) => gov.current.owners = Active(registry)
  <2>1. th["op"].pc = "idle" /\ up = "up"
    BY <1>2, IdleCall DEF LifecycleIdle
  <2>2. Noted(th["op"])
    BY <2>1 DEF Noted
  <2> QED
    BY <2>1, <2>2 DEF RecordInv, Recorded
<1>3. ASSUME NEW c \in Candidates, \/ RequestApproval(c) \/ RecordApproval(c, "approved-for-exact-diff")
                                   \/ RecordApproval(c, "rejected")
      PROVE  RecordInv'
  <2>1. /\ UNCHANGED <<registry, gov, mutation, up, th>>
        /\ spent'.fatals = spent.fatals /\ spent'.crashes = spent.crashes /\ spent'.faults = spent.faults
    BY <1>3 DEF RequestApproval, RecordApproval, SpendApproval, Inductive, Spendings
  <2> QED
    BY <2>1 DEF RecordInv, Recorded, Reverting, Undisturbed
<1>4. ASSUME LifecycleIdle, UNCHANGED th, Undisturbed(spent') => gov'.current.owners = Active(registry')
      PROVE  RecordInv'
  BY <1>2, <1>4 DEF RecordInv, Recorded, Reverting, Stage
<1>5. ASSUME NEW c \in Candidates, AbandonFailedActivation(c)
      PROVE  RecordInv'
  <2>1. LifecycleIdle /\ UNCHANGED <<th, registry, spent>>
    BY <1>5 DEF AbandonFailedActivation
  <2>2. gov'.current = gov.current
    BY <1>1, <1>5 DEF AbandonFailedActivation, Govs
  <2> QED
    BY <1>2, <1>4, <2>1, <2>2
<1>6. CASE ExitSafeMode
  <2>1. LifecycleIdle /\ UNCHANGED <<th, registry, spent>>
    BY <1>6 DEF ExitSafeMode
  <2>2. gov'.current = Capture(registry, rt)
    BY <1>1, <1>6 DEF ExitSafeMode, Govs
  <2> QED
    BY <1>4, <2>1, <2>2 DEF Capture
<1>7. ASSUME NEW c \in Candidates, ActivateStart(c)
      PROVE  RecordInv'
  <2>1. PICK rec : rec = [Resting EXCEPT !.pc = "prepare", !.cand = c, !.snap = gov.lkg, !.prior = gov,
                                    !.wait = c \notin rt.generated,
                                    !.start = IF c \in rt.generated THEN None ELSE c]
    OBVIOUS
  <2>2. rec.pc = "prepare"
    BY <1>1, <2>1 DEF ThreadStates
  <2>3. Stage(rec) # "revert" /\ ~Noted(rec)
    BY <2>2 DEF Stage, Noted
  <2> QED
    BY <1>7, <2>1, <2>2, <2>3, RecordOn, LostRecord DEF ActivateStart
<1>8. CASE Rollback
  <2> SUFFICES ASSUME ~FlushLost
               PROVE  RecordInv'
    BY LostRecord
  <2>1. PICK g, here : /\ Restoring("op", here, "rollback", Fallback(g), registry, rt)
                       /\ here = [Resting EXCEPT !.prior = gov, !.cand = None]
    BY <1>8 DEF Rollback, StartRollback
  <2>2. here \in ThreadStates
    BY <1>1, <2>1 DEF ThreadStates
  <2> QED
    BY <2>1, <2>2, RestoringRecord
<1>9. CASE EnterSafeMode
  <2>1. PICK rec : rec = [Resting EXCEPT !.pc = "safe", !.wait = UnloadWaits(rt, Candidates),
                                         !.drop = rt.generated]
    OBVIOUS
  <2>2. rec.pc = "safe"
    BY <1>1, <2>1 DEF ThreadStates
  <2>3. gov'.current = Capture(registry', rt)
    BY <1>1, <1>9 DEF EnterSafeMode, Govs
  <2>4. gov'.current.owners = Active(registry')
    BY <2>3 DEF Capture
  <2>5. Goto("op", rec)
    BY <1>9, <2>1 DEF EnterSafeMode
  <2>6. Stage(rec) # "revert"
    BY <2>2 DEF Stage
  <2> QED
    BY <2>2, <2>4, <2>5, <2>6, RecordOn
<1>10. ASSUME NEW x \in Rows, NEW kind \in {"disable", "uninstall"}, RemoveStart(x, kind)
       PROVE  RecordInv'
  <2>1. PICK unload : unload = {x} \cap Candidates
    OBVIOUS
  <2>2. PICK rec : rec = [Resting EXCEPT !.pc = kind, !.wait = UnloadWaits(rt, unload), !.todo = {x},
                                         !.drop = unload \cap rt.generated, !.prior = gov]
    OBVIOUS
  <2>3. rec.pc = kind /\ rec.todo = {x}
    BY <1>1, <2>2 DEF ThreadStates
  <2>4. /\ LifecycleIdle /\ UNCHANGED <<gov, registry, spent>> /\ Goto("op", rec)
        /\ kind = "uninstall" => registry[x] = "active"
    BY <1>10, <2>1, <2>2 DEF RemoveStart
  <2>5. Undisturbed(spent) => gov.current.owners = Active(registry)
    BY <1>2, <2>4
  <2>6. kind = "uninstall" => {x} \subseteq Active(registry)
    BY <2>4 DEF Active
  <2>7. Recorded(rec, gov', registry', spent')
    BY <2>3, <2>4, <2>5, <2>6 DEF Recorded
  <2>8. Reverting(rec, gov', registry', mutation', spent')
    BY <2>3 DEF Reverting, Stage
  <2>9. th'["op"] = rec
    BY <2>4, OpApart, Moved
  <2> QED
    BY <2>7, <2>8, <2>9 DEF RecordInv
<1>11. \/ \E c \in Candidates : \/ RequestApproval(c)
                               \/ RecordApproval(c, "approved-for-exact-diff")
                               \/ RecordApproval(c, "rejected")
       \/ \E c \in Candidates : AbandonFailedActivation(c)
       \/ \E c \in Candidates : ActivateStart(c)
       \/ Rollback \/ EnterSafeMode \/ ExitSafeMode
       \/ \E x \in Rows : RemoveStart(x, "disable") \/ RemoveStart(x, "uninstall")
  BY DEF Request
<1> QED
  BY <1>3, <1>5, <1>6, <1>7, <1>8, <1>9, <1>10, <1>11

(* Every step keeps the invariant.                                         *)
LEMMA NextRecord ==
    ASSUME Inductive, LockInv, RunsInv, KeptInv, ReadyInv, RecordInv, [Next]_vars
    PROVE  RecordInv'
<1> SUFFICES ASSUME spent'.fatals = 0
             PROVE  RecordInv'
  BY DEF RecordInv, Recorded, Reverting, Undisturbed
<1>1. AllRun /\ \A c \in Candidates : ~RunnerDies(c)
  BY DeathsCounted DEF RunsInv
<1>2. ASSUME NEW t \in Threads, Advance(t)
      PROVE  RecordInv'
  <2>1. CASE t \in Candidates
    BY <1>1, <1>2, <2>1, OpApart DEF AllRun, Advance, FailureStep, FailureRestored,
       FailureHandled, MountStep,
       RestoreDropped, RestoreStarted, MountNext, MountStarted, MountsDone, MountsCleared, Closed
  <2>2. CASE OpStep
    BY <2>2, ActivationRecord, RollbackRecord, RemovedRecord, RemovalRecord DEF OpStep
  <2>3. CASE MountStep("op")
    BY <2>3, RestoreRecord, MountRecord DEF MountStep
  <2> QED
    BY <1>2, <2>1, <2>2, <2>3, OpApart DEF Advance, Threads
<1>3. CASE Environment
  <2>1. Crash => RecordInv'
    BY DEF Crash, Die, Halt, RecordInv
  <2>2. ASSUME NEW c \in Candidates, Tamper(c)
        PROVE  RecordInv'
    <3>1. /\ spent'.fatals = spent.fatals /\ spent'.crashes = spent.crashes /\ spent'.faults = spent.faults
          /\ UNCHANGED <<th, gov, registry, mutation, up>>
      BY <2>2 DEF Tamper, Inductive, Spendings
    <3> QED
      BY <3>1 DEF RecordInv, Recorded, Reverting, Undisturbed
  <2> QED
    BY <1>1, <1>3, <2>1, <2>2 DEF Environment
<1>4. CASE UNCHANGED vars
  BY <1>4 DEF vars, RecordInv
<1> QED
  BY <1>2, <1>3, <1>4, RequestRecord, BootRecord DEF Next

(* The invariant holds at first: no process is up.                         *)
LEMMA InitRecord ==
    ASSUME Init
    PROVE  RecordInv
BY DEF Init, RecordInv

(* A removal that is taken back has what was mounted running again.        *)
LEMMA RevertEnds ==
    ASSUME Inductive, LockInv, RunsInv, ReadyInv, RecordInv, RemoveReverted, up # "down",
           mutation = "uninstall", ~gov'.safeMode, spent.fatals = 0
    PROVE  /\ rt.live = th["op"].prior.current.mounted \cap rt.recipes
           /\ spent.crashes = 0 /\ spent.faults = 1 => Active(registry) = th["op"].prior.current.owners
<1>1. PICK rec : rec = th["op"]
  OBVIOUS
<1>2. /\ rec \in ThreadStates /\ gov \in Govs /\ rec.pc = "revert" /\ Calm(rt)
      /\ Raised(rec, rt) /\ Removing(rec, gov, mutation) /\ Reverting(rec, gov, registry, mutation, spent)
  BY <1>1, RunFacts, RecordFacts, PointCalm, SoundTyped
     DEF RemoveReverted, RunsInv, ReadyInv, AllReady, Ready, Inductive
<1>3. gov'.safeMode = (gov.safeMode \/ ~rec.ok)
  BY <1>1, <1>2 DEF RemoveReverted, Govs
<1>4. rec.ok /\ ~gov.safeMode
  BY <1>2, <1>3 DEF ThreadStates, Govs
<1>5. rec.snap = rec.prior.current
  BY <1>2 DEF Removing, Stage
<1>6. rt.generated = rec.snap.mounted \cap rt.recipes
  BY <1>2, <1>4 DEF Raised
<1> QED
  BY <1>1, <1>2, <1>4, <1>5, <1>6 DEF Calm, Reverting, Stage

(* UninstallUndone: the restore at the end of a failed uninstall starts    *)
(* again every extension the record mounts which this process can start.   *)
THEOREM UninstallsAreUndone == VersionsClash => (Spec => UninstallUndone)
<1> SUFFICES ASSUME VersionsClash
             PROVE  Spec => UninstallUndone
  OBVIOUS
<1> DEFINE I == /\ Inductive /\ LockInv /\ WithheldInv /\ RunsInv /\ KeptInv /\ OnceInv
                /\ ReadyInv /\ RecordInv
           Undone == Ends("revert") /\ mutation = "uninstall" /\ ~gov'.safeMode /\ spent.fatals = 0 =>
                        /\ rt'.live = th["op"].prior.current.mounted \cap rt.recipes
                        /\ spent.crashes = 0 /\ spent.faults = 1 =>
                               Active(registry') = th["op"].prior.current.owners
<1>1. Init => I
  BY InitInductive, InitLock, InitWithheld, InitRuns, InitKept, InitOnce, InitReady, InitRecord
<1>2. I /\ [Next]_vars => I'
  BY NextInductive, NextLock, NextWithheld, NextRuns, NextKept, NextOnce, NextReady, NextRecord
<1>3. I /\ [Next]_vars => [Undone]_vars
  <2> SUFFICES ASSUME I, [Next]_vars, Ends("revert"), mutation = "uninstall", ~gov'.safeMode,
                      spent.fatals = 0
               PROVE  /\ rt'.live = th["op"].prior.current.mounted \cap rt.recipes
                      /\ spent.crashes = 0 /\ spent.faults = 1 =>
                             Active(registry') = th["op"].prior.current.owners
    OBVIOUS
  <2>1. RemoveReverted /\ up # "down"
    BY CallEnds DEF Ends, Stay
  <2>2. rt' = rt /\ registry' = registry
    BY <2>1 DEF RemoveReverted
  <2> QED
    BY <2>1, <2>2, RevertEnds
<1> HIDE DEF Undone, I
<1>4. Spec => [][Undone]_vars
  BY <1>1, <1>2, <1>3, PTL DEF Spec
<1> QED
  BY <1>4 DEF UninstallUndone, Undone
=============================================================================
