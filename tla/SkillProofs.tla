------------------------------- MODULE SkillProofs -------------------------------
(***************************************************************************)
(* What SealedKept and ServedWasApproved rest on: an index whose records   *)
(* agree with the candidates, the reviews and the approvals; directories   *)
(* that hold approved contents; and an operation under way whose way back  *)
(* is an index as good as this one.  Then what ServedIsCommitted rests on: *)
(* between the calls of an operation DSH serves what the index before it   *)
(* or the index after it says.  Last, what ActsAsShown rests on: no page   *)
(* shows a store that the service has not written yet.                     *)
(***************************************************************************)
EXTENDS SkillProperties, SkillDesk, SequenceTheorems, TLAPS

Indexes ==
    [records : [Ids -> Records], active : [Names -> Ids \cup {None}],
     last : Ids \cup {None}, reviews : SUBSET (Ids \X Bytes),
     approvals : SUBSET (Ids \X Bytes), degraded : BOOLEAN]

(* A record, its candidate, and the reviews and approvals given for it. *)
Agrees(rec, id, idx, dirs) ==
    rec.life # "none" =>
        /\ rec.sealed => dirs[id] = rec.digest
        /\ rec.fingerprint # None => rec.sealed /\ <<id, rec.fingerprint[1]>> \in idx.reviews
        /\ rec.decision = "approved" =>
              rec.fingerprint # None /\ <<id, rec.fingerprint[1]>> \in idx.approvals

(* A revision whose digest was reviewed and approved, and is settled. *)
Backed(id, idx) ==
    /\ idx.records[id].life # "none" /\ idx.records[id].sealed
    /\ <<id, idx.records[id].digest>> \in idx.approvals \cap idx.reviews

Sound(idx, dirs) ==
    /\ idx \in Indexes
    /\ \A id \in Ids : Agrees(idx.records[id], id, idx, dirs)
    /\ \A n \in Names : idx.active[n] # None =>
          Name(idx.active[n]) = n /\ Backed(idx.active[n], idx)
    /\ idx.last # None => Backed(idx.last, idx)

(* A directory of a skill, when it is whole, was approved as it is. *)
Vouched(dir, n, idx) ==
    dir \in Bytes =>
        \E id \in Ids : Name(id) = n /\ <<id, dir>> \in idx.approvals \cap idx.reviews

DirectoriesVouched ==
    /\ candidates \in [Ids -> Directories]
    /\ {incoming, active, outgoing} \subseteq [Names -> Directories]
    /\ \A n \in Names :
          /\ Vouched(incoming[n], n, index)
          /\ Vouched(active[n], n, index)
          /\ Vouched(outgoing[n], n, index)

Changes == {"publish", "discard", "park", "place", "commit", "sync", "cleanup",
            "undo", "restore", "revert", "resync", "degrade"}

Calls ==
    [kind : {"activate"}, id : Ids, before : Indexes,
     cause : {"none", "directory", "index", "sync"}] \cup
    [kind : {"retire"}, id : Ids, life : {"disabled", "uninstalled"}, before : Indexes,
     cause : {"none", "directory", "index", "sync"}]

(* The operation under way and the index it would bring back. *)
UnderWay ==
    /\ pc = "record" => op.id \in Ids /\ op.bytes \in Bytes /\ ~Known(op.id)
    /\ pc = "digest" => op.id \in Ids /\ op.bytes \in Bytes /\ Known(op.id) /\ ~Record(op.id).sealed
    /\ pc = "review" => op.id \in Ids /\ Known(op.id)
    /\ pc \in Changes =>
          /\ op \in Calls /\ Sound(op.before, candidates)
          /\ Backed(op.id, index) /\ Backed(op.id, op.before)
          /\ op.before.approvals = index.approvals /\ op.before.reviews = index.reviews
          /\ loading # NoOp => op.before.records[loading.id].life # "none"

(* A validate that waits is of a revision there is. *)
Waits == loading # NoOp => loading.id \in Ids /\ loading.bytes \in Bytes /\ Known(loading.id)

Places == {"idle", "record", "digest", "review", "opening", "attach", "refused"} \cup Changes

SkillInvariant ==
    /\ pc \in Places
    /\ Sound(index, candidates) /\ DirectoriesVouched /\ UnderWay /\ Waits

-----------------------------------------------------------------------------
(* One record of the index changes, to one that agrees with its candidate  *)
(* and leaves a settled revision as it is.                                 *)
LEMMA RecordChanges ==
    ASSUME NEW dirs, NEW idx, Sound(idx, dirs), NEW id \in Ids, NEW rec \in Records,
           rec.life # "none", Agrees(rec, id, idx, dirs),
           Backed(id, idx) => rec.sealed /\ rec.digest = idx.records[id].digest
    PROVE  /\ Sound(Update(idx, id, rec), dirs)
           /\ \A x \in Ids : Backed(x, idx) => Backed(x, Update(idx, id, rec))
           /\ Update(idx, id, rec).approvals = idx.approvals
           /\ Update(idx, id, rec).reviews = idx.reviews
           /\ Update(idx, id, rec).records = [idx.records EXCEPT ![id] = rec]
<1> DEFINE new == Update(idx, id, rec)
<1>1. /\ new.approvals = idx.approvals /\ new.reviews = idx.reviews
      /\ new.records = [idx.records EXCEPT ![id] = rec]
      /\ new.active = idx.active /\ new.last = idx.last /\ new.degraded = idx.degraded
      /\ new \in Indexes
  BY DEF Update, Sound, Indexes
<1>2. \A x \in Ids : new.records[x] = IF x = id THEN rec ELSE idx.records[x]
  BY <1>1 DEF Sound, Indexes
<1> HIDE DEF new
<1>3. \A x \in Ids : Backed(x, idx) => Backed(x, new)
  BY <1>1, <1>2 DEF Backed
<1>4. \A x \in Ids : Agrees(new.records[x], x, new, dirs)
  BY <1>1, <1>2 DEF Agrees, Sound
<1>5. Sound(new, dirs)
  BY <1>1, <1>3, <1>4 DEF Sound, Indexes
<1> QED BY <1>1, <1>3, <1>5 DEF new

(* A revision that is approved anew.                                       *)
LEMMA ApprovalAdded ==
    ASSUME NEW dirs, NEW idx, Sound(idx, dirs), NEW p \in Ids \X Bytes
    PROVE  LET more == [idx EXCEPT !.approvals = @ \cup {p}] IN
           /\ Sound(more, dirs) /\ more.records = idx.records /\ more.reviews = idx.reviews
           /\ more.approvals = idx.approvals \cup {p}
           /\ \A x \in Ids : Backed(x, idx) => Backed(x, more)
<1> DEFINE more == [idx EXCEPT !.approvals = @ \cup {p}]
<1>1. /\ more.approvals = idx.approvals \cup {p} /\ more.reviews = idx.reviews
      /\ more.records = idx.records /\ more.active = idx.active /\ more.last = idx.last
      /\ more \in Indexes
  BY DEF Sound, Indexes
<1> HIDE DEF more
<1>2. \A x \in Ids : Backed(x, idx) => Backed(x, more)
  BY <1>1 DEF Backed
<1>3. \A x \in Ids : Agrees(more.records[x], x, more, dirs)
  BY <1>1 DEF Agrees, Sound
<1>4. Sound(more, dirs)
  BY <1>1, <1>2, <1>3 DEF Sound, Indexes
<1> QED BY <1>1, <1>2, <1>4 DEF more

(* A review that completed.                                                *)
LEMMA ReviewAdded ==
    ASSUME NEW dirs, NEW idx, Sound(idx, dirs), NEW p \in Ids \X Bytes
    PROVE  LET more == [idx EXCEPT !.reviews = @ \cup {p}] IN
           /\ Sound(more, dirs) /\ more.records = idx.records /\ more.approvals = idx.approvals
           /\ more.reviews = idx.reviews \cup {p}
           /\ \A x \in Ids : Backed(x, idx) => Backed(x, more)
<1> DEFINE more == [idx EXCEPT !.reviews = @ \cup {p}]
<1>1. /\ more.reviews = idx.reviews \cup {p} /\ more.approvals = idx.approvals
      /\ more.records = idx.records /\ more.active = idx.active /\ more.last = idx.last
      /\ more \in Indexes
  BY DEF Sound, Indexes
<1> HIDE DEF more
<1>2. \A x \in Ids : Backed(x, idx) => Backed(x, more)
  BY <1>1 DEF Backed
<1>3. \A x \in Ids : Agrees(more.records[x], x, more, dirs)
  BY <1>1 DEF Agrees, Sound
<1>4. Sound(more, dirs)
  BY <1>1, <1>2, <1>3 DEF Sound, Indexes
<1> QED BY <1>1, <1>2, <1>4 DEF more

(* The life of a record is no part of what it agrees with.                 *)
LEMMA LifeOnly ==
    ASSUME NEW rec \in Records, rec.life # "none", NEW life \in Lives
    PROVE  LET new == [rec EXCEPT !.life = life] IN
           /\ new \in Records /\ new.life = life
           /\ new.sealed = rec.sealed /\ new.digest = rec.digest
           /\ new.fingerprint = rec.fingerprint /\ new.decision = rec.decision
<1>1. rec \in Records \ {NoRecord}
  BY DEF Records, NoRecord
<1> QED BY <1>1 DEF Records, NoRecord, Lives

(* The commit of a change of the catalogue.                                *)
LEMMA Committed ==
    ASSUME NEW dirs, NEW idx, Sound(idx, dirs), NEW new \in Indexes,
           NEW id \in Ids, Backed(id, idx),
           \A x \in Ids : \/ new.records[x] = idx.records[x]
                          \/ /\ idx.records[x].life # "none"
                             /\ \E life \in Lives :
                                   new.records[x] = [idx.records[x] EXCEPT !.life = life],
           \A n \in Names : new.active[n] \in {None, idx.active[n]} \/
                                (new.active[n] = id /\ Name(id) = n),
           new.last \in {None, idx.last, id} \cup {idx.active[n] : n \in Names},
           new.approvals = idx.approvals, new.reviews = idx.reviews
    PROVE  Sound(new, dirs) /\ \A x \in Ids : Backed(x, idx) => Backed(x, new)
<1> USE DEF Sound
<1>1. \A x \in Ids : /\ new.records[x].life = "none" <=> idx.records[x].life = "none"
                     /\ new.records[x].life # "none" =>
                           /\ new.records[x].sealed = idx.records[x].sealed
                           /\ new.records[x].digest = idx.records[x].digest
                           /\ new.records[x].fingerprint = idx.records[x].fingerprint
                           /\ new.records[x].decision = idx.records[x].decision
  <2> SUFFICES ASSUME NEW x \in Ids, new.records[x] # idx.records[x]
               PROVE  /\ new.records[x].life # "none" /\ idx.records[x].life # "none"
                      /\ new.records[x].sealed = idx.records[x].sealed
                      /\ new.records[x].digest = idx.records[x].digest
                      /\ new.records[x].fingerprint = idx.records[x].fingerprint
                      /\ new.records[x].decision = idx.records[x].decision
    OBVIOUS
  <2>1. PICK life \in Lives : new.records[x] = [idx.records[x] EXCEPT !.life = life]
    OBVIOUS
  <2>2. idx.records[x] \in Records /\ idx.records[x].life # "none"
    BY DEF Indexes
  <2>3. life # "none"
    BY DEF Lives
  <2> HIDE DEF Sound
  <2> QED BY <2>1, <2>2, <2>3, LifeOnly
<1>2. \A x \in Ids : Backed(x, idx) => Backed(x, new)
  BY <1>1 DEF Backed
<1>3. \A x \in Ids : Agrees(new.records[x], x, new, dirs)
  BY <1>1 DEF Agrees
<1>4. \A n \in Names : new.active[n] # None =>
          Name(new.active[n]) = n /\ Backed(new.active[n], new)
  BY <1>2 DEF Indexes
<1>5. new.last # None => Backed(new.last, new)
  BY <1>2 DEF Indexes
<1> QED BY <1>2, <1>3, <1>4, <1>5

LEMMA ActivatedIsSound ==
    ASSUME NEW dirs, NEW idx, Sound(idx, dirs), NEW id \in Ids, Backed(id, idx)
    PROVE  LET new == Activated(idx, id) IN
           /\ Sound(new, dirs) /\ \A x \in Ids : Backed(x, idx) => Backed(x, new)
           /\ new.approvals = idx.approvals /\ new.reviews = idx.reviews
           /\ \A x \in Ids : idx.records[x].life # "none" => new.records[x].life # "none"
<1> DEFINE new == Activated(idx, id)
           records == [x \in Ids |->
               IF x = id THEN [idx.records[x] EXCEPT !.life = "active"]
               ELSE IF Name(x) = Name(id) /\ idx.records[x].life = "active"
                    THEN [idx.records[x] EXCEPT !.life = "disabled"]
                    ELSE idx.records[x]]
           actives == [idx.active EXCEPT ![Name(id)] = id]
           last == IF idx.active[Name(id)] # None THEN idx.active[Name(id)] ELSE idx.last
<1>1. idx \in Indexes /\ Name(id) \in Names
  BY IndexAssumption DEF Sound, Name
<1>2. new = [idx EXCEPT !.records = records, !.active = actives, !.last = last]
  BY <1>1 DEF Activated, Indexes
<1>3. /\ new.records = records /\ new.active = actives /\ new.last = last
      /\ new.reviews = idx.reviews /\ new.approvals = idx.approvals
      /\ new.degraded = idx.degraded
  BY <1>1, <1>2 DEF Indexes
<1>4. idx.records[id].life # "none"
  BY DEF Backed
<1>5. \A x \in Ids : \/ records[x] = idx.records[x]
                     \/ /\ idx.records[x].life # "none"
                        /\ \E life \in Lives : records[x] = [idx.records[x] EXCEPT !.life = life]
  BY <1>4 DEF Lives
<1>6. \A x \in Ids : records[x] \in Records /\
                     (idx.records[x].life # "none" => records[x].life # "none")
  <2> TAKE x \in Ids
  <2>1. idx.records[x] \in Records
    BY <1>1 DEF Indexes
  <2>2. CASE records[x] = idx.records[x]
    BY <2>1, <2>2
  <2>3. CASE records[x] # idx.records[x]
    <3>1. PICK life \in Lives : records[x] = [idx.records[x] EXCEPT !.life = life]
      BY <1>5, <2>3
    <3>2. idx.records[x].life # "none"
      BY <1>5, <2>3
    <3>3. life # "none"
      BY DEF Lives
    <3> HIDE DEF records
    <3> QED BY <2>1, <3>1, <3>2, <3>3, LifeOnly
  <2> QED BY <2>2, <2>3
<1>7. actives \in [Names -> Ids \cup {None}] /\ last \in Ids \cup {None}
  BY <1>1 DEF Indexes
<1>8. records \in [Ids -> Records]
  BY <1>6
<1>9. new \in Indexes
  <2> HIDE DEF records, actives, last
  <2> QED BY <1>1, <1>2, <1>7, <1>8 DEF Indexes
<1>10. \A n \in Names : actives[n] \in {None, idx.active[n]} \/ (actives[n] = id /\ Name(id) = n)
  BY <1>1 DEF Indexes
<1>11. last \in {None, idx.last, id} \cup {idx.active[n] : n \in Names}
  BY <1>1
<1> HIDE DEF new, records, actives, last
<1>12. /\ \A x \in Ids : \/ new.records[x] = idx.records[x]
                         \/ /\ idx.records[x].life # "none"
                            /\ \E to \in Lives : new.records[x] = [idx.records[x] EXCEPT !.life = to]
       /\ \A n \in Names : new.active[n] \in {None, idx.active[n]} \/
                                (new.active[n] = id /\ Name(id) = n)
       /\ new.last \in {None, idx.last, id} \cup {idx.active[n] : n \in Names}
  BY <1>3, <1>5, <1>10, <1>11
<1>13. Sound(new, dirs) /\ \A x \in Ids : Backed(x, idx) => Backed(x, new)
  BY <1>3, <1>9, <1>12, Committed
<1> QED BY <1>3, <1>6, <1>13 DEF new

LEMMA RetiredIsSound ==
    ASSUME NEW dirs, NEW idx, Sound(idx, dirs), NEW id \in Ids, Backed(id, idx),
           NEW life \in {"disabled", "uninstalled"}
    PROVE  LET new == Retired(idx, id, life) IN
           /\ Sound(new, dirs) /\ \A x \in Ids : Backed(x, idx) => Backed(x, new)
           /\ new.approvals = idx.approvals /\ new.reviews = idx.reviews
           /\ \A x \in Ids : idx.records[x].life # "none" => new.records[x].life # "none"
<1> DEFINE new == Retired(idx, id, life)
           records == [x \in Ids |->
               IF x = id \/ (Name(x) = Name(id) /\ idx.records[x].life = "active")
               THEN [idx.records[x] EXCEPT !.life = life]
               ELSE idx.records[x]]
           actives == [idx.active EXCEPT ![Name(id)] = None]
<1>1. idx \in Indexes /\ Name(id) \in Names
  BY IndexAssumption DEF Sound, Name
<1>2. new = [idx EXCEPT !.records = records, !.active = actives, !.last = id]
  BY <1>1 DEF Retired, Indexes
<1>3. /\ new.records = records /\ new.active = actives /\ new.last = id
      /\ new.reviews = idx.reviews /\ new.approvals = idx.approvals
      /\ new.degraded = idx.degraded
  BY <1>1, <1>2 DEF Indexes
<1>4. idx.records[id].life # "none"
  BY DEF Backed
<1>5. \A x \in Ids : \/ records[x] = idx.records[x]
                     \/ /\ idx.records[x].life # "none"
                        /\ records[x] = [idx.records[x] EXCEPT !.life = life]
  BY <1>4
<1>6. \A x \in Ids : records[x] \in Records /\
                     (idx.records[x].life # "none" => records[x].life # "none")
  <2> TAKE x \in Ids
  <2>1. idx.records[x] \in Records /\ life \in Lives /\ life # "none"
    BY <1>1 DEF Indexes, Lives
  <2>2. CASE records[x] = idx.records[x]
    BY <2>1, <2>2
  <2>3. CASE records[x] # idx.records[x]
    <3>1. /\ records[x] = [idx.records[x] EXCEPT !.life = life]
          /\ idx.records[x].life # "none"
      BY <1>5, <2>3
    <3> HIDE DEF records
    <3> QED BY <2>1, <3>1, LifeOnly
  <2> QED BY <2>2, <2>3
<1>7. actives \in [Names -> Ids \cup {None}]
  BY <1>1 DEF Indexes
<1>8. records \in [Ids -> Records]
  BY <1>6
<1>9. new \in Indexes
  <2> HIDE DEF records, actives
  <2> QED BY <1>1, <1>2, <1>7, <1>8 DEF Indexes
<1>10. \A n \in Names : actives[n] \in {None, idx.active[n]}
  BY <1>1 DEF Indexes
<1>11. life \in Lives
  BY DEF Lives
<1> HIDE DEF new, records, actives
<1>12. /\ \A x \in Ids : \/ new.records[x] = idx.records[x]
                         \/ /\ idx.records[x].life # "none"
                            /\ \E to \in Lives : new.records[x] = [idx.records[x] EXCEPT !.life = to]
       /\ \A n \in Names : new.active[n] \in {None, idx.active[n]} \/
                                (new.active[n] = id /\ Name(id) = n)
       /\ new.last \in {None, idx.last, id} \cup {idx.active[n] : n \in Names}
  BY <1>3, <1>5, <1>10, <1>11
<1>13. Sound(new, dirs) /\ \A x \in Ids : Backed(x, idx) => Backed(x, new)
  BY <1>3, <1>9, <1>12, Committed
<1> QED BY <1>3, <1>6, <1>13 DEF new

-----------------------------------------------------------------------------
(* The kinds of step                                                       *)

(* A candidate changes that no settled record speaks of.                   *)
LEMMA CandidateChanges ==
    ASSUME NEW dirs, NEW idx, Sound(idx, dirs), NEW more, NEW id,
           id \in Ids => idx.records[id].life = "none" \/ ~idx.records[id].sealed,
           \A x \in Ids : x # id => more[x] = dirs[x]
    PROVE  Sound(idx, more)
BY DEF Sound, Agrees

(* The reviews and the approvals only grow.                                *)
LEMMA StaysVouched ==
    ASSUME NEW idx, NEW new, idx.approvals \subseteq new.approvals,
           idx.reviews \subseteq new.reviews, NEW dir, NEW n, Vouched(dir, n, idx)
    PROVE  Vouched(dir, n, new)
BY DEF Vouched

(* A step after which no operation is under way.                           *)
LEMMA Rests ==
    ASSUME SkillInvariant, Sound(index', candidates'),
           index.approvals \subseteq index'.approvals, index.reviews \subseteq index'.reviews,
           UNCHANGED <<incoming, active, outgoing>>, candidates' \in [Ids -> Directories],
           pc' \in {"idle", "opening", "attach", "refused"}, Waits'
    PROVE  SkillInvariant'
<1>1. DirectoriesVouched'
  <2>1. \A n \in Names : /\ Vouched(incoming[n], n, index')
                         /\ Vouched(active[n], n, index')
                         /\ Vouched(outgoing[n], n, index')
    BY StaysVouched DEF SkillInvariant, DirectoriesVouched
  <2> QED BY <2>1 DEF SkillInvariant, DirectoriesVouched
<1>2. UnderWay'
  BY DEF UnderWay, Changes
<1>3. (pc \in Places)'
  BY DEF Places
<1> QED BY <1>1, <1>2, <1>3 DEF SkillInvariant

(* A step of a change of the catalogue that leaves the index alone.        *)
LEMMA GoesOn ==
    ASSUME SkillInvariant, pc \in Changes, pc' \in Changes \cup {"idle"},
           UNCHANGED <<index, candidates, loading>>,
           op' = op \/ pc' = "idle" \/ (\E c \in {"none", "directory", "index", "sync"} :
                                          op' = [op EXCEPT !.cause = c]),
           DirectoriesVouched'
    PROVE  SkillInvariant'
<1>1. UnderWay'
  <2>1. CASE pc' = "idle"
    BY <2>1 DEF UnderWay, Changes
  <2>2. CASE pc' # "idle"
    <3>1. op \in Calls /\ UnderWay /\ pc' \in Changes
      BY <2>2 DEF SkillInvariant, UnderWay
    <3>2. op' \in Calls /\ op'.id = op.id /\ op'.before = op.before
      BY <2>2, <3>1 DEF Calls
    <3>3. /\ Sound(op.before, candidates) /\ Backed(op.id, index) /\ Backed(op.id, op.before)
          /\ op.before.approvals = index.approvals /\ op.before.reviews = index.reviews
          /\ loading # NoOp => op.before.records[loading.id].life # "none"
      BY <3>1 DEF UnderWay
    <3>4. pc' \notin {"record", "digest", "review"}
      BY <3>1 DEF Changes
    <3> QED BY <3>1, <3>2, <3>3, <3>4 DEF UnderWay, NoOp
  <2> QED BY <2>1, <2>2
<1>2. Waits'
  BY DEF SkillInvariant, Waits, Known, Record, NoOp
<1>3. (pc \in Places)'
  BY DEF Places
<1>4. Sound(index', candidates')
  BY DEF SkillInvariant
<1> QED BY <1>1, <1>2, <1>3, <1>4 DEF SkillInvariant

(* One write of the index to a record that agrees with its candidate.      *)
LEMMA Judged ==
    ASSUME SkillInvariant, NEW id \in Ids, NEW rec \in Records, rec.life # "none",
           Agrees(rec, id, index, candidates),
           Backed(id, index) => rec.sealed /\ rec.digest = Record(id).digest,
           index' = Update(index, id, rec), pc' = "idle",
           UNCHANGED directories, loading' = loading \/ loading' = NoOp
    PROVE  SkillInvariant'
<1>1. /\ Sound(index', candidates)
      /\ index'.approvals = index.approvals /\ index'.reviews = index.reviews
      /\ index'.records = [index.records EXCEPT ![id] = rec]
  BY RecordChanges DEF SkillInvariant, Record
<1>2. Waits'
  BY <1>1 DEF SkillInvariant, Waits, Known, Record, NoOp, Sound, Indexes
<1> QED BY <1>1, <1>2, Rests DEF SkillInvariant, DirectoriesVouched, directories

-----------------------------------------------------------------------------
(* Judging a revision                                                      *)

LEMMA RecordOf ==
    ASSUME SkillInvariant, NEW id \in Ids
    PROVE  /\ Record(id) \in Records /\ Agrees(Record(id), id, index, candidates)
           /\ Known(id) => Record(id) \in Records \ {NoRecord}
BY DEF SkillInvariant, Sound, Indexes, Record, Known, NoRecord

LEMMA LoadKeeps ==
    ASSUME SkillInvariant, NEW id \in Ids, Load(id)
    PROVE  SkillInvariant'
<1>1. /\ index' = index /\ candidates' = candidates /\ pc' = "idle"
      /\ UNCHANGED <<incoming, active, outgoing>>
  BY DEF Load, directories
<1>2. Waits'
  BY <1>1 DEF Load, Waits, Readable, Known, Record
<1> QED BY <1>1, <1>2, Rests DEF SkillInvariant, DirectoriesVouched

LEMMA ValidateKeeps ==
    ASSUME SkillInvariant, Validate
    PROVE  SkillInvariant'
<1> DEFINE id == loading.id
           rec == Validated(Record(id), loading.bytes)
<1>1. id \in Ids /\ loading.bytes \in Bytes /\ Known(id)
  BY DEF SkillInvariant, Waits, Validate
<1>2. /\ rec \in Records /\ rec.life # "none"
      /\ rec.sealed = Record(id).sealed /\ rec.digest = Record(id).digest
      /\ rec.fingerprint = Record(id).fingerprint /\ rec.decision = Record(id).decision
  <2>1. Record(id) \in Records \ {NoRecord} /\ PolicyOf[loading.bytes] \in Policies
    BY <1>1, RecordOf, IndexAssumption
  <2> QED BY <2>1 DEF Validated, Records, NoRecord, Lives
<1>3. Agrees(rec, id, index, candidates)
  BY <1>1, <1>2, RecordOf DEF Agrees, Known
<1>4. index' = Update(index, id, rec) /\ pc' = "idle" /\ UNCHANGED directories /\ loading' = NoOp
  BY DEF Validate
<1>5. Backed(id, index) => rec.sealed /\ rec.digest = Record(id).digest
  BY <1>2 DEF Backed, Record
<1> HIDE DEF id, rec
<1> QED BY <1>1, <1>2, <1>3, <1>4, <1>5, Judged

LEMMA SealKeeps ==
    ASSUME SkillInvariant, NEW id \in Ids, Seal(id)
    PROVE  SkillInvariant'
<1> DEFINE rec == Sealed(Record(id), candidates[id])
<1>1. Known(id) /\ candidates[id] \in Bytes
  BY DEF Seal, Readable
<1>2. /\ rec \in Records /\ rec.life # "none"
      /\ rec.sealed /\ rec.digest = candidates[id]
      /\ rec.fingerprint = Record(id).fingerprint /\ rec.decision = Record(id).decision
  <2>1. Record(id) \in Records \ {NoRecord}
    BY <1>1, RecordOf
  <2> QED BY <1>1, <2>1 DEF Sealed, Records, NoRecord, Lives
<1>3. Agrees(rec, id, index, candidates)
  BY <1>1, <1>2, RecordOf DEF Agrees, Known
<1>4. Backed(id, index) => rec.sealed /\ rec.digest = Record(id).digest
  BY <1>2, RecordOf DEF Backed, Record, Agrees
<1>5. index' = Update(index, id, rec) /\ pc' = "idle" /\ UNCHANGED directories /\ loading' = loading
  BY DEF Seal, Judge
<1> HIDE DEF rec
<1> QED BY <1>2, <1>3, <1>4, <1>5, Judged

LEMMA RequestKeeps ==
    ASSUME SkillInvariant, NEW id \in Ids, RequestApproval(id)
    PROVE  SkillInvariant'
<1> DEFINE rec == Requested(Record(id))
<1>1. Known(id) /\ Record(id).sealed /\ <<id, Record(id).digest>> \in index.reviews
  BY DEF RequestApproval, MayRequest
<1>2. /\ rec \in Records /\ rec.life # "none" /\ rec.decision = "requested"
      /\ rec.sealed = Record(id).sealed /\ rec.digest = Record(id).digest
      /\ rec.fingerprint[1] = Record(id).digest
  <2>1. Record(id) \in Records \ {NoRecord}
    BY <1>1, RecordOf
  <2> QED BY <2>1 DEF Requested, Fingerprint, Records, NoRecord, Lives
<1>3. Agrees(rec, id, index, candidates)
  BY <1>1, <1>2, RecordOf DEF Agrees, Known
<1>4. Backed(id, index) => rec.sealed /\ rec.digest = Record(id).digest
  BY <1>1, <1>2
<1>5. index' = Update(index, id, rec) /\ pc' = "idle" /\ UNCHANGED directories /\ loading' = loading
  BY DEF RequestApproval, Judge
<1> HIDE DEF rec
<1> QED BY <1>2, <1>3, <1>4, <1>5, Judged

LEMMA RejectKeeps ==
    ASSUME SkillInvariant, NEW id \in Ids, Reject(id)
    PROVE  SkillInvariant'
<1> DEFINE rec == Rejected(Record(id))
<1>1. Known(id)
  BY DEF Reject
<1>2. /\ rec \in Records /\ rec.life # "none" /\ rec.decision = "rejected"
      /\ rec.sealed = Record(id).sealed /\ rec.digest = Record(id).digest
      /\ rec.fingerprint = Record(id).fingerprint
  <2>1. Record(id) \in Records \ {NoRecord}
    BY <1>1, RecordOf
  <2> QED BY <2>1 DEF Rejected, Records, NoRecord, Lives
<1>3. Agrees(rec, id, index, candidates)
  BY <1>1, <1>2, RecordOf DEF Agrees, Known
<1>4. Backed(id, index) => rec.sealed /\ rec.digest = Record(id).digest
  BY <1>2 DEF Backed, Record
<1>5. index' = Update(index, id, rec) /\ pc' = "idle" /\ UNCHANGED directories /\ loading' = loading
  BY DEF Reject, Judge
<1> HIDE DEF rec
<1> QED BY <1>2, <1>3, <1>4, <1>5, Judged

LEMMA UninstallKeeps ==
    ASSUME SkillInvariant, NEW id \in Ids, Uninstall(id)
    PROVE  SkillInvariant'
<1> DEFINE rec == [Record(id) EXCEPT !.life = "uninstalled"]
<1>1. Known(id)
  BY DEF Uninstall
<1>2. /\ rec \in Records /\ rec.life # "none" /\ rec.decision = Record(id).decision
      /\ rec.sealed = Record(id).sealed /\ rec.digest = Record(id).digest
      /\ rec.fingerprint = Record(id).fingerprint
  BY <1>1, RecordOf, LifeOnly DEF Known, Lives
<1>3. Agrees(rec, id, index, candidates)
  BY <1>1, <1>2, RecordOf DEF Agrees, Known
<1>4. Backed(id, index) => rec.sealed /\ rec.digest = Record(id).digest
  BY <1>2 DEF Backed, Record
<1>5. index' = Update(index, id, rec) /\ pc' = "idle" /\ UNCHANGED directories /\ loading' = loading
  BY DEF Uninstall, Judge
<1> HIDE DEF rec
<1> QED BY <1>2, <1>3, <1>4, <1>5, Judged

LEMMA ApproveKeeps ==
    ASSUME SkillInvariant, NEW id \in Ids, Approve(id)
    PROVE  SkillInvariant'
<1> DEFINE rec == Approved(Record(id))
           more == [index EXCEPT !.approvals = @ \cup {<<id, Record(id).digest>>}]
<1>1. Known(id) /\ Record(id).fingerprint = Fingerprint(Record(id))
  BY DEF Approve
<1>2. Record(id) \in Records \ {NoRecord}
  BY <1>1, RecordOf
<1>3. Record(id).fingerprint # None /\ Record(id).digest \in Bytes
  BY <1>1, <1>2, IndexAssumption DEF Fingerprint, Records
<1>4. /\ rec \in Records /\ rec.life # "none"
      /\ rec.sealed = Record(id).sealed /\ rec.digest = Record(id).digest
      /\ rec.fingerprint = Record(id).fingerprint
      /\ rec.fingerprint[1] = Record(id).digest
  BY <1>1, <1>2 DEF Approved, Fingerprint, Records, NoRecord, Lives
<1>5. /\ Sound(more, candidates) /\ more.records = index.records
      /\ more.reviews = index.reviews
      /\ more.approvals = index.approvals \cup {<<id, Record(id).digest>>}
  <2>1. <<id, Record(id).digest>> \in Ids \X Bytes
    BY <1>3
  <2> QED BY <2>1, ApprovalAdded DEF SkillInvariant
<1>6. index' = Update(more, id, rec)
  BY DEF Approve, Update, SkillInvariant, Sound, Indexes
<1>7. UNCHANGED directories /\ pc' = "idle" /\ loading' = loading
  BY DEF Approve
<1> HIDE DEF rec, more
<1>8. Agrees(rec, id, more, candidates)
  BY <1>1, <1>3, <1>4, <1>5, RecordOf DEF Agrees, Known
<1>9. Backed(id, more) => rec.sealed /\ rec.digest = more.records[id].digest
  BY <1>4, <1>5 DEF Backed, Record
<1>10. /\ Sound(index', candidates) /\ index'.approvals = more.approvals
       /\ index'.reviews = more.reviews
       /\ index'.records = [more.records EXCEPT ![id] = rec]
  BY <1>4, <1>5, <1>6, <1>8, <1>9, RecordChanges
<1>11. Waits'
  BY <1>4, <1>5, <1>7, <1>10 DEF SkillInvariant, Waits, Known, Record, Sound, Indexes
<1> QED BY <1>5, <1>7, <1>10, <1>11, Rests DEF SkillInvariant, DirectoriesVouched, directories

-----------------------------------------------------------------------------
(* Editing a revision                                                      *)

LEMMA PublishKeeps ==
    ASSUME SkillInvariant, NEW id \in Ids, NEW b \in Bytes, Publish(id, b)
    PROVE  SkillInvariant'
<1>1. /\ candidates' \in [Ids -> Directories]
      /\ \A x \in Ids : x # id => candidates'[x] = candidates[x]
  BY DEF Publish, SkillInvariant, DirectoriesVouched, Directories
<1>2. index' = index /\ loading' = loading /\ UNCHANGED <<incoming, active, outgoing>>
  BY DEF Publish
<1>3. Sound(index', candidates')
  BY <1>1, <1>2, CandidateChanges DEF SkillInvariant, Publish, Known, Record
<1>4. Waits'
  BY <1>2 DEF SkillInvariant, Waits, Known, Record
<1>5. CASE pc' = "idle"
  BY <1>1, <1>2, <1>3, <1>4, <1>5, Rests DEF SkillInvariant
<1>6. CASE pc' = "record"
  <2>1. op'.id = id /\ op'.bytes = b
    BY <1>6 DEF Publish, Goto
  <2>2. UnderWay'
    BY <1>2, <1>6, <2>1 DEF UnderWay, Changes, Publish, Known, Record
  <2>3. DirectoriesVouched'
    BY <1>1, <1>2 DEF SkillInvariant, DirectoriesVouched
  <2>4. (pc \in Places)'
    BY <1>6 DEF Places
  <2> QED BY <1>3, <1>4, <2>2, <2>3, <2>4 DEF SkillInvariant
<1> QED BY <1>5, <1>6 DEF Publish, Goto

LEMMA RecordCandidateKeeps ==
    ASSUME SkillInvariant, RecordCandidate
    PROVE  SkillInvariant'
<1>1. op.id \in Ids /\ op.bytes \in Bytes /\ ~Known(op.id)
  BY DEF SkillInvariant, UnderWay, RecordCandidate
<1>2. pc' = "idle" /\ loading' = loading /\ UNCHANGED <<incoming, active, outgoing>>
  BY DEF RecordCandidate, Finish, Goto
<1>3. CASE index' = Update(index, op.id, Draft(op.bytes)) /\ UNCHANGED candidates
  <2> DEFINE rec == Draft(op.bytes)
  <2>1. /\ rec \in Records /\ rec.life # "none" /\ ~rec.sealed
        /\ rec.fingerprint = None /\ rec.decision = "none"
    BY <1>1, IndexAssumption DEF Draft, Records, Lives
  <2>2. Agrees(rec, op.id, index, candidates)
    BY <2>1 DEF Agrees
  <2>3. ~Backed(op.id, index)
    BY <1>1 DEF Backed, Known, Record
  <2> HIDE DEF rec
  <2> QED BY <1>1, <1>2, <1>3, <2>1, <2>2, <2>3, Judged DEF rec, directories
<1>4. CASE candidates' = [candidates EXCEPT ![op.id] = None] /\ UNCHANGED index
  <2>1. /\ candidates' \in [Ids -> Directories]
        /\ \A x \in Ids : x # op.id => candidates'[x] = candidates[x]
    BY <1>4 DEF SkillInvariant, DirectoriesVouched, Directories
  <2>2. Sound(index', candidates')
    <3>1. Sound(index, candidates) /\ index.records[op.id].life = "none" /\ index' = index
      BY <1>1, <1>4 DEF SkillInvariant, Known, Record
    <3>2. Sound(index, candidates')
      BY <2>1, <3>1, CandidateChanges
    <3> QED BY <3>1, <3>2
  <2>3. Waits'
    BY <1>2, <1>4 DEF SkillInvariant, Waits, Known, Record
  <2> QED BY <1>2, <1>4, <2>1, <2>2, <2>3, Rests
<1> QED BY <1>3, <1>4 DEF RecordCandidate

LEMMA WriteFileKeeps ==
    ASSUME SkillInvariant, NEW id \in Ids, NEW b \in Bytes, WriteFile(id, b)
    PROVE  SkillInvariant'
<1>1. /\ Known(id) /\ ~Record(id).sealed
      /\ candidates' = [candidates EXCEPT ![id] = b]
      /\ op'.id = id /\ op'.bytes = b /\ pc' = "digest"
      /\ UNCHANGED <<index, incoming, active, outgoing, loading>>
  BY DEF WriteFile, Editable, Goto
<1>2. /\ candidates' \in [Ids -> Directories]
      /\ \A x \in Ids : x # id => candidates'[x] = candidates[x]
  BY <1>1 DEF SkillInvariant, DirectoriesVouched, Directories
<1>3. Sound(index', candidates')
  <2>1. Sound(index, candidates) /\ ~index.records[id].sealed /\ index' = index
    BY <1>1 DEF SkillInvariant, Record
  <2>2. Sound(index, candidates')
    BY <1>2, <2>1, CandidateChanges
  <2> QED BY <2>1, <2>2
<1>4. Waits'
  BY <1>1 DEF SkillInvariant, Waits, Known, Record
<1>5. UnderWay'
  BY <1>1 DEF UnderWay, Changes, Known, Record
<1>6. DirectoriesVouched'
  BY <1>1, <1>2 DEF SkillInvariant, DirectoriesVouched
<1>7. (pc \in Places)'
  BY <1>1 DEF Places
<1> QED BY <1>3, <1>4, <1>5, <1>6, <1>7 DEF SkillInvariant

LEMMA RecordDigestKeeps ==
    ASSUME SkillInvariant, RecordDigest
    PROVE  SkillInvariant'
<1>1. /\ op.id \in Ids /\ op.bytes \in Bytes /\ Known(op.id) /\ ~Record(op.id).sealed
      /\ Record(op.id) \in Records \ {NoRecord}
  BY RecordOf DEF SkillInvariant, UnderWay, RecordDigest
<1>2. pc' = "idle" /\ UNCHANGED directories /\ loading' = loading
  BY DEF RecordDigest, Finish, Goto
<1>3. CASE index' = [index EXCEPT !.records[op.id].digest = op.bytes]
  <2> DEFINE rec == [Record(op.id) EXCEPT !.digest = op.bytes]
  <2>1. /\ rec \in Records /\ rec.life # "none" /\ ~rec.sealed
        /\ rec.fingerprint = Record(op.id).fingerprint
        /\ rec.decision = Record(op.id).decision /\ rec.life = Record(op.id).life
    BY <1>1 DEF Records, NoRecord, Lives, Known
  <2>2. Agrees(rec, op.id, index, candidates)
    BY <1>1, <2>1, RecordOf DEF Agrees
  <2>3. ~Backed(op.id, index)
    BY <1>1 DEF Backed, Record
  <2>4. index' = Update(index, op.id, rec)
    BY <1>3 DEF Update, Record, SkillInvariant, Sound, Indexes
  <2> HIDE DEF rec
  <2> QED BY <1>1, <1>2, <2>1, <2>2, <2>3, <2>4, Judged
<1>4. CASE UNCHANGED index
  <2>1. Waits'
    BY <1>2, <1>4 DEF SkillInvariant, Waits, Known, Record
  <2> QED BY <1>2, <1>4, <2>1, Rests DEF SkillInvariant, DirectoriesVouched, directories
<1> QED BY <1>3, <1>4 DEF RecordDigest

LEMMA ReviewKeeps ==
    ASSUME SkillInvariant, NEW id \in Ids, Review(id)
    PROVE  SkillInvariant'
<1> DEFINE rec == Reviewed(Record(id))
<1>1. /\ Known(id) /\ index' = Update(index, id, rec) /\ op'.id = id /\ pc' = "review"
      /\ UNCHANGED directories /\ loading' = loading
  BY DEF Review, Goto
<1>2. /\ rec \in Records /\ rec.life # "none" /\ rec.decision = Record(id).decision
      /\ rec.sealed = Record(id).sealed /\ rec.digest = Record(id).digest
      /\ rec.fingerprint = Record(id).fingerprint
  <2>1. Record(id) \in Records /\ Record(id).life # "none"
    BY <1>1, RecordOf DEF Known
  <2>2. \A life \in Lives : life # "none"
    BY DEF Lives
  <2>3. PICK life \in Lives : rec = [Record(id) EXCEPT !.life = life]
    <3>1. Record(id) = [Record(id) EXCEPT !.life = Record(id).life] /\ Record(id).life \in Lives
      BY <2>1 DEF Records, NoRecord
    <3> QED BY <3>1 DEF Reviewed, Lives
  <2> HIDE DEF rec
  <2> QED BY <2>1, <2>2, <2>3, LifeOnly
<1> HIDE DEF rec
<1>3. Agrees(rec, id, index, candidates)
  BY <1>1, <1>2, RecordOf DEF Agrees, Known
<1>4. Backed(id, index) => rec.sealed /\ rec.digest = index.records[id].digest
  BY <1>2 DEF Backed, Record
<1>5. /\ Sound(index', candidates) /\ index'.approvals = index.approvals
      /\ index'.reviews = index.reviews
      /\ index'.records = [index.records EXCEPT ![id] = rec]
  BY <1>1, <1>2, <1>3, <1>4, RecordChanges DEF SkillInvariant
<1>6. \A x \in Ids : index.records[x].life # "none" => index'.records[x].life # "none"
  BY <1>2, <1>5 DEF SkillInvariant, Sound, Indexes
<1>7. Waits'
  BY <1>1, <1>6 DEF SkillInvariant, Waits, Known, Record
<1>8. UnderWay'
  BY <1>1, <1>6 DEF UnderWay, Changes, Known, Record
<1>9. DirectoriesVouched'
  BY <1>1, <1>5 DEF SkillInvariant, DirectoriesVouched, Vouched, directories
<1>10. (pc \in Places)'
  BY <1>1 DEF Places
<1> QED BY <1>1, <1>5, <1>7, <1>8, <1>9, <1>10 DEF SkillInvariant, directories

LEMMA RecordReviewKeeps ==
    ASSUME SkillInvariant, RecordReview
    PROVE  SkillInvariant'
<1> DEFINE more == [index EXCEPT !.reviews = @ \cup {<<op.id, Record(op.id).digest>>}]
<1>1. /\ op.id \in Ids /\ pc' = "idle" /\ UNCHANGED directories /\ loading' = loading
      /\ index' = index \/ (index' = more /\ Record(op.id).digest \in Passing)
  BY DEF SkillInvariant, UnderWay, RecordReview, Finish, Goto
<1>2. CASE index' = index
  <2>1. Waits'
    BY <1>1, <1>2 DEF SkillInvariant, Waits, Known, Record
  <2> QED BY <1>1, <1>2, <2>1, Rests DEF SkillInvariant, DirectoriesVouched, directories
<1>3. CASE index' = more /\ Record(op.id).digest \in Passing
  <2>1. <<op.id, Record(op.id).digest>> \in Ids \X Bytes
    BY <1>1, <1>3, IndexAssumption
  <2>2. /\ Sound(more, candidates) /\ more.records = index.records
        /\ more.approvals = index.approvals /\ index.reviews \subseteq more.reviews
    BY <2>1, ReviewAdded DEF SkillInvariant
  <2> HIDE DEF more
  <2>3. Waits'
    BY <1>1, <1>3, <2>2 DEF SkillInvariant, Waits, Known, Record
  <2> QED BY <1>1, <1>3, <2>2, <2>3, Rests DEF SkillInvariant, DirectoriesVouched, directories
<1> QED BY <1>1, <1>2, <1>3

-----------------------------------------------------------------------------
(* A change of the catalogue                                               *)

LEMMA AuthorisedIsBacked ==
    ASSUME SkillInvariant, NEW id \in Ids, Known(id), Authorised(Record(id)),
           candidates[id] = Record(id).digest
    PROVE  Backed(id, index)
<1>1. /\ Record(id).decision = "approved"
      /\ Record(id).fingerprint = <<Record(id).digest, Record(id).policy>>
  BY DEF Authorised, Fingerprint
<1>2. Agrees(Record(id), id, index, candidates)
  BY RecordOf
<1> QED BY <1>1, <1>2 DEF Agrees, Backed, Known, Record

LEMMA ActivateKeeps ==
    ASSUME SkillInvariant, NEW id \in Ids, Activate(id)
    PROVE  SkillInvariant'
<1>1. /\ op' = [kind |-> "activate", id |-> id, before |-> index, cause |-> "none"]
      /\ pc' = "publish" /\ UNCHANGED <<index, directories, loading>>
  BY DEF Activate, Goto
<1>2. Backed(id, index)
  BY AuthorisedIsBacked DEF Activate, MayActivate
<1>3. UnderWay'
  <2>1. /\ op'.id = id /\ op'.before = index /\ index \in Indexes
    BY <1>1 DEF SkillInvariant, Sound
  <2>2. op' \in Calls
    BY <1>1, <2>1 DEF Calls
  <2>3. Sound(index, candidates) /\ UNCHANGED candidates
    BY <1>1 DEF SkillInvariant, directories
  <2>4. loading' # NoOp => index.records[loading'.id].life # "none"
    BY <1>1 DEF SkillInvariant, Waits, Known, Record
  <2> QED BY <1>1, <1>2, <2>1, <2>2, <2>3, <2>4 DEF UnderWay, Changes, NoOp
<1>4. Waits'
  BY <1>1 DEF SkillInvariant, Waits, Known, Record
<1>5. DirectoriesVouched'
  BY <1>1 DEF SkillInvariant, DirectoriesVouched, directories
<1>6. (pc \in Places)'
  BY <1>1 DEF Places, Changes
<1> QED BY <1>1, <1>3, <1>4, <1>5, <1>6 DEF SkillInvariant, directories

LEMMA RetireKeeps ==
    ASSUME SkillInvariant, NEW id \in Ids, NEW life \in {"disabled", "uninstalled"},
           Retire(id, life)
    PROVE  SkillInvariant'
<1>1. /\ op' = [kind |-> "retire", id |-> id, life |-> life, before |-> index,
                cause |-> "none"]
      /\ pc' = "discard" /\ UNCHANGED <<index, directories, loading>>
      /\ index.active[Name(id)] = id
  BY DEF Retire, Goto
<1>2. Backed(id, index)
  BY <1>1, IndexAssumption DEF SkillInvariant, Sound, Name
<1>3. UnderWay'
  <2>1. /\ op'.id = id /\ op'.before = index /\ index \in Indexes
    BY <1>1 DEF SkillInvariant, Sound
  <2>2. op' \in Calls
    BY <1>1, <2>1 DEF Calls
  <2>3. Sound(index, candidates) /\ UNCHANGED candidates
    BY <1>1 DEF SkillInvariant, directories
  <2>4. loading' # NoOp => index.records[loading'.id].life # "none"
    BY <1>1 DEF SkillInvariant, Waits, Known, Record
  <2> QED BY <1>1, <1>2, <2>1, <2>2, <2>3, <2>4 DEF UnderWay, Changes, NoOp
<1>4. Waits'
  BY <1>1 DEF SkillInvariant, Waits, Known, Record
<1>5. DirectoriesVouched'
  BY <1>1 DEF SkillInvariant, DirectoriesVouched, directories
<1>6. (pc \in Places)'
  BY <1>1 DEF Places, Changes
<1> QED BY <1>1, <1>3, <1>4, <1>5, <1>6 DEF SkillInvariant, directories

(* What a step of a change may do to the directories of its skill: they    *)
(* hold nothing, what one of them held, or the candidate.                  *)
LEMMA DirectoriesMove ==
    ASSUME SkillInvariant, pc \in Changes,
           NEW i, NEW a, NEW o,
           {i, a, o} \subseteq {None, candidates[op.id],
                               incoming[Skill], active[Skill], outgoing[Skill]},
           index'.approvals = index.approvals, index'.reviews = index.reviews,
           UNCHANGED candidates,
           incoming' = [incoming EXCEPT ![Skill] = i],
           active' = [active EXCEPT ![Skill] = a],
           outgoing' = [outgoing EXCEPT ![Skill] = o]
    PROVE  DirectoriesVouched'
<1>1. op.id \in Ids /\ Skill \in Names /\ Skill = Name(op.id)
  BY IndexAssumption DEF SkillInvariant, UnderWay, Calls, Skill, Name
<1>2. \A dir \in {None, candidates[op.id], incoming[Skill], active[Skill], outgoing[Skill]} :
          dir \in Directories /\ Vouched(dir, Skill, index)
  <2>1. /\ candidates[op.id] \in Directories
        /\ {incoming[Skill], active[Skill], outgoing[Skill]} \subseteq Directories
    BY <1>1 DEF SkillInvariant, DirectoriesVouched
  <2>2. Vouched(candidates[op.id], Skill, index)
    <3>1. Backed(op.id, index) /\ Agrees(index.records[op.id], op.id, index, candidates)
      BY <1>1 DEF SkillInvariant, UnderWay, Sound
    <3> QED BY <1>1, <3>1 DEF Backed, Agrees, Vouched
  <2>3. None \in Directories /\ Vouched(None, Skill, index)
    BY IndexAssumption DEF Directories, Vouched
  <2> QED BY <1>1, <2>1, <2>2, <2>3 DEF SkillInvariant, DirectoriesVouched
<1>3. \A dir, n : Vouched(dir, n, index) => Vouched(dir, n, index')
  BY DEF Vouched
<1>4. \A n \in Names : /\ Vouched(incoming'[n], n, index')
                       /\ Vouched(active'[n], n, index')
                       /\ Vouched(outgoing'[n], n, index')
  BY <1>1, <1>2, <1>3 DEF SkillInvariant, DirectoriesVouched
<1>5. {incoming', active', outgoing'} \subseteq [Names -> Directories]
  BY <1>1, <1>2 DEF SkillInvariant, DirectoriesVouched
<1> QED BY <1>4, <1>5 DEF SkillInvariant, DirectoriesVouched

(* A step of a change that moves directories and leaves the index alone.   *)
LEMMA MovesOn ==
    ASSUME SkillInvariant, pc \in Changes, pc' \in Changes \cup {"idle"},
           UNCHANGED <<index, candidates, loading>>,
           op' = op \/ pc' = "idle" \/ (\E c \in {"none", "directory", "index", "sync"} :
                                          op' = [op EXCEPT !.cause = c]),
           \E i, a, o \in {None, candidates[op.id],
                           incoming[Skill], active[Skill], outgoing[Skill]} :
               /\ incoming' = [incoming EXCEPT ![Skill] = i]
               /\ active' = [active EXCEPT ![Skill] = a]
               /\ outgoing' = [outgoing EXCEPT ![Skill] = o]
    PROVE  SkillInvariant'
<1>1. PICK i, a, o \in {None, candidates[op.id],
                        incoming[Skill], active[Skill], outgoing[Skill]} :
               /\ incoming' = [incoming EXCEPT ![Skill] = i]
               /\ active' = [active EXCEPT ![Skill] = a]
               /\ outgoing' = [outgoing EXCEPT ![Skill] = o]
  OBVIOUS
<1>2. DirectoriesVouched'
  BY <1>1, DirectoriesMove
<1> QED BY <1>2, GoesOn

(* A directory that stays is one that is given what it has.                *)
LEMMA Staying ==
    ASSUME SkillInvariant, pc \in Changes
    PROVE  /\ incoming = [incoming EXCEPT ![Skill] = incoming[Skill]]
           /\ active = [active EXCEPT ![Skill] = active[Skill]]
           /\ outgoing = [outgoing EXCEPT ![Skill] = outgoing[Skill]]
BY DEF SkillInvariant, DirectoriesVouched

LEMMA PublishIncomingKeeps ==
    ASSUME SkillInvariant, PublishIncoming
    PROVE  SkillInvariant'
<1>1. /\ pc \in Changes /\ pc' \in Changes \cup {"idle"}
      /\ UNCHANGED <<index, candidates, loading>>
  BY DEF PublishIncoming, Abandon, TakeBack, Goto, Changes
<1>2. op' = op \/ pc' = "idle" \/ \E c \in {"none", "directory", "index", "sync"} :
                                      op' = [op EXCEPT !.cause = c]
  BY DEF PublishIncoming, Abandon, TakeBack, Goto
<1>3. \E i, a, o \in {None, candidates[op.id],
                      incoming[Skill], active[Skill], outgoing[Skill]} :
          /\ incoming' = [incoming EXCEPT ![Skill] = i]
          /\ active' = [active EXCEPT ![Skill] = a]
          /\ outgoing' = [outgoing EXCEPT ![Skill] = o]
  BY <1>1, Staying DEF PublishIncoming, Abandon, Goto
<1> QED BY <1>1, <1>2, <1>3, MovesOn

LEMMA DiscardKeeps ==
    ASSUME SkillInvariant, DiscardOutgoing
    PROVE  SkillInvariant'
<1>1. /\ pc \in Changes /\ pc' \in Changes \cup {"idle"}
      /\ UNCHANGED <<index, candidates, loading>>
  BY DEF DiscardOutgoing, Abandon, TakeBack, Goto, Changes
<1>2. op' = op \/ pc' = "idle" \/ \E c \in {"none", "directory", "index", "sync"} :
                                      op' = [op EXCEPT !.cause = c]
  BY DEF DiscardOutgoing, Abandon, TakeBack, Goto
<1>3. \E i, a, o \in {None, candidates[op.id],
                      incoming[Skill], active[Skill], outgoing[Skill]} :
          /\ incoming' = [incoming EXCEPT ![Skill] = i]
          /\ active' = [active EXCEPT ![Skill] = a]
          /\ outgoing' = [outgoing EXCEPT ![Skill] = o]
  BY <1>1, Staying DEF DiscardOutgoing, Abandon, Goto
<1> QED BY <1>1, <1>2, <1>3, MovesOn

LEMMA ParkKeeps ==
    ASSUME SkillInvariant, Park
    PROVE  SkillInvariant'
<1>1. /\ pc \in Changes /\ pc' \in Changes \cup {"idle"}
      /\ UNCHANGED <<index, candidates, loading>>
  BY DEF Park, Abandon, TakeBack, Goto, Changes
<1>2. op' = op \/ pc' = "idle" \/ \E c \in {"none", "directory", "index", "sync"} :
                                      op' = [op EXCEPT !.cause = c]
  BY DEF Park, Abandon, TakeBack, Goto
<1>3. \E i, a, o \in {None, candidates[op.id],
                      incoming[Skill], active[Skill], outgoing[Skill]} :
          /\ incoming' = [incoming EXCEPT ![Skill] = i]
          /\ active' = [active EXCEPT ![Skill] = a]
          /\ outgoing' = [outgoing EXCEPT ![Skill] = o]
  BY <1>1, Staying DEF Park, Abandon, Goto
<1> QED BY <1>1, <1>2, <1>3, MovesOn

LEMMA PlaceKeeps ==
    ASSUME SkillInvariant, Place
    PROVE  SkillInvariant'
<1>1. /\ pc \in Changes /\ pc' \in Changes \cup {"idle"}
      /\ UNCHANGED <<index, candidates, loading>>
  BY DEF Place, Abandon, TakeBack, Goto, Changes
<1>2. op' = op \/ pc' = "idle" \/ \E c \in {"none", "directory", "index", "sync"} :
                                      op' = [op EXCEPT !.cause = c]
  BY DEF Place, Abandon, TakeBack, Goto
<1>3. \E i, a, o \in {None, candidates[op.id],
                      incoming[Skill], active[Skill], outgoing[Skill]} :
          /\ incoming' = [incoming EXCEPT ![Skill] = i]
          /\ active' = [active EXCEPT ![Skill] = a]
          /\ outgoing' = [outgoing EXCEPT ![Skill] = o]
  BY <1>1, Staying DEF Place, Abandon, Goto
<1> QED BY <1>1, <1>2, <1>3, MovesOn

LEMMA CleanupKeeps ==
    ASSUME SkillInvariant, Cleanup
    PROVE  SkillInvariant'
<1>1. /\ pc \in Changes /\ pc' \in Changes \cup {"idle"}
      /\ UNCHANGED <<index, candidates, loading>>
  BY DEF Cleanup, Finish, Goto, Changes
<1>2. op' = op \/ pc' = "idle" \/ \E c \in {"none", "directory", "index", "sync"} :
                                      op' = [op EXCEPT !.cause = c]
  BY DEF Cleanup, Finish, Goto
<1>3. \E i, a, o \in {None, candidates[op.id],
                      incoming[Skill], active[Skill], outgoing[Skill]} :
          /\ incoming' = [incoming EXCEPT ![Skill] = i]
          /\ active' = [active EXCEPT ![Skill] = a]
          /\ outgoing' = [outgoing EXCEPT ![Skill] = o]
  BY <1>1, Staying DEF Cleanup
<1> QED BY <1>1, <1>2, <1>3, MovesOn

LEMMA UndoKeeps ==
    ASSUME SkillInvariant, Undo
    PROVE  SkillInvariant'
<1>1. /\ pc \in Changes /\ pc' \in Changes \cup {"idle"}
      /\ UNCHANGED <<index, candidates, loading>>
  BY DEF Undo, Undone, Stranded, Finish, Goto, Changes
<1>2. op' = op \/ pc' = "idle" \/ \E c \in {"none", "directory", "index", "sync"} :
                                      op' = [op EXCEPT !.cause = c]
  BY DEF Undo, Undone, Stranded, Finish, Goto
<1>3. \E i, a, o \in {None, candidates[op.id],
                      incoming[Skill], active[Skill], outgoing[Skill]} :
          /\ incoming' = [incoming EXCEPT ![Skill] = i]
          /\ active' = [active EXCEPT ![Skill] = a]
          /\ outgoing' = [outgoing EXCEPT ![Skill] = o]
  BY <1>1, Staying DEF Undo
<1> QED BY <1>1, <1>2, <1>3, MovesOn

LEMMA RestoreKeeps ==
    ASSUME SkillInvariant, Restore
    PROVE  SkillInvariant'
<1>1. /\ pc \in Changes /\ pc' \in Changes \cup {"idle"}
      /\ UNCHANGED <<index, candidates, loading>>
  BY DEF Restore, Undone, Stranded, Finish, Goto, Changes
<1>2. op' = op \/ pc' = "idle" \/ \E c \in {"none", "directory", "index", "sync"} :
                                      op' = [op EXCEPT !.cause = c]
  BY DEF Restore, Undone, Stranded, Finish, Goto
<1>3. \E i, a, o \in {None, candidates[op.id],
                      incoming[Skill], active[Skill], outgoing[Skill]} :
          /\ incoming' = [incoming EXCEPT ![Skill] = i]
          /\ active' = [active EXCEPT ![Skill] = a]
          /\ outgoing' = [outgoing EXCEPT ![Skill] = o]
  BY <1>1, Staying DEF Restore
<1> QED BY <1>1, <1>2, <1>3, MovesOn

LEMMA SyncKeeps ==
    ASSUME SkillInvariant, SyncCatalog
    PROVE  SkillInvariant'
<1>1. /\ pc \in Changes /\ pc' \in Changes \cup {"idle"}
      /\ UNCHANGED <<index, candidates, loading>>
  BY DEF SyncCatalog, TakeBack, Goto, Changes, directories
<1>2. op' = op \/ pc' = "idle" \/ \E c \in {"none", "directory", "index", "sync"} :
                                      op' = [op EXCEPT !.cause = c]
  BY DEF SyncCatalog, TakeBack, Goto
<1>3. \E i, a, o \in {None, candidates[op.id],
                      incoming[Skill], active[Skill], outgoing[Skill]} :
          /\ incoming' = [incoming EXCEPT ![Skill] = i]
          /\ active' = [active EXCEPT ![Skill] = a]
          /\ outgoing' = [outgoing EXCEPT ![Skill] = o]
  BY <1>1, Staying DEF SyncCatalog, directories
<1> QED BY <1>1, <1>2, <1>3, MovesOn

LEMMA ResyncKeeps ==
    ASSUME SkillInvariant, Resync
    PROVE  SkillInvariant'
<1>1. /\ pc \in Changes /\ pc' \in Changes \cup {"idle"}
      /\ UNCHANGED <<index, candidates, loading>>
  BY DEF Resync, Finish, Goto, Changes, directories
<1>2. op' = op \/ pc' = "idle" \/ \E c \in {"none", "directory", "index", "sync"} :
                                      op' = [op EXCEPT !.cause = c]
  BY DEF Resync, Finish, Goto
<1>3. \E i, a, o \in {None, candidates[op.id],
                      incoming[Skill], active[Skill], outgoing[Skill]} :
          /\ incoming' = [incoming EXCEPT ![Skill] = i]
          /\ active' = [active EXCEPT ![Skill] = a]
          /\ outgoing' = [outgoing EXCEPT ![Skill] = o]
  BY <1>1, Staying DEF Resync, directories
<1> QED BY <1>1, <1>2, <1>3, MovesOn

(* A step of a change that changes the index, to one as good.              *)
LEMMA IndexGoesOn ==
    ASSUME SkillInvariant, pc \in Changes, pc' \in Changes,
           UNCHANGED <<directories, loading, op>>, Sound(index', candidates),
           index'.approvals = index.approvals, index'.reviews = index.reviews,
           Backed(op.id, index'),
           loading # NoOp => index'.records[loading.id].life # "none"
    PROVE  SkillInvariant'
<1>1. UnderWay'
  <2>1. /\ op \in Calls /\ Sound(op.before, candidates) /\ Backed(op.id, op.before)
        /\ op.before.approvals = index.approvals /\ op.before.reviews = index.reviews
        /\ loading # NoOp => op.before.records[loading.id].life # "none"
    BY DEF SkillInvariant, UnderWay
  <2>2. pc' \notin {"record", "digest", "review"}
    BY DEF Changes
  <2> QED BY <2>1, <2>2 DEF UnderWay, NoOp, directories
<1>2. Waits'
  BY DEF SkillInvariant, Waits, Known, Record, NoOp
<1>3. DirectoriesVouched'
  BY DEF SkillInvariant, DirectoriesVouched, Vouched, directories
<1>4. (pc \in Places)'
  BY DEF Places
<1> QED BY <1>1, <1>2, <1>3, <1>4 DEF SkillInvariant, directories

LEMMA CommitKeeps ==
    ASSUME SkillInvariant, Commit
    PROVE  SkillInvariant'
<1>1. /\ pc \in Changes /\ UNCHANGED <<directories, loading>>
      /\ op \in Calls /\ op.id \in Ids /\ Backed(op.id, index) /\ Sound(index, candidates)
      /\ op.kind # "activate" => op.life \in {"disabled", "uninstalled"}
  BY DEF Commit, Changes, SkillInvariant, UnderWay, Calls
<1>2. CASE /\ index' = IF op.kind = "activate" THEN Activated(index, op.id)
                                                ELSE Retired(index, op.id, op.life)
           /\ pc' = "sync" /\ op' = op
  <2>1. /\ Sound(index', candidates) /\ Backed(op.id, index')
        /\ index'.approvals = index.approvals /\ index'.reviews = index.reviews
        /\ \A x \in Ids : index.records[x].life # "none" => index'.records[x].life # "none"
    <3>1. CASE op.kind = "activate"
      BY <1>1, <1>2, <3>1, ActivatedIsSound
    <3>2. CASE op.kind # "activate"
      BY <1>1, <1>2, <3>2, RetiredIsSound
    <3> QED BY <3>1, <3>2
  <2>2. loading # NoOp => index'.records[loading.id].life # "none"
    BY <2>1 DEF SkillInvariant, Waits, Known, Record
  <2>3. pc' \in Changes
    BY <1>2 DEF Changes
  <2> QED BY <1>1, <1>2, <2>1, <2>2, <2>3, IndexGoesOn
<1>3. CASE TakeBack("index") /\ UNCHANGED index
  <2>1. pc' \in Changes /\ UNCHANGED <<index, candidates, loading>>
    BY <1>1, <1>3 DEF TakeBack, Goto, Changes, directories
  <2>2. \E c \in {"none", "directory", "index", "sync"} : op' = [op EXCEPT !.cause = c]
    BY <1>3 DEF TakeBack
  <2>3. \E i, a, o \in {None, candidates[op.id],
                        incoming[Skill], active[Skill], outgoing[Skill]} :
            /\ incoming' = [incoming EXCEPT ![Skill] = i]
            /\ active' = [active EXCEPT ![Skill] = a]
            /\ outgoing' = [outgoing EXCEPT ![Skill] = o]
    BY <1>1, Staying DEF directories
  <2> QED BY <1>1, <2>1, <2>2, <2>3, MovesOn
<1> QED BY <1>2, <1>3 DEF Commit, Goto

LEMMA RevertKeeps ==
    ASSUME SkillInvariant, Revert
    PROVE  SkillInvariant'
<1>1. /\ pc \in Changes /\ pc' \in Changes /\ UNCHANGED <<directories, loading, op>>
      /\ index' = op.before \/ index' = index
  BY DEF Revert, Goto, Changes
<1>2. /\ Sound(op.before, candidates) /\ Sound(index, candidates)
      /\ Backed(op.id, index) /\ Backed(op.id, op.before)
      /\ op.before.approvals = index.approvals /\ op.before.reviews = index.reviews
      /\ loading # NoOp => op.before.records[loading.id].life # "none"
  BY <1>1 DEF SkillInvariant, UnderWay
<1>3. loading # NoOp => index.records[loading.id].life # "none"
  BY DEF SkillInvariant, Waits, Known, Record
<1> QED BY <1>1, <1>2, <1>3, IndexGoesOn

(* The mark of a degraded catalogue is no part of what is sound.           *)
LEMMA MarkIsSound ==
    ASSUME NEW dirs, NEW idx, Sound(idx, dirs), NEW mark \in BOOLEAN
    PROVE  LET new == [idx EXCEPT !.degraded = mark] IN
           /\ Sound(new, dirs) /\ new.records = idx.records
           /\ new.approvals = idx.approvals /\ new.reviews = idx.reviews
<1> DEFINE new == [idx EXCEPT !.degraded = mark]
<1>1. /\ new.approvals = idx.approvals /\ new.reviews = idx.reviews
      /\ new.records = idx.records /\ new.active = idx.active /\ new.last = idx.last
      /\ new \in Indexes
  BY DEF Sound, Indexes
<1> HIDE DEF new
<1>2. Sound(new, dirs)
  BY <1>1 DEF Sound, Backed, Agrees
<1> QED BY <1>1, <1>2 DEF new

LEMMA MarkDegradedKeeps ==
    ASSUME SkillInvariant, MarkDegraded
    PROVE  SkillInvariant'
<1>1. /\ pc' = "idle" /\ UNCHANGED <<directories, loading>>
      /\ index' = [index EXCEPT !.degraded = TRUE] \/ index' = index
  BY DEF MarkDegraded, Finish, Goto
<1>2. /\ Sound(index', candidates) /\ index'.records = index.records
      /\ index'.approvals = index.approvals /\ index'.reviews = index.reviews
  BY <1>1, MarkIsSound DEF SkillInvariant
<1>3. Waits'
  BY <1>1, <1>2 DEF SkillInvariant, Waits, Known, Record
<1> QED BY <1>1, <1>2, <1>3, Rests DEF SkillInvariant, DirectoriesVouched, directories

-----------------------------------------------------------------------------
(* The end of a process and the next one                                   *)

LEMMA AttachKeeps ==
    ASSUME SkillInvariant, Attach
    PROVE  SkillInvariant'
<1>1. /\ pc' \in {"idle", "opening"} /\ UNCHANGED <<directories, loading>>
      /\ index' = [index EXCEPT !.degraded = FALSE] \/ index' = index
  BY DEF Attach, Opened, Goto
<1>2. /\ Sound(index', candidates) /\ index'.records = index.records
      /\ index'.approvals = index.approvals /\ index'.reviews = index.reviews
  BY <1>1, MarkIsSound DEF SkillInvariant
<1>3. Waits'
  BY <1>1, <1>2 DEF SkillInvariant, Waits, Known, Record
<1> QED BY <1>1, <1>2, <1>3, Rests DEF SkillInvariant, DirectoriesVouched, directories

(* A directory that is left half way, emptied, or given what another had.  *)
LEMMA DirectoryLeft ==
    ASSUME NEW idx, NEW dir \in [Names -> Directories],
           \A n \in Names : Vouched(dir[n], n, idx),
           NEW key, NEW left \in Directories,
           left \in {None, Torn} \/ Vouched(left, key, idx),
           NEW more, more = dir \/ more = [dir EXCEPT ![key] = left]
    PROVE  more \in [Names -> Directories] /\ \A n \in Names : Vouched(more[n], n, idx)
BY IndexAssumption, StoreAssumption DEF Vouched

LEMMA KillKeeps ==
    ASSUME SkillInvariant, Kill
    PROVE  SkillInvariant'
<1>1. index' = index /\ pc' = "opening" /\ loading' = NoOp
  BY DEF Kill, Goto
<1>2. /\ candidates \in [Ids -> Directories]
      /\ {incoming, active, outgoing} \subseteq [Names -> Directories]
      /\ \A n \in Names : /\ Vouched(incoming[n], n, index)
                          /\ Vouched(active[n], n, index)
                          /\ Vouched(outgoing[n], n, index)
      /\ Sound(index, candidates)
  BY DEF SkillInvariant, DirectoriesVouched
<1>3. candidates' \in [Ids -> Directories] /\ Sound(index, candidates')
  <2>1. CASE candidates' = candidates
    BY <1>2, <2>1
  <2>2. CASE /\ pc = "digest"
             /\ \E left \in Bytes \cup {Torn} : candidates' = [candidates EXCEPT ![op.id] = left]
    <3>1. index.records[op.id].life = "none" \/ ~index.records[op.id].sealed
      BY <2>2 DEF SkillInvariant, UnderWay, Record
    <3>2. /\ candidates' \in [Ids -> Directories]
          /\ \A x \in Ids : x # op.id => candidates'[x] = candidates[x]
      BY <1>2, <2>2 DEF Directories
    <3> QED BY <1>2, <3>1, <3>2, CandidateChanges
  <2> QED BY <2>1, <2>2 DEF Kill, Mix, directories
<1>4. Torn \in Directories
  BY DEF Directories
<1>5. \E key :
         /\ incoming' = incoming \/ incoming' = [incoming EXCEPT ![key] = Torn]
         /\ active' = active \/ active' = [active EXCEPT ![key] = Torn]
         /\ outgoing' = outgoing \/ outgoing' = [outgoing EXCEPT ![key] = Torn]
  <2>1. CASE pc = "opening"
    BY <2>1 DEF Kill, Tear
  <2>2. CASE pc # "opening"
    BY <2>2 DEF Kill, Tear, directories
  <2> QED BY <2>1, <2>2
<1>6. incoming' \in [Names -> Directories] /\ \A n \in Names : Vouched(incoming'[n], n, index)
  BY <1>2, <1>4, <1>5, DirectoryLeft
<1>7. active' \in [Names -> Directories] /\ \A n \in Names : Vouched(active'[n], n, index)
  BY <1>2, <1>4, <1>5, DirectoryLeft
<1>8. outgoing' \in [Names -> Directories] /\ \A n \in Names : Vouched(outgoing'[n], n, index)
  BY <1>2, <1>4, <1>5, DirectoryLeft
<1>9. DirectoriesVouched'
  BY <1>1, <1>3, <1>6, <1>7, <1>8 DEF DirectoriesVouched
<1>10. UnderWay' /\ Waits' /\ (pc \in Places)'
  BY <1>1 DEF UnderWay, Waits, Places, Changes
<1> QED BY <1>1, <1>3, <1>9, <1>10 DEF SkillInvariant

LEMMA RecoverKeeps ==
    ASSUME SkillInvariant, NEW n \in Names, Recover(n)
    PROVE  SkillInvariant'
<1>1. /\ pc = "opening" /\ UNCHANGED <<index, candidates, pc, loading>>
      /\ RestoreParked(n) \/ Drop(n)
  BY DEF Recover
<1>2. /\ candidates \in [Ids -> Directories]
      /\ {incoming, active, outgoing} \subseteq [Names -> Directories]
      /\ \A m \in Names : /\ Vouched(incoming[m], m, index)
                          /\ Vouched(active[m], m, index)
                          /\ Vouched(outgoing[m], m, index)
  BY DEF SkillInvariant, DirectoriesVouched
<1>3. None \in Directories /\ outgoing[n] \in Directories /\ Vouched(outgoing[n], n, index)
  BY <1>2 DEF Directories
<1>4. /\ incoming' = incoming \/ incoming' = [incoming EXCEPT ![n] = None]
      /\ \/ active' = active \/ active' = [active EXCEPT ![n] = None]
         \/ active' = [active EXCEPT ![n] = outgoing[n]]
      /\ outgoing' = outgoing \/ outgoing' = [outgoing EXCEPT ![n] = None]
  BY <1>1 DEF RestoreParked, Drop
<1>5. incoming' \in [Names -> Directories] /\ \A m \in Names : Vouched(incoming'[m], m, index)
  BY <1>2, <1>3, <1>4, DirectoryLeft
<1>6. active' \in [Names -> Directories] /\ \A m \in Names : Vouched(active'[m], m, index)
  BY <1>2, <1>3, <1>4, DirectoryLeft
<1>7. outgoing' \in [Names -> Directories] /\ \A m \in Names : Vouched(outgoing'[m], m, index)
  BY <1>2, <1>3, <1>4, DirectoryLeft
<1>8. DirectoriesVouched'
  BY <1>1, <1>2, <1>5, <1>6, <1>7 DEF DirectoriesVouched
<1>9. UnderWay' /\ Waits' /\ (pc \in Places)'
  BY <1>1 DEF SkillInvariant, UnderWay, Waits, Places, Changes, Known, Record
<1> QED BY <1>1, <1>8, <1>9 DEF SkillInvariant

LEMMA StartKeeps ==
    ASSUME SkillInvariant, Start
    PROVE  SkillInvariant'
<1>1. CASE Preflight \/ \E n \in Names : Unreadable(n)
  <2>1. /\ UNCHANGED <<index, directories, loading>> /\ pc' \in {"attach", "refused"}
    BY <1>1 DEF Preflight, Unreadable, Goto
  <2>2. Waits'
    BY <2>1 DEF SkillInvariant, Waits, Known, Record
  <2> QED BY <2>1, <2>2, Rests DEF SkillInvariant, DirectoriesVouched, directories
<1> QED BY <1>1, AttachKeeps, RecoverKeeps DEF Start

-----------------------------------------------------------------------------
LEMMA InitialSkills == Init => SkillInvariant
<1> SUFFICES ASSUME Init PROVE SkillInvariant
  OBVIOUS
<1> USE DEF Init
<1>1. EmptyIndex \in Indexes
  BY DEF EmptyIndex, Indexes, Records
<1>2. Sound(index, candidates)
  BY <1>1 DEF Sound, EmptyIndex, Agrees, NoRecord
<1>3. DirectoriesVouched
  BY IndexAssumption DEF DirectoriesVouched, Directories, Vouched
<1>4. UnderWay /\ Waits /\ pc \in Places
  BY DEF UnderWay, Waits, Changes, Places
<1> QED BY <1>2, <1>3, <1>4 DEF SkillInvariant

LEMMA SkillsStep ==
    ASSUME SkillInvariant, [Next]_vars
    PROVE  SkillInvariant'
<1>1. CASE \E id \in Ids : Editing(id)
  BY <1>1, PublishKeeps, WriteFileKeeps, LoadKeeps, SealKeeps, ReviewKeeps, RequestKeeps
     DEF Editing
<1>2. CASE \E id \in Ids : Trusted(id)
  BY <1>2, ApproveKeeps, RejectKeeps, ActivateKeeps, UninstallKeeps, RetireKeeps DEF Trusted
<1>3. CASE Step
  BY <1>3, RecordCandidateKeeps, RecordDigestKeeps, ValidateKeeps, RecordReviewKeeps,
     PublishIncomingKeeps, DiscardKeeps, ParkKeeps, PlaceKeeps, CommitKeeps, SyncKeeps,
     CleanupKeeps, UndoKeeps, RestoreKeeps, RevertKeeps, ResyncKeeps, MarkDegradedKeeps
     DEF Step
<1>4. CASE Start
  BY <1>4, StartKeeps
<1>5. CASE Kill
  BY <1>5, KillKeeps
<1>6. CASE UNCHANGED vars
  BY <1>6 DEF vars, directories, SkillInvariant, DirectoriesVouched, UnderWay, Waits,
              Known, Record
<1> QED BY <1>1, <1>2, <1>3, <1>4, <1>5, <1>6 DEF Next

(* The index, the directories and the operation under way agree in every   *)
(* state, for any skills, revisions, contents, failing calls and kills.    *)
THEOREM SkillsAgree == Spec => []SkillInvariant
BY InitialSkills, SkillsStep, PTL DEF Spec

(* SkillTypeOK: the values index.json and the directories of SkillService  *)
(* can have.                                                               *)
THEOREM SkillsTyped == Spec => []SkillTypeOK
<1>1. SkillInvariant => SkillTypeOK
  BY DEF SkillInvariant, Sound, Indexes, DirectoriesVouched, SkillTypeOK, Record, Places, Changes
<1> QED BY <1>1, SkillsAgree, PTL

(* SealedKept: writeFile, seal and a process killed between the write of a *)
(* candidate and that of its digest never change what was sealed.          *)
THEOREM SealedStays == Spec => []SealedKept
<1>1. SkillInvariant => SealedKept
  BY DEF SkillInvariant, Sound, Agrees, SealedKept, Record
<1> QED BY <1>1, SkillsAgree, PTL

(* ServedWasApproved: what DSH serves, and what a rollback would bring     *)
(* back, was approved by a person as it is, whichever call of activate,    *)
(* disable, their way back or recoverInterrupted a process was killed at.  *)
THEOREM OnlyApprovedServed == Spec => []ServedWasApproved
<1>1. SkillInvariant => ServedWasApproved
  BY DEF SkillInvariant, Sound, Indexes, DirectoriesVouched, Vouched, Backed, ServedWasApproved,
         Record
<1> QED BY <1>1, SkillsAgree, PTL

-----------------------------------------------------------------------------
(* What DSH serves is what the index says                                  *)

(* The contents that an index says DSH should serve for a skill. *)
Wanted(idx, n) == IF idx.active[n] = None THEN None ELSE idx.records[idx.active[n]].digest

(* What the change under way replaces, and what by. *)
Old == Wanted(op.before, Skill)

New == IF op.kind = "activate" THEN op.before.records[op.id].digest ELSE None

(* No call on the directories failed, and what else failed was taken back  *)
(* or marked: after two failures at most, whatever they were.              *)
InOrder == ~broken /\ ~index.degraded /\ faults <= 2

(* The index of before, until the commit and after the way back; and the   *)
(* one that has the change.                                                *)
IndexFollows ==
    /\ pc \in {"publish", "discard", "park", "place", "commit", "resync"} => index = op.before
    /\ pc \in {"undo", "restore"} /\ op.cause = "index" => index = op.before
    /\ (pc \in {"sync", "cleanup", "revert"}
           \/ (pc \in {"undo", "restore"} /\ op.cause = "sync")) =>
          /\ Wanted(index, Skill) = New
          /\ \A m \in Names \ {Skill} : Wanted(index, m) = Wanted(op.before, m)

(* Where the old and the new contents are, call by call. *)
DirectoriesFollow ==
    /\ pc \in {"publish", "discard", "park", "revert", "resync"} => active[Skill] = Old
    /\ pc \in {"discard", "park", "place"} /\ op.kind = "activate" => incoming[Skill] = New
    /\ pc = "park" => outgoing[Skill] = None
    /\ pc = "place" => op.kind = "activate"
    /\ pc \in {"place", "restore"} => active[Skill] = None
    /\ pc \in {"commit", "sync", "cleanup", "undo"} => active[Skill] = New
    /\ pc \in {"place", "commit", "sync", "undo", "restore"} => outgoing[Skill] = Old
    /\ pc # "degrade" => \A m \in Names \ {Skill} : active[m] = Wanted(op.before, m)

(* A way back has a cause, and as many failures behind it. *)
Caused ==
    /\ pc \in {"undo", "restore"} => op.cause \in {"index", "sync"} /\ faults >= 1
    /\ pc \in {"revert", "resync"} => op.cause = "sync" /\ faults >= 1
    /\ pc = "degrade" => op.cause = "sync" /\ faults >= 2

(* A start can put the skill in place: what the index wants is served, or  *)
(* parked, and nothing in its way cannot be read.                          *)
Fit(n) ==
    \/ Wanted(index, n) = None
    \/ active[n] = Wanted(index, n)
    \/ outgoing[n] = Wanted(index, n) /\ (active[n] = Torn => cut \in {"index", "recovery"})

(* Between two calls the directories agree with the index, or follow the   *)
(* change under way, and a failure has left its trace.                     *)
InPlace ==
    /\ pc \in {"idle", "record", "digest", "review"} => \A n \in Names : Serves(n)
    /\ pc = "opening" /\ cut # "sync" => \A n \in Names : Fit(n)
    /\ pc \in Changes => IndexFollows /\ DirectoriesFollow /\ Caused

(* Inductive, with what the index and the directories agree on.            *)
CommittedInv ==
    /\ SkillInvariant
    /\ faults \in Nat
    /\ pc \in Changes => ~index.degraded /\ ~op.before.degraded
    /\ pc = "attach" => \A n \in Names : Serves(n)
    /\ pc = "refused" => StartsAgain \/ faults > 2
    /\ InOrder => InPlace

(* What is wanted is what the candidate of the active revision holds.      *)
LEMMA WantedIs ==
    ASSUME NEW idx, NEW dirs, Sound(idx, dirs), NEW n \in Names
    PROVE  /\ Wanted(idx, n) \in Bytes \cup {None} /\ Wanted(idx, n) # Torn
           /\ (Wanted(idx, n) = None <=> idx.active[n] = None)
           /\ idx.active[n] # None =>
                 /\ Wanted(idx, n) = dirs[idx.active[n]]
                 /\ Wanted(idx, n) = idx.records[idx.active[n]].digest
<1>1. CASE idx.active[n] = None
  BY <1>1, StoreAssumption DEF Wanted
<1>2. CASE idx.active[n] # None
  <2>1. PICK id \in Ids : id = idx.active[n]
    BY <1>2 DEF Sound, Indexes
  <2>2. Backed(id, idx) /\ Agrees(idx.records[id], id, idx, dirs) /\ idx.records[id] \in Records
    BY <1>2, <2>1 DEF Sound, Indexes
  <2>3. idx.records[id].digest \in Bytes /\ dirs[id] = idx.records[id].digest
    BY <2>2 DEF Backed, Agrees, Records, NoRecord
  <2>4. Wanted(idx, n) = idx.records[id].digest
    BY <1>2, <2>1 DEF Wanted
  <2> QED
    BY <1>2, <2>1, <2>3, <2>4, StoreAssumption, IndexAssumption
<1> QED
  BY <1>1, <1>2

(* The commit changes what is wanted for one skill.                        *)
LEMMA ActivatedWants ==
    ASSUME NEW idx \in Indexes, NEW id \in Ids, NEW n \in Names,
           id # None, idx.records[id].life # "none",
           \A m \in Names : idx.active[m] # None => idx.records[idx.active[m]].life # "none"
    PROVE  /\ Wanted(Activated(idx, id), n) =
                 IF n = Name(id) THEN idx.records[id].digest ELSE Wanted(idx, n)
           /\ Activated(idx, id).degraded = idx.degraded
<1> DEFINE records == [x \in Ids |->
               IF x = id THEN [idx.records[x] EXCEPT !.life = "active"]
               ELSE IF Name(x) = Name(id) /\ idx.records[x].life = "active"
                    THEN [idx.records[x] EXCEPT !.life = "disabled"]
                    ELSE idx.records[x]]
           new == Activated(idx, id)
<1>1. /\ new.records = records /\ new.active = [idx.active EXCEPT ![Name(id)] = id]
      /\ new.degraded = idx.degraded
  BY DEF Activated, Indexes
<1>2. \A x \in Ids : idx.records[x].life # "none" => records[x].digest = idx.records[x].digest
  <2> TAKE x \in Ids
  <2> HAVE idx.records[x].life # "none"
  <2>1. idx.records[x] \in Records \ {NoRecord}
    BY DEF Indexes, NoRecord
  <2>2. \/ records[x] = idx.records[x]
        \/ \E life \in Lives : records[x] = [idx.records[x] EXCEPT !.life = life]
    BY DEF Lives
  <2> HIDE DEF records
  <2> QED
    BY <2>1, <2>2 DEF Records, NoRecord
<1> HIDE DEF records, new
<1>3. idx.active \in [Names -> Ids \cup {None}]
  BY DEF Indexes
<1>4. new.active[n] = IF n = Name(id) THEN id ELSE idx.active[n]
  BY <1>1, <1>3
<1>5. CASE n = Name(id)
  BY <1>1, <1>2, <1>4, <1>5 DEF Wanted, new
<1>6. CASE n # Name(id)
  BY <1>1, <1>2, <1>3, <1>4, <1>6 DEF Wanted, new
<1> QED
  BY <1>1, <1>5, <1>6 DEF new

(* An index without a skill wants what it wanted of the others.            *)
LEMMA RetiredWants ==
    ASSUME NEW idx \in Indexes, NEW id \in Ids, NEW n \in Names,
           NEW life \in {"disabled", "uninstalled"},
           \A m \in Names : idx.active[m] # None => idx.records[idx.active[m]].life # "none"
    PROVE  /\ Wanted(Retired(idx, id, life), n) =
                 IF n = Name(id) THEN None ELSE Wanted(idx, n)
           /\ Retired(idx, id, life).degraded = idx.degraded
<1> DEFINE records == [x \in Ids |->
               IF x = id \/ (Name(x) = Name(id) /\ idx.records[x].life = "active")
               THEN [idx.records[x] EXCEPT !.life = life]
               ELSE idx.records[x]]
           new == Retired(idx, id, life)
<1>1. /\ new.records = records /\ new.active = [idx.active EXCEPT ![Name(id)] = None]
      /\ new.degraded = idx.degraded
  BY DEF Retired, Indexes
<1>2. \A x \in Ids : idx.records[x].life # "none" => records[x].digest = idx.records[x].digest
  <2> TAKE x \in Ids
  <2> HAVE idx.records[x].life # "none"
  <2>1. idx.records[x] \in Records \ {NoRecord}
    BY DEF Indexes, NoRecord
  <2>2. records[x] \in {idx.records[x], [idx.records[x] EXCEPT !.life = life]}
    OBVIOUS
  <2> HIDE DEF records
  <2> QED
    BY <2>1, <2>2 DEF Records, NoRecord
<1> HIDE DEF records, new
<1>3. idx.active \in [Names -> Ids \cup {None}]
  BY DEF Indexes
<1>4. new.active[n] = IF n = Name(id) THEN None ELSE idx.active[n]
  BY <1>1, <1>3
<1>5. CASE n = Name(id)
  BY <1>1, <1>2, <1>4, <1>5 DEF Wanted, new
<1>6. CASE n # Name(id)
  BY <1>1, <1>2, <1>3, <1>4, <1>6 DEF Wanted, new
<1> QED
  BY <1>1, <1>5, <1>6 DEF new

(* ServedIsCommitted speaks of what is wanted. *)
LEMMA ServesWanted ==
    ASSUME NEW n \in Names
    PROVE  Serves(n) <=> active[n] = Wanted(index, n)
BY DEF Serves, Wanted, Record

Resting == {"idle", "record", "digest", "review"}

(* A step between changes leaves what is wanted and what is there.         *)
LEMMA Undisturbed ==
    ASSUME CommittedInv, SkillInvariant', pc \in Resting, pc' \in Resting,
           UNCHANGED <<active, index.active, index.degraded>>,
           faults' \in {faults, faults + 1}, broken => broken',
           \A n \in Names : index.active[n] # None =>
               candidates'[index.active[n]] = candidates[index.active[n]]
    PROVE  CommittedInv'
<1>1. Sound(index, candidates) /\ Sound(index', candidates')
  BY DEF CommittedInv, SkillInvariant
<1>2. ASSUME NEW n \in Names PROVE Wanted(index', n) = Wanted(index, n)
  BY <1>1, WantedIs, IndexAssumption
<1>3. \A n \in Names : Serves(n) => Serves(n)'
  <2> TAKE n \in Names
  <2>1. Serves(n) <=> active[n] = Wanted(index, n)
    BY ServesWanted
  <2>2. Serves(n)' <=> active'[n] = Wanted(index', n)
    BY DEF Serves, Wanted, Record
  <2> QED
    BY <1>2, <2>1, <2>2
<1>4. InOrder' => InOrder
  BY DEF InOrder, CommittedInv
<1>5. pc' \notin Changes \cup {"attach", "refused", "opening"} /\ pc \in Resting
  BY DEF Changes, Resting
<1>6. InOrder' => InPlace'
  BY <1>3, <1>4, <1>5 DEF CommittedInv, InPlace, Resting
<1> QED
  BY <1>5, <1>6 DEF CommittedInv

(* A call that fails is counted. *)
LEMMA Counted ==
    ASSUME Succeeds \/ \E kind : Fails(kind)
    PROVE  faults' \in {faults, faults + 1} /\ (broken => broken')
<1>1. faults' \in {faults, faults + 1}
  BY DEF Succeeds, Fails, counts, ends
<1>2. CASE Succeeds
  BY <1>2 DEF Succeeds, counts, ends
<1>3. ASSUME NEW kind, Fails(kind) PROVE broken => broken'
  BY <1>3 DEF Fails
<1> QED
  BY <1>1, <1>2, <1>3

(* Editing and judging a revision, and what is wanted of every skill.      *)
LEMMA EditingPlaced ==
    ASSUME CommittedInv, SkillInvariant', NEW id \in Ids,
           Editing(id) \/ Approve(id) \/ Reject(id) \/ Uninstall(id)
    PROVE  CommittedInv'
<1>1. /\ pc = "idle" /\ pc' \in Resting /\ UNCHANGED <<active, faults, broken>>
      /\ candidates' = candidates \/ ((~Known(id) \/ ~Record(id).sealed)
            /\ \E b \in Bytes \cup {None} : candidates' = [candidates EXCEPT ![id] = b])
      /\ \/ index' = index
         \/ \E rec : index' = Update(index, id, rec)
         \/ \E rec, p : index' = [Update(index, id, rec) EXCEPT !.approvals = @ \cup p]
  BY DEF Editing, Approve, Reject, Uninstall, Publish, WriteFile, Editable, Load, Seal, Review,
         RequestApproval, Judge, Goto, Resting, directories, counts, ends
<1>2. index \in Indexes /\ Sound(index, candidates) /\ candidates \in [Ids -> Directories]
  BY DEF CommittedInv, SkillInvariant, Sound, DirectoriesVouched
<1>3. UNCHANGED <<index.active, index.degraded>>
  BY <1>1, <1>2 DEF Indexes, Update
<1>4. ASSUME NEW n \in Names, index.active[n] # None
      PROVE  candidates'[index.active[n]] = candidates[index.active[n]]
  <2>1. index.active[n] \in Ids /\ Backed(index.active[n], index)
    BY <1>2, <1>4 DEF Sound, Indexes
  <2>2. index.active[n] = id => candidates' = candidates
    BY <1>1, <2>1 DEF Backed, Known, Record
  <2> QED
    BY <1>1, <1>2, <2>1, <2>2
<1> QED
  BY <1>1, <1>3, <1>4, Undisturbed DEF Resting

(* The writes of the index that follow.                                    *)
LEMMA RecordingPlaced ==
    ASSUME CommittedInv, SkillInvariant',
           RecordCandidate \/ RecordDigest \/ Validate \/ RecordReview
    PROVE  CommittedInv'
<1>1. pc \in Resting /\ pc' \in Resting /\ UNCHANGED active
  BY DEF RecordCandidate, RecordDigest, Validate, RecordReview, Resting, Finish, Goto,
     directories
<1>2. faults' \in {faults, faults + 1} /\ (broken => broken')
  <2>1. Succeeds \/ \E kind : Fails(kind)
    BY DEF RecordCandidate, RecordDigest, Validate, RecordReview, Succeeds
  <2> QED
    BY <2>1, Counted
<1>3. /\ \/ candidates' = candidates
         \/ ~Known(op.id) /\ op.id \in Ids /\ candidates' = [candidates EXCEPT ![op.id] = None]
  BY DEF RecordCandidate, RecordDigest, Validate, RecordReview, directories, CommittedInv,
         SkillInvariant, UnderWay
<1>4. index \in Indexes /\ Sound(index, candidates) /\ candidates \in [Ids -> Directories]
  BY DEF CommittedInv, SkillInvariant, Sound, DirectoriesVouched
<1>5. UNCHANGED <<index.active, index.degraded>>
  BY <1>4 DEF RecordCandidate, RecordDigest, Validate, RecordReview, Update, Indexes
<1>6. ASSUME NEW n \in Names, index.active[n] # None
      PROVE  candidates'[index.active[n]] = candidates[index.active[n]]
  <2>1. index.active[n] \in Ids /\ Backed(index.active[n], index)
    BY <1>4, <1>6 DEF Sound, Indexes
  <2>2. index.active[n] = op.id => candidates' = candidates
    BY <1>3, <2>1 DEF Backed, Known, Record
  <2> QED
    BY <1>3, <1>4, <2>1, <2>2
<1> QED
  BY <1>1, <1>2, <1>5, <1>6, Undisturbed

(* A change begins with everything in its place.                           *)
LEMMA BeginningPlaced ==
    ASSUME CommittedInv, SkillInvariant', NEW id \in Ids,
           Activate(id) \/ \E life \in {"disabled", "uninstalled"} : Retire(id, life)
    PROVE  CommittedInv'
<1>1. /\ pc = "idle" /\ pc' \in {"publish", "discard"}
      /\ op'.id = id /\ op'.before = index /\ op'.kind \in {"activate", "retire"}
      /\ (pc' = "discard" => op'.kind = "retire") /\ ~index.degraded
      /\ UNCHANGED <<index, active, incoming, outgoing, faults, broken>>
  BY DEF Activate, Retire, MayActivate, Goto, directories, counts, ends
<1>2. Name(id) \in Names
  BY IndexAssumption DEF Name
<1>3. InOrder' => InOrder
  BY <1>1 DEF InOrder
<1>4. InOrder => \A n \in Names : active[n] = Wanted(index, n)
  BY <1>1, ServesWanted DEF CommittedInv, InPlace
<1>5. InOrder' => DirectoriesFollow'
  BY <1>1, <1>2, <1>3, <1>4 DEF DirectoriesFollow, Old, Wanted, Skill
<1>6. IndexFollows' /\ Caused'
  BY <1>1 DEF IndexFollows, Caused
<1>7. InOrder' => InPlace'
  BY <1>1, <1>5, <1>6 DEF InPlace
<1> QED
  BY <1>1, <1>7 DEF CommittedInv

(* The calls of activate, disable and uninstall, and their way back.       *)
LEMMA ChangesPlaced ==
    ASSUME CommittedInv, SkillInvariant',
           \/ PublishIncoming \/ DiscardOutgoing \/ Park \/ Place \/ Commit \/ SyncCatalog
           \/ Cleanup \/ Undo \/ Restore \/ Revert \/ Resync \/ MarkDegraded
    PROVE  CommittedInv'
<1>1. Succeeds \/ \E kind : Fails(kind)
  BY DEF PublishIncoming, DiscardOutgoing, Park, Place, Commit, SyncCatalog, Cleanup, Undo,
         Restore, Revert, Resync, MarkDegraded, Abandon, Stranded
<1>2. pc \in Changes /\ pc' \in Changes \cup {"idle"}
  BY DEF PublishIncoming, DiscardOutgoing, Park, Place, Commit, SyncCatalog, Cleanup, Undo,
         Restore, Revert, Resync, MarkDegraded, Abandon, TakeBack, Undone, Stranded, Finish,
         Goto, Changes
<1>3. UNCHANGED candidates
  BY DEF PublishIncoming, DiscardOutgoing, Park, Place, Commit, SyncCatalog, Cleanup, Undo,
         Restore, Revert, Resync, MarkDegraded, directories
<1>4. /\ pc \in Changes /\ pc' \in Changes \cup {"idle"}
      /\ faults' \in {faults, faults + 1} /\ (broken => broken')
      /\ UNCHANGED candidates
  BY <1>1, <1>2, <1>3, Counted
<1>5. /\ op \in Calls /\ op.id \in Ids /\ op.before \in Indexes /\ Skill \in Names
      /\ Sound(op.before, candidates) /\ Backed(op.id, op.before) /\ Backed(op.id, index)
      /\ op.kind \in {"activate", "retire"} /\ index \in Indexes /\ Sound(index, candidates)
      /\ (op.kind = "retire" => op.life \in {"disabled", "uninstalled"})
      /\ {incoming, active, outgoing} \subseteq [Names -> Directories]
      /\ faults \in Nat /\ ~index.degraded /\ ~op.before.degraded
  BY <1>4, IndexAssumption DEF CommittedInv, SkillInvariant, UnderWay, Calls, Sound,
     DirectoriesVouched, Skill, Name
<1>6. /\ candidates[op.id] = op.before.records[op.id].digest
      /\ New \in Bytes \cup {None} /\ New # Torn
  <2>1. op.before.records[op.id] \in Records
    BY <1>5 DEF Indexes
  <2>2. Agrees(op.before.records[op.id], op.id, op.before, candidates)
    BY <1>5 DEF Sound
  <2> QED
    BY <1>5, <2>1, <2>2, StoreAssumption DEF Backed, Agrees, New, Records, NoRecord
<1>7. Old \in Bytes \cup {None} /\ Old # Torn
  BY <1>5, WantedIs DEF Old
<1>8. InOrder' => InOrder
  BY <1>4, <1>5 DEF InOrder
<1>9. faults' \in Nat
  BY <1>4, <1>5
<1>10. ASSUME index' = index \/ index' = op.before, pc' # "idle", op'.before = op.before,
             InOrder' => IndexFollows' /\ DirectoriesFollow' /\ Caused'
      PROVE  CommittedInv'
  <2>1. pc' \in Changes
    BY <1>4, <1>10
  <2> QED
    BY <1>5, <1>9, <1>10, <2>1 DEF CommittedInv, InPlace, Changes
<1>11. ASSUME pc' = "idle", InOrder' => \A n \in Names : active'[n] = Wanted(index', n)
      PROVE  CommittedInv'
  <2>1. \A n \in Names : Serves(n)' <=> active'[n] = Wanted(index', n)
    BY DEF Serves, Wanted, Record
  <2> QED
    BY <1>9, <1>11, <2>1 DEF CommittedInv, InPlace, Changes
<1>12. ASSUME InOrder' PROVE IndexFollows /\ DirectoriesFollow /\ Caused /\ ~broken
  BY <1>4, <1>8, <1>12 DEF CommittedInv, InPlace, InOrder
<1>13. ASSUME NEW c, op' = [op EXCEPT !.cause = c]
       PROVE  /\ op'.id = op.id /\ op'.kind = op.kind /\ op'.before = op.before
              /\ Skill' = Skill /\ Old' = Old /\ New' = New
  <2>1. op'.id = op.id /\ op'.kind = op.kind /\ op'.before = op.before
    BY <1>5, <1>13 DEF Calls
  <2> QED
    BY <2>1 DEF Skill, Old, New, Wanted
<1>14. ASSUME op' = op PROVE Skill' = Skill /\ Old' = Old /\ New' = New
  BY <1>14 DEF Skill, Old, New, Wanted
<1>15. ASSUME Abandon, UNCHANGED index PROVE CommittedInv'
  <2>1. pc' = "undo" /\ op' = [op EXCEPT !.cause = "directory"]
    BY <1>15 DEF Abandon, TakeBack, Goto
  <2>2. ~InOrder'
    BY <1>15 DEF Abandon, Fails, InOrder
  <2>3. op'.before = op.before
    BY <1>13, <2>1
  <2> QED
    BY <1>10, <1>15, <2>1, <2>2, <2>3
<1>16. ASSUME Stranded, UNCHANGED index PROVE CommittedInv'
  <2>1. ~InOrder'
    BY <1>16 DEF Stranded, Fails, InOrder
  <2>2. pc' = "idle" \/ (pc' = "degrade" /\ op' = op)
    BY <1>16 DEF Stranded, Finish, Goto
  <2> QED
    BY <1>10, <1>11, <1>16, <2>1, <2>2
<1> USE <1>5 DEF Goto
<1>17. CASE PublishIncoming
  <2>1. CASE Abandon
    BY <1>15, <1>17, <2>1 DEF PublishIncoming
  <2>2. CASE ~Abandon
    <3>1. /\ pc = "publish" /\ pc' = "discard" /\ op' = op
          /\ incoming' = [incoming EXCEPT ![Skill] = candidates[op.id]]
          /\ UNCHANGED <<index, active, outgoing>>
      BY <1>17, <2>2 DEF PublishIncoming
    <3>2. ASSUME InOrder' PROVE IndexFollows' /\ DirectoriesFollow' /\ Caused'
      <4>1. IndexFollows' /\ Caused'
        BY <1>12, <3>1, <3>2 DEF IndexFollows, Caused
      <4>2. incoming'[Skill] = candidates[op.id]
        BY <3>1
      <4>3. DirectoriesFollow'
        BY <1>6, <1>12, <1>14, <3>1, <3>2, <4>2 DEF DirectoriesFollow, New
      <4> QED
        BY <4>1, <4>3
    <3> QED
      BY <1>10, <3>1, <3>2
  <2> QED
    BY <2>1, <2>2
<1>18. CASE DiscardOutgoing
  <2>1. CASE Abandon
    BY <1>15, <1>18, <2>1 DEF DiscardOutgoing
  <2>2. CASE ~Abandon
    <3>1. /\ pc = "discard" /\ pc' = "park" /\ op' = op
          /\ outgoing' = [outgoing EXCEPT ![Skill] = None]
          /\ UNCHANGED <<index, active, incoming>>
      BY <1>18, <2>2 DEF DiscardOutgoing
    <3>2. ASSUME InOrder' PROVE IndexFollows' /\ DirectoriesFollow' /\ Caused'
      <4>1. IndexFollows' /\ Caused'
        BY <1>12, <3>1, <3>2 DEF IndexFollows, Caused
      <4>2. outgoing'[Skill] = None
        BY <3>1
      <4>3. DirectoriesFollow'
        BY <1>12, <1>14, <3>1, <3>2, <4>2 DEF DirectoriesFollow
      <4> QED
        BY <4>1, <4>3
    <3> QED
      BY <1>10, <3>1, <3>2
  <2> QED
    BY <2>1, <2>2
<1>19. CASE Park
  <2>1. CASE Abandon
    BY <1>15, <1>19, <2>1 DEF Park
  <2>2. CASE ~Abandon
    <3>1. /\ pc = "park" /\ pc' = (IF op.kind = "activate" THEN "place" ELSE "commit") /\ op' = op
          /\ outgoing' = [outgoing EXCEPT ![Skill] = active[Skill]]
          /\ active' = [active EXCEPT ![Skill] = None]
          /\ UNCHANGED <<index, incoming>>
      BY <1>19, <2>2 DEF Park
    <3>2. ASSUME InOrder' PROVE IndexFollows' /\ DirectoriesFollow' /\ Caused'
      <4>1. IndexFollows' /\ Caused'
        BY <1>12, <3>1, <3>2 DEF IndexFollows, Caused
      <4>2. /\ outgoing'[Skill] = active[Skill] /\ active'[Skill] = None
            /\ \A m \in Names \ {Skill} : active'[m] = active[m]
        BY <3>1
      <4>3. DirectoriesFollow'
        BY <1>12, <1>14, <3>1, <3>2, <4>2 DEF DirectoriesFollow, New
      <4> QED
        BY <4>1, <4>3
    <3> QED
      BY <1>10, <3>1, <3>2
  <2> QED
    BY <2>1, <2>2
<1>20. CASE Place
  <2>1. CASE Abandon
    BY <1>15, <1>20, <2>1 DEF Place
  <2>2. CASE ~Abandon
    <3>1. /\ pc = "place" /\ pc' = "commit" /\ op' = op
          /\ active' = [active EXCEPT ![Skill] = incoming[Skill]]
          /\ UNCHANGED <<index, outgoing>>
      BY <1>20, <2>2 DEF Place
    <3>2. ASSUME InOrder' PROVE IndexFollows' /\ DirectoriesFollow' /\ Caused'
      <4>1. IndexFollows' /\ Caused'
        BY <1>12, <3>1, <3>2 DEF IndexFollows, Caused
      <4>2. /\ active'[Skill] = incoming[Skill]
            /\ \A m \in Names \ {Skill} : active'[m] = active[m]
        BY <3>1
      <4>3. DirectoriesFollow'
        BY <1>12, <1>14, <3>1, <3>2, <4>2 DEF DirectoriesFollow
      <4> QED
        BY <4>1, <4>3
    <3> QED
      BY <1>10, <3>1, <3>2
  <2> QED
    BY <2>1, <2>2
<1>21. CASE Commit
  <2>1. pc = "commit" /\ UNCHANGED directories
    BY <1>21 DEF Commit
  <2>2. CASE TakeBack("index") /\ Fails("index") /\ UNCHANGED index
    <3>1. pc' = "undo" /\ op' = [op EXCEPT !.cause = "index"] /\ faults' = faults + 1
      BY <2>2 DEF TakeBack, Fails
    <3>2. op'.cause = "index" /\ op'.before = op.before
      BY <3>1 DEF Calls
    <3>3. Skill' = Skill /\ Old' = Old /\ New' = New
      BY <1>13, <3>1
    <3>4. ASSUME InOrder' PROVE IndexFollows' /\ DirectoriesFollow' /\ Caused'
      <4>1. IndexFollows' /\ Caused'
        BY <1>12, <2>1, <2>2, <3>1, <3>2, <3>4 DEF IndexFollows, Caused
      <4>2. DirectoriesFollow'
        BY <1>12, <2>1, <3>1, <3>2, <3>3, <3>4 DEF DirectoriesFollow, directories
      <4> QED
        BY <4>1, <4>2
    <3> QED
      BY <1>10, <2>2, <3>1, <3>2, <3>4
  <2>3. CASE /\ index' = IF op.kind = "activate" THEN Activated(index, op.id)
                                                ELSE Retired(index, op.id, op.life)
             /\ pc' = "sync" /\ op' = op
    <3>1. \A m \in Names : index.active[m] # None => index.records[index.active[m]].life # "none"
      BY DEF Sound, Backed
    <3>2. /\ index.records[op.id].life # "none" /\ op.id # None
      BY IndexAssumption DEF Backed
    <3>3. /\ ~index'.degraded
          /\ \A n \in Names : Wanted(index', n) =
                IF n # Skill THEN Wanted(index, n)
                ELSE IF op.kind = "activate" THEN index.records[op.id].digest ELSE None
      <4>1. PICK id \in Ids : id = op.id
        OBVIOUS
      <4>2. CASE op.kind = "activate"
        <5>1. index' = Activated(index, id)
          BY <2>3, <4>1, <4>2
        <5>2. \A n \in Names :
                 /\ Wanted(Activated(index, id), n) =
                       IF n = Name(id) THEN index.records[id].digest ELSE Wanted(index, n)
                 /\ Activated(index, id).degraded = index.degraded
          BY <3>1, <3>2, <4>1, ActivatedWants
        <5> QED
          BY <4>1, <4>2, <5>1, <5>2 DEF Skill
      <4>3. CASE op.kind # "activate"
        <5>1. PICK life \in {"disabled", "uninstalled"} : life = op.life
          BY <4>3
        <5>2. index' = Retired(index, id, life)
          BY <2>3, <4>1, <4>3, <5>1
        <5>3. \A n \in Names :
                 /\ Wanted(Retired(index, id, life), n) =
                       IF n = Name(id) THEN None ELSE Wanted(index, n)
                 /\ Retired(index, id, life).degraded = index.degraded
          BY <3>1, RetiredWants
        <5> QED
          BY <4>1, <4>3, <5>2, <5>3 DEF Skill
      <4> QED
        BY <4>2, <4>3
    <3>4. ASSUME InOrder' PROVE IndexFollows' /\ DirectoriesFollow' /\ Caused'
      <4>1. faults' <= 2 /\ ~broken'
        BY <3>4 DEF InOrder
      <4>2. InOrder
        BY <1>4, <4>1 DEF InOrder
      <4>3. IndexFollows /\ DirectoriesFollow /\ Caused
        BY <1>4, <4>2 DEF CommittedInv, InPlace
      <4>4. index = op.before /\ Skill' = Skill /\ New' = New /\ Old' = Old
        BY <1>14, <2>1, <2>3, <4>3 DEF IndexFollows
      <4>5. \A m \in Names \ {Skill} : Wanted(index', m) = Wanted(op.before, m)
        BY <3>3, <4>4
      <4>6. Wanted(index', Skill) = New
        BY <3>3, <4>4 DEF New
      <4>7. IndexFollows' /\ Caused'
        BY <2>3, <4>4, <4>5, <4>6 DEF IndexFollows, Caused, Wanted
      <4>8. DirectoriesFollow'
        BY <2>1, <2>3, <4>3, <4>4 DEF DirectoriesFollow, directories
      <4> QED
        BY <4>7, <4>8
    <3>5. pc' \in Changes
      BY <2>3 DEF Changes
    <3>6. InOrder' => InPlace'
      BY <2>3, <3>4 DEF InPlace, Changes
    <3> QED
      BY <1>9, <2>3, <3>3, <3>5, <3>6 DEF CommittedInv, Changes
  <2> QED
    BY <1>21, <2>2, <2>3 DEF Commit
<1>22. CASE SyncCatalog
  <2>1. pc = "sync" /\ UNCHANGED <<index, incoming, active, outgoing>>
    BY <1>22 DEF SyncCatalog, directories
  <2>2. CASE pc' = "cleanup" /\ op' = op
    <3>1. ASSUME InOrder' PROVE IndexFollows' /\ DirectoriesFollow' /\ Caused'
      <4>1. IndexFollows' /\ Caused'
        BY <1>12, <1>14, <2>1, <2>2, <3>1 DEF IndexFollows, Caused, Wanted
      <4>2. DirectoriesFollow'
        BY <1>12, <1>14, <2>1, <2>2, <3>1 DEF DirectoriesFollow
      <4> QED
        BY <4>1, <4>2
    <3> QED
      BY <1>10, <2>1, <2>2, <3>1
  <2>3. CASE TakeBack("sync") /\ Fails("sync")
    <3>1. pc' = "undo" /\ op' = [op EXCEPT !.cause = "sync"] /\ faults' = faults + 1
      BY <2>3 DEF TakeBack, Fails
    <3>2. op'.cause = "sync" /\ op'.before = op.before
      BY <3>1 DEF Calls
    <3>3. Skill' = Skill /\ Old' = Old /\ New' = New
      BY <1>13, <3>1
    <3>4. ASSUME InOrder' PROVE IndexFollows' /\ DirectoriesFollow' /\ Caused'
      <4>1. IndexFollows' /\ Caused'
        BY <1>12, <2>1, <3>1, <3>2, <3>3, <3>4 DEF IndexFollows, Caused, Wanted
      <4>2. DirectoriesFollow'
        BY <1>12, <2>1, <3>1, <3>2, <3>3, <3>4 DEF DirectoriesFollow
      <4> QED
        BY <4>1, <4>2
    <3> QED
      BY <1>10, <2>1, <3>1, <3>2, <3>4
  <2> QED
    BY <1>22, <2>2, <2>3 DEF SyncCatalog
<1>23. CASE Cleanup
  <2>1. pc = "cleanup" /\ pc' = "idle" /\ UNCHANGED <<index, active>>
    BY <1>23 DEF Cleanup, Finish
  <2>2. ASSUME InOrder', NEW n \in Names PROVE active'[n] = Wanted(index', n)
    BY <1>12, <2>1, <2>2 DEF IndexFollows, DirectoriesFollow
  <2> QED
    BY <1>11, <2>1, <2>2
<1>24. ASSUME Undone, UNCHANGED index, pc \in {"undo", "restore"}, active'[Skill] = Old,
              \A m \in Names \ {Skill} : active'[m] = active[m]
       PROVE  CommittedInv'
  <2>1. CASE op.cause = "sync"
    <3>1. pc' = "revert" /\ op' = op
      BY <1>24, <2>1 DEF Undone
    <3>2. ASSUME InOrder' PROVE IndexFollows' /\ DirectoriesFollow' /\ Caused'
      <4>1. IndexFollows' /\ Caused'
        BY <1>4, <1>12, <1>14, <1>24, <2>1, <3>1, <3>2 DEF IndexFollows, Caused, Wanted
      <4>2. DirectoriesFollow'
        BY <1>12, <1>14, <1>24, <3>1, <3>2 DEF DirectoriesFollow
      <4> QED
        BY <4>1, <4>2
    <3> QED
      BY <1>10, <1>24, <3>1, <3>2
  <2>2. CASE op.cause # "sync"
    <3>1. pc' = "idle"
      BY <1>24, <2>2 DEF Undone, Finish
    <3>2. ASSUME InOrder', NEW n \in Names PROVE active'[n] = Wanted(index', n)
      BY <1>12, <1>24, <2>2, <3>2 DEF IndexFollows, DirectoriesFollow, Caused, Old
    <3> QED
      BY <1>11, <3>1, <3>2
  <2> QED
    BY <2>1, <2>2
<1>25. CASE Undo
  <2>1. pc = "undo" /\ UNCHANGED <<index, outgoing>>
    BY <1>25 DEF Undo
  <2>2. CASE Stranded
    BY <1>16, <2>1, <2>2
  <2>3. CASE /\ active' = [active EXCEPT ![Skill] = None]
             /\ IF outgoing[Skill] # None THEN pc' = "restore" /\ op' = op ELSE Undone
    <3>1. /\ active'[Skill] = None /\ \A m \in Names \ {Skill} : active'[m] = active[m]
      BY <2>3
    <3>2. CASE outgoing[Skill] # None
      <4>1. ASSUME InOrder' PROVE IndexFollows' /\ DirectoriesFollow' /\ Caused'
        <5>1. IndexFollows' /\ Caused'
          BY <1>4, <1>12, <1>14, <2>1, <2>3, <3>2, <4>1 DEF IndexFollows, Caused, Wanted
        <5>2. DirectoriesFollow'
          BY <1>12, <1>14, <2>1, <2>3, <3>1, <3>2, <4>1 DEF DirectoriesFollow
        <5> QED
          BY <5>1, <5>2
      <4> QED
        BY <1>10, <2>1, <2>3, <3>2, <4>1
    <3>3. CASE outgoing[Skill] = None
      <4>1. CASE InOrder'
        <5>1. outgoing[Skill] = Old
          BY <1>12, <2>1, <4>1 DEF DirectoriesFollow
        <5> QED
          BY <1>24, <2>1, <2>3, <3>1, <3>3, <5>1
      <4>2. CASE ~InOrder'
        <5>1. pc' = "idle" \/ (pc' = "revert" /\ op' = op)
          BY <2>3, <3>3 DEF Undone, Finish
        <5> QED
          BY <1>10, <1>11, <2>1, <4>2, <5>1
      <4> QED
        BY <4>1, <4>2
    <3> QED
      BY <3>2, <3>3
  <2> QED
    BY <1>25, <2>2, <2>3 DEF Undo
<1>26. CASE Restore
  <2>1. pc = "restore" /\ UNCHANGED index
    BY <1>26 DEF Restore
  <2>2. CASE Stranded
    BY <1>16, <2>1, <2>2
  <2>3. CASE active' = [active EXCEPT ![Skill] = outgoing[Skill]] /\ Undone
    <3>1. /\ active'[Skill] = outgoing[Skill]
          /\ \A m \in Names \ {Skill} : active'[m] = active[m]
      BY <2>3
    <3>2. CASE InOrder'
      <4>1. outgoing[Skill] = Old
        BY <1>12, <2>1, <3>2 DEF DirectoriesFollow
      <4> QED
        BY <1>24, <2>1, <2>3, <3>1, <4>1
    <3>3. CASE ~InOrder'
      <4>1. pc' = "idle" \/ (pc' = "revert" /\ op' = op)
        BY <2>3 DEF Undone, Finish
      <4> QED
        BY <1>10, <1>11, <2>1, <3>3, <4>1
    <3> QED
      BY <3>2, <3>3
  <2> QED
    BY <1>26, <2>2, <2>3 DEF Restore
<1>27. CASE Revert
  <2>1. /\ pc = "revert" /\ op' = op /\ UNCHANGED <<incoming, active, outgoing>>
        /\ \/ index' = op.before /\ pc' = "resync"
           \/ index' = index /\ pc' = "degrade" /\ faults' = faults + 1
    BY <1>27 DEF Revert, directories, Fails
  <2>2. ASSUME InOrder' PROVE IndexFollows' /\ DirectoriesFollow' /\ Caused'
    <3>1. IndexFollows' /\ Caused'
      BY <1>4, <1>12, <2>1, <2>2 DEF IndexFollows, Caused
    <3>2. DirectoriesFollow'
      BY <1>12, <1>14, <2>1, <2>2 DEF DirectoriesFollow
    <3> QED
      BY <3>1, <3>2
  <2> QED
    BY <1>10, <2>1, <2>2
<1>28. CASE Resync
  <2>1. /\ pc = "resync" /\ UNCHANGED <<index, incoming, active, outgoing>>
        /\ pc' = "idle" \/ (pc' = "degrade" /\ op' = op /\ faults' = faults + 1)
    BY <1>28 DEF Resync, directories, Fails, Finish
  <2>2. CASE pc' = "idle"
    <3>1. ASSUME InOrder', NEW n \in Names PROVE active'[n] = Wanted(index', n)
      BY <1>12, <2>1, <3>1 DEF IndexFollows, DirectoriesFollow, Old
    <3> QED
      BY <1>11, <2>2, <3>1
  <2>3. CASE pc' = "degrade" /\ op' = op /\ faults' = faults + 1
    <3>1. ASSUME InOrder' PROVE IndexFollows' /\ DirectoriesFollow' /\ Caused'
      BY <1>12, <2>1, <2>3, <3>1 DEF IndexFollows, DirectoriesFollow, Caused
    <3> QED
      BY <1>10, <2>1, <2>3, <3>1
  <2> QED
    BY <2>1, <2>2, <2>3
<1>29. CASE MarkDegraded
  <2>1. pc = "degrade" /\ pc' = "idle"
    BY <1>29 DEF MarkDegraded, Finish
  <2>2. CASE index' = [index EXCEPT !.degraded = TRUE]
    <3>1. ~InOrder'
      BY <2>2 DEF InOrder, Indexes
    <3> QED
      BY <1>11, <2>1, <3>1
  <2>3. CASE Fails("index")
    <3>1. ~InOrder'
      BY <1>12, <2>1, <2>3 DEF InOrder, Fails, Caused
    <3> QED
      BY <1>11, <2>1, <3>1
  <2> QED
    BY <1>29, <2>2, <2>3 DEF MarkDegraded
<1> QED
  BY <1>17, <1>18, <1>19, <1>20, <1>21, <1>22, <1>23, <1>25, <1>26, <1>27, <1>28, <1>29

(* The end of the process, at whatever call.                               *)
LEMMA KillPlaced ==
    ASSUME CommittedInv, SkillInvariant', Kill
    PROVE  CommittedInv'
<1>1. /\ pc # "refused" /\ pc' = "opening" /\ UNCHANGED <<index, faults, broken>>
  BY DEF Kill, Goto
<1>2. InOrder' => InOrder
  BY <1>1 DEF InOrder
<1>3. /\ index \in Indexes /\ Sound(index, candidates)
      /\ {incoming, active, outgoing} \subseteq [Names -> Directories]
      /\ pc \in Places
  BY DEF CommittedInv, SkillInvariant, Sound, DirectoriesVouched
<1>4. SUFFICES ASSUME InOrder', cut' # "sync", NEW n \in Names PROVE Fit(n)'
  BY <1>1 DEF CommittedInv, InPlace, Changes
<1>5. InPlace
  BY <1>2, <1>4 DEF CommittedInv
<1>6. Wanted(index', n) = Wanted(index, n) /\ Wanted(index, n) # Torn
  BY <1>1, <1>3, WantedIs
<1>7. CASE pc \in {"idle", "record", "digest", "review", "attach"}
  <2>1. active[n] = Wanted(index, n)
    BY <1>5, <1>7, ServesWanted DEF InPlace, CommittedInv
  <2>2. active'[n] = active[n]
    BY <1>3, <1>7 DEF Kill, Tear, directories
  <2> QED
    BY <1>6, <2>1, <2>2 DEF Fit
<1>8. CASE pc = "opening"
  <2>1. /\ cut' = IF cut # "sync" /\ active' # active THEN "recovery" ELSE cut
        /\ \/ active'[n] = active[n]
           \/ DropsActive(n) /\ active'[n] = Torn
        /\ outgoing'[n] = outgoing[n] \/ DropsOutgoing(n)
    BY <1>3, <1>8 DEF Kill, Tear
  <2>2. Fit(n) /\ cut # "sync"
    BY <1>4, <1>5, <1>8, <2>1 DEF InPlace
  <2>3. Wanted(index, n) # None => (Differs(n) <=> active[n] # Wanted(index, n))
    BY <1>3, WantedIs DEF Differs, Record
  <2>4. CASE Wanted(index, n) = None
    BY <1>6, <2>4 DEF Fit
  <2>5. CASE Wanted(index, n) # None /\ active[n] = Wanted(index, n)
    <3>1. ~DropsActive(n)
      BY <1>3, <2>3, <2>5, WantedIs DEF DropsActive
    <3> QED
      BY <1>6, <2>1, <2>5, <3>1 DEF Fit
  <2>6. CASE Wanted(index, n) # None /\ active[n] # Wanted(index, n)
    <3>1. outgoing'[n] = Wanted(index, n)
      BY <2>1, <2>2, <2>3, <2>6 DEF Fit, DropsOutgoing
    <3>2. active'[n] = Torn => cut' \in {"index", "recovery"}
      <4>1. CASE active' = active
        BY <2>1, <2>2, <2>6, <4>1 DEF Fit
      <4>2. CASE active' # active
        BY <2>1, <2>2, <4>2
      <4> QED
        BY <4>1, <4>2
    <3> QED
      BY <1>6, <3>1, <3>2 DEF Fit
  <2> QED
    BY <2>4, <2>5, <2>6
<1>9. CASE pc \in Changes
  <2>1. IndexFollows /\ DirectoriesFollow /\ Caused
    BY <1>5, <1>9 DEF InPlace
  <2>2. /\ op \in Calls /\ Skill \in Names /\ Sound(op.before, candidates)
    BY <1>9, IndexAssumption DEF CommittedInv, SkillInvariant, UnderWay, Calls, Skill, Name
  <2>3. /\ active' = active \/ (pc = "undo" /\ active' = [active EXCEPT ![Skill] = Torn])
        /\ \/ outgoing' = outgoing
           \/ pc \in {"discard", "cleanup"} /\ outgoing' = [outgoing EXCEPT ![Skill] = Torn]
        /\ cut' = IF pc \in {"undo", "restore", "revert", "degrade"} THEN op.cause ELSE "nothing"
    BY <1>9 DEF Kill, Tear, directories, Changes
  <2>4. pc \notin {"revert", "degrade"} /\ (pc \in {"undo", "restore"} => op.cause = "index")
    BY <1>4, <2>1, <2>3 DEF Caused
  <2>5. CASE n # Skill
    <3>1. active[n] = Wanted(op.before, n) /\ active'[n] = active[n]
      BY <1>3, <2>1, <2>3, <2>4, <2>5 DEF DirectoriesFollow
    <3>2. Wanted(index, n) = Wanted(op.before, n)
      BY <1>9, <2>1, <2>4, <2>5 DEF IndexFollows, Changes
    <3> QED
      BY <1>6, <3>1, <3>2 DEF Fit
  <2>6. CASE n = Skill
    <3>1. CASE pc \in {"publish", "discard", "park", "resync"}
      <4>1. active[n] = Wanted(index, n) /\ active' = active
        BY <2>1, <2>3, <2>6, <3>1 DEF IndexFollows, DirectoriesFollow, Old
      <4> QED
        BY <1>6, <4>1 DEF Fit
    <3>2. CASE pc \in {"sync", "cleanup"}
      <4>1. active[n] = Wanted(index, n) /\ active' = active
        BY <2>1, <2>3, <2>6, <3>2 DEF IndexFollows, DirectoriesFollow
      <4> QED
        BY <1>6, <4>1 DEF Fit
    <3>3. CASE pc \in {"place", "commit", "undo", "restore"}
      <4>1. outgoing[n] = Wanted(index, n) /\ outgoing' = outgoing
        BY <2>1, <2>3, <2>4, <2>6, <3>3 DEF IndexFollows, DirectoriesFollow, Old
      <4>2. active'[n] = Torn => cut' \in {"index", "recovery"}
        <5>1. CASE pc = "undo"
          BY <2>3, <2>4, <5>1
        <5>2. CASE pc # "undo"
          <6>1. active' = active /\ active[n] \in {None, New}
            BY <2>1, <2>3, <2>6, <3>3, <5>2 DEF DirectoriesFollow
          <6>2. New # Torn /\ None # Torn
            <7>1. op.before.records[op.id] \in Records /\ Backed(op.id, op.before)
              BY <1>9, <2>2 DEF CommittedInv, SkillInvariant, UnderWay, Calls, Sound, Indexes
            <7> QED
              BY <7>1, StoreAssumption DEF New, Backed, Records, NoRecord
          <6> QED
            BY <6>1, <6>2
        <5> QED
          BY <5>1, <5>2
      <4> QED
        BY <1>6, <4>1, <4>2 DEF Fit
    <3> QED
      BY <1>9, <2>4, <3>1, <3>2, <3>3 DEF Changes
  <2> QED
    BY <2>5, <2>6
<1> QED
  BY <1>1, <1>3, <1>7, <1>8, <1>9 DEF Places

(* The next process puts what it finds in place, and looks at it.          *)
LEMMA StartPlaced ==
    ASSUME CommittedInv, SkillInvariant', Start
    PROVE  CommittedInv'
<1>1. /\ index \in Indexes /\ Sound(index, candidates)
      /\ {incoming, active, outgoing} \subseteq [Names -> Directories]
  BY DEF CommittedInv, SkillInvariant, Sound, DirectoriesVouched
<1>2. ASSUME NEW n \in Names
      PROVE  /\ Wanted(index, n) # Torn /\ (Wanted(index, n) = None <=> index.active[n] = None)
             /\ index.active[n] # None =>
                   Wanted(index, n) = Record(index.active[n]).digest
  BY <1>1, WantedIs DEF Record
<1>3. CASE Preflight
  <2>1. /\ pc = "opening" /\ UNCHANGED <<index, active, faults, broken, cut>>
        /\ \A n \in Names : Recovered(n)
        /\ pc' = IF \A n \in Names : Whole(n) THEN "attach" ELSE "refused"
    BY <1>3 DEF Preflight, Goto, directories, counts, ends
  <2>2. CASE \A n \in Names : Whole(n)
    <3>1. ASSUME NEW n \in Names PROVE Serves(n)'
      BY <1>2, <2>1, <2>2, <3>1 DEF Serves, Whole, Recovered, Record
    <3> QED
      BY <2>1, <2>2, <3>1 DEF CommittedInv, InPlace, Changes
  <2>3. CASE ~\A n \in Names : Whole(n)
    <3>1. PICK n \in Names : ~Whole(n)
      BY <2>3
    <3>2. pc' = "refused"
      BY <2>1, <2>3
    <3>3. CASE InOrder /\ cut # "sync"
      <4>1. Fit(n) /\ Recovered(n)
        BY <2>1, <3>3 DEF CommittedInv, InPlace
      <4>2. active[n] = Wanted(index, n) /\ index.active[n] # None
        BY <1>2, <3>1, <4>1 DEF Fit, Recovered, Whole
      <4>3. Withdrawn
        BY <1>2, <3>1, <4>2 DEF Whole, Withdrawn
      <4>4. StartsAgain'
        BY <2>1, <4>3 DEF StartsAgain, Withdrawn, Record
      <4> QED
        BY <2>1, <3>2, <4>4 DEF CommittedInv, InPlace, Changes
    <3>4. CASE ~(InOrder /\ cut # "sync")
      <4>1. (StartsAgain \/ faults > 2)'
        BY <2>1, <3>4 DEF StartsAgain, InOrder, CommittedInv
      <4> QED
        BY <2>1, <3>2, <4>1 DEF CommittedInv, InPlace, Changes
    <3> QED
      BY <3>3, <3>4
  <2> QED
    BY <2>2, <2>3
<1>4. CASE Attach
  <2>1. /\ pc = "attach" /\ pc' \in {"idle", "opening"} /\ UNCHANGED <<active, outgoing>>
        /\ index' = [index EXCEPT !.degraded = FALSE] \/ index' = index
        /\ Succeeds \/ Opened \/ \E kind : Fails(kind)
    BY <1>4 DEF Attach, Opened, Goto, directories
  <2>2. faults' \in {faults, faults + 1}
    BY <2>1, Counted DEF Opened
  <2>3. ASSUME NEW n \in Names PROVE Serves(n)' /\ active'[n] = Wanted(index', n)
    <3>1. index'.active = index.active /\ index'.records = index.records
      BY <1>1, <2>1 DEF Indexes
    <3> QED
      BY <2>1, <3>1 DEF CommittedInv, Serves, Wanted, Record
  <2>4. InPlace'
    BY <2>1, <2>3 DEF InPlace, Fit, Changes
  <2> QED
    BY <2>1, <2>2, <2>4 DEF CommittedInv, Changes
<1>5. ASSUME NEW n \in Names, Recover(n) PROVE CommittedInv'
  <2>1. pc = "opening" /\ pc' = pc /\ UNCHANGED <<index, faults, broken, cut>>
    BY <1>5 DEF Recover, counts, ends
  <2>2. /\ \A m \in Names \ {n} : active'[m] = active[m] /\ outgoing'[m] = outgoing[m]
        /\ \/ active[n] = None /\ active'[n] = outgoing[n]
           \/ active'[n] = active[n] /\ outgoing'[n] = outgoing[n]
           \/ Differs(n) /\ active'[n] = None /\ outgoing'[n] = outgoing[n]
           \/ ~Differs(n) /\ active'[n] = active[n]
           \/ index.active[n] = None
    BY <1>1, <1>5 DEF Recover, RestoreParked, Drop, DropsActive, DropsOutgoing
  <2>3. ASSUME NEW m \in Names, Fit(m) PROVE Fit(m)'
    <3>1. Wanted(index', m) = Wanted(index, m)
      BY <2>1
    <3>2. CASE m # n
      BY <2>1, <2>2, <2>3, <3>1, <3>2 DEF Fit
    <3>3. CASE m = n
      <4>1. CASE index.active[n] = None
        BY <1>2, <3>1, <3>3, <4>1 DEF Fit
      <4>2. CASE index.active[n] # None
        <5>1. Wanted(index, n) # None /\ (Differs(n) <=> active[n] # Wanted(index, n))
          BY <1>2, <4>2 DEF Differs
        <5> QED
          BY <2>1, <2>2, <2>3, <3>1, <3>3, <4>2, <5>1, StoreAssumption DEF Fit
      <4> QED
        BY <4>1, <4>2
    <3> QED
      BY <3>2, <3>3
  <2> QED
    BY <2>1, <2>3 DEF CommittedInv, InPlace, InOrder, Changes
<1>6. ASSUME NEW n \in Names, Unreadable(n) PROVE CommittedInv'
  <2>1. /\ pc = "opening" /\ pc' = "refused" /\ UNCHANGED <<index, active, faults, broken, cut>>
        /\ outgoing' = outgoing /\ index.active[n] # None /\ active[n] = Torn
    BY <1>6 DEF Unreadable, Goto, directories, counts, ends
  <2>2. (StartsAgain \/ faults > 2)'
    <3>1. CASE InOrder /\ cut # "sync"
      <4>1. Fit(n)
        BY <2>1, <3>1 DEF CommittedInv, InPlace
      <4>2. HalfRemoved(n)
        BY <1>2, <2>1, <4>1 DEF Fit, HalfRemoved
      <4>3. HalfRemoved(n)'
        BY <2>1, <4>2 DEF HalfRemoved, Record
      <4> QED
        BY <4>3 DEF StartsAgain
    <3>2. CASE ~(InOrder /\ cut # "sync")
      BY <2>1, <3>2 DEF StartsAgain, InOrder, CommittedInv
    <3> QED
      BY <3>1, <3>2
  <2> QED
    BY <2>1, <2>2 DEF CommittedInv, InPlace, Changes
<1> QED
  BY <1>3, <1>4, <1>5, <1>6 DEF Start

(* A store with nothing in it.                                             *)
LEMMA InitialPlaced == Init => CommittedInv
<1> SUFFICES ASSUME Init PROVE CommittedInv
  OBVIOUS
<1>1. \A n \in Names : Serves(n)
  BY DEF Init, Serves, EmptyIndex
<1> QED
  BY <1>1, InitialSkills DEF Init, CommittedInv, InPlace, Changes

(* Every step keeps the directories after the index.                       *)
LEMMA CommittedStep ==
    ASSUME CommittedInv, [Next]_vars
    PROVE  CommittedInv'
<1>1. SkillInvariant'
  BY SkillsStep DEF CommittedInv
<1>2. CASE \E id \in Ids : Editing(id)
  BY <1>1, <1>2, EditingPlaced
<1>3. CASE \E id \in Ids : Trusted(id)
  BY <1>1, <1>3, EditingPlaced, BeginningPlaced DEF Trusted
<1>4. CASE Step
  BY <1>1, <1>4, RecordingPlaced, ChangesPlaced DEF Step
<1>5. CASE Start
  BY <1>1, <1>5, StartPlaced
<1>6. CASE Kill
  BY <1>1, <1>6, KillPlaced
<1>7. CASE UNCHANGED vars
  <2>1. /\ UNCHANGED <<index, candidates, incoming, active, outgoing, pc, op, cut, broken, faults>>
    BY <1>7 DEF vars, directories, counts, ends
  <2>2. /\ StartsAgain' <=> StartsAgain
        /\ \A n \in Names : (Serves(n)' <=> Serves(n)) /\ (Fit(n)' <=> Fit(n))
    BY <2>1 DEF StartsAgain, HalfRemoved, Withdrawn, Serves, Fit, Wanted, Record
  <2>3. IndexFollows' <=> IndexFollows
    BY <2>1 DEF IndexFollows, Wanted, Skill, New
  <2>4. DirectoriesFollow' <=> DirectoriesFollow
    BY <2>1 DEF DirectoriesFollow, Wanted, Skill, New, Old
  <2>5. (Caused' <=> Caused) /\ (InOrder' <=> InOrder)
    BY <2>1 DEF Caused, InOrder
  <2> QED
    BY <1>1, <2>1, <2>2, <2>3, <2>4, <2>5 DEF CommittedInv, InPlace
<1> QED
  BY <1>2, <1>3, <1>4, <1>5, <1>6, <1>7 DEF Next

(* ServedIsCommitted: whatever call failed and wherever processes were     *)
(* killed, in a call or in the recovery of a start, DSH serves what the    *)
(* index commits to, as long as no third call fails in one home: a way     *)
(* back of which the write of the index and the mark both failed is        *)
(* forgotten.                                                              *)
THEOREM CommittedIsServed == Spec => [](faults <= 2 => ServedIsCommitted)
<1>1. CommittedInv => (faults <= 2 => ServedIsCommitted)
  BY DEF CommittedInv, InOrder, InPlace, ServedIsCommitted
<1> QED
  BY InitialPlaced, CommittedStep, <1>1, PTL DEF Spec

(* StartsAgain: a start that is refused has one of its five causes, and a  *)
(* directory that a process was killed in the middle of removing, at a     *)
(* start too, lies beside the whole revision the index names; for any      *)
(* number of kills and starts, as long as no third call fails.             *)
THEOREM StoreOpens == Spec => [](faults <= 2 => StartsAgain)
<1>1. CommittedInv => (faults <= 2 => StartsAgain)
  BY DEF CommittedInv, StartsAgain
<1> QED
  BY InitialPlaced, CommittedStep, <1>1, PTL DEF Spec

-----------------------------------------------------------------------------
(* The decisions on the page                                               *)

(* The body of a post.                                                     *)
IsPost(post) ==
    post = [act |-> post.act, id |-> post.id, seen |-> post.seen,
            acknowledge |-> post.acknowledge, dependents |-> post.dependents,
            answer |-> post.answer]

(* A view is of an earlier write of the index, or is the index there is.   *)
Past(view, store) ==
    /\ view.generation \in Nat /\ view.generation <= store.generation
    /\ view.generation = store.generation => view = store

(* A post and its answer show stores that have been written.               *)
Entered(post, store) ==
    /\ IsPost(post) /\ Past(post.seen, store)
    /\ post.answer.kind = "done" => Past(post.answer.view, store)

(* Every store that a page, a post or an answer shows has been written.    *)
DeskInv ==
    /\ shelf.generation \in Nat
    /\ \E S : letters \in Seq(S)
    /\ tab = [view |-> tab.view, told |-> tab.told] /\ Past(tab.view, shelf)
    /\ \A n \in DOMAIN letters : Entered(letters[n], shelf)

(* The same letters, but for the one taken out.                            *)
LEMMA TakenOut ==
    ASSUME NEW S, NEW s \in Seq(S), NEW n \in DOMAIN s
    PROVE  /\ RemoveAt(s, n) \in Seq(S) /\ Len(RemoveAt(s, n)) = Len(s) - 1
           /\ \A k \in DOMAIN RemoveAt(s, n) :
                 \E m \in DOMAIN s : RemoveAt(s, n)[k] = s[m]
<1> DEFINE before == SubSeq(s, 1, n - 1)
           after == SubSeq(s, n + 1, Len(s))
<1>1. n \in 1 .. Len(s) /\ Len(s) \in Nat
  OBVIOUS
<1>2. /\ before \in Seq(S) /\ Len(before) = n - 1
      /\ \A k \in 1 .. n - 1 : before[k] = s[k]
  BY <1>1
<1>3. /\ after \in Seq(S) /\ Len(after) = Len(s) - n
      /\ \A k \in 1 .. Len(s) - n : after[k] = s[n + k]
  BY <1>1
<1>4. RemoveAt(s, n) = before \o after
  BY DEF RemoveAt
<1> HIDE DEF before, after
<1>5. /\ before \o after \in Seq(S) /\ Len(before \o after) = Len(s) - 1
  BY <1>1, <1>2, <1>3
<1>6. ASSUME NEW k \in 1 .. Len(s) - 1 PROVE \E m \in DOMAIN s : (before \o after)[k] = s[m]
  <2>1. k \in 1 .. Len(before) + Len(after)
    BY <1>1, <1>2, <1>3
  <2>2. (before \o after)[k] = IF k <= Len(before) THEN before[k] ELSE after[k - Len(before)]
    BY <1>2, <1>3, <2>1, ConcatProperties
  <2>3. CASE k <= n - 1
    BY <1>1, <1>2, <2>2, <2>3
  <2>4. CASE k > n - 1
    <3>1. k - (n - 1) \in 1 .. Len(s) - n /\ ~(k <= Len(before)) /\ k - Len(before) = k - (n - 1)
      BY <1>1, <1>2, <2>4
    <3>2. (before \o after)[k] = after[k - (n - 1)]
      BY <2>2, <3>1
    <3>3. after[k - (n - 1)] = s[n + (k - (n - 1))]
      BY <1>3, <3>1
    <3>4. n + (k - (n - 1)) \in 1 .. Len(s) /\ DOMAIN s = 1 .. Len(s)
      BY <1>1, <2>4
    <3> QED
      BY <3>2, <3>3, <3>4
  <2>5. k <= n - 1 \/ k > n - 1
    BY <1>1
  <2> QED
    BY <2>3, <2>4, <2>5
<1>7. DOMAIN (before \o after) = 1 .. Len(s) - 1
  BY <1>5
<1> QED
  BY <1>4, <1>5, <1>6, <1>7

(* A write of the index leaves every view an earlier one.                  *)
LEMMA WritesCount ==
    ASSUME DeskInv, UNCHANGED shelf \/ \E new : WriteShelf(new)
    PROVE  /\ shelf'.generation \in Nat /\ Past(shelf', shelf')
           /\ \A view : Past(view, shelf) => Past(view, shelf')
BY DEF DeskInv, WriteShelf, Past

(* The first page shows the store there is.                                *)
LEMMA InitialDesk == DeskInit => DeskInv
<1> SUFFICES ASSUME DeskInit PROVE DeskInv
  OBVIOUS
<1>1. shelf.generation = 0 /\ letters = <<>> /\ tab = [view |-> shelf, told |-> NoCause]
  BY DEF DeskInit, FreshTab
<1>2. letters \in Seq({})
  BY <1>1
<1> QED
  BY <1>1, <1>2 DEF DeskInv, Past, Entered

(* What changes neither the letters nor what the page shows.               *)
LEMMA DeskWorks ==
    ASSUME DeskInv, UNCHANGED shelf \/ \E new : WriteShelf(new), UNCHANGED letters,
           tab' = [view |-> tab'.view, told |-> tab'.told],
           tab'.view \in {tab.view, shelf, shelf'}
    PROVE  DeskInv'
<1>1. /\ shelf'.generation \in Nat /\ Past(shelf', shelf')
      /\ \A view : Past(view, shelf) => Past(view, shelf')
  BY WritesCount
<1>2. (\E S : letters \in Seq(S))'
  BY DEF DeskInv
<1>3. Past(tab'.view, shelf')
  <2>1. Past(shelf, shelf) /\ Past(tab.view, shelf)
    BY DEF DeskInv, Past, Entered
  <2> QED
    BY <1>1, <2>1 DEF Past
<1>4. \A n \in DOMAIN letters' : Entered(letters'[n], shelf')
  <2>1. \A post : Entered(post, shelf) => Entered(post, shelf')
    BY <1>1 DEF Entered
  <2> QED
    BY <2>1 DEF DeskInv
<1> QED
  BY <1>1, <1>2, <1>3, <1>4 DEF DeskInv

(* A click posts what the page shows.                                      *)
LEMMA ClickKeeps ==
    ASSUME DeskInv, NEW act, NEW id, Click(act, id)
    PROVE  DeskInv' /\ DOMAIN letters' # DOMAIN letters
<1> DEFINE post == PostOf(act, id)
<1>1. /\ letters' = Append(letters, post) /\ shelf' = shelf
      /\ tab' = tab \/ tab' = [tab EXCEPT !.told = NoCause]
  BY DEF Click
<1>2. IsPost(post) /\ post.seen = tab.view /\ post.answer.kind = "none"
  BY DEF IsPost, PostOf
<1>3. PICK S : letters \in Seq(S)
  BY DEF DeskInv
<1> HIDE DEF post
<1>4. letters \in Seq(S \cup {post})
  BY <1>3
<1>5. /\ letters' \in Seq(S \cup {post}) /\ Len(letters') = Len(letters) + 1
      /\ \A n \in DOMAIN letters' :
            (n \in DOMAIN letters /\ letters'[n] = letters[n]) \/ letters'[n] = post
  BY <1>1, <1>4
<1>6. tab' = [view |-> tab'.view, told |-> tab'.told] /\ tab'.view = tab.view
  BY <1>1 DEF DeskInv
<1>7. \A n \in DOMAIN letters' : Entered(letters'[n], shelf')
  BY <1>1, <1>2, <1>5 DEF DeskInv, Past, Entered
<1>8. Past(tab'.view, shelf')
  BY <1>1, <1>6 DEF DeskInv, Past, Entered
<1>9. DOMAIN letters' # DOMAIN letters
  BY <1>4, <1>5
<1> QED
  BY <1>1, <1>5, <1>6, <1>7, <1>8, <1>9 DEF DeskInv

(* An answer is of the store as the server leaves it, and a post is only   *)
(* carried out while it stands.                                            *)
LEMMA ServeKeeps ==
    ASSUME DeskInv, NEW m \in DOMAIN letters, Serve(m)
    PROVE  /\ DeskInv'
           /\ \A n \in DOMAIN letters :
                 letters[n].answer.kind = "none" /\ letters'[n].answer.kind = "done" =>
                     n = m /\ StillStands(letters[n]) /\ Permitted(letters[n])
<1>1. PICK reply : /\ letters' = [letters EXCEPT ![m].answer = reply]
                   /\ tab' = tab
                   /\ UNCHANGED shelf \/ \E new : WriteShelf(new)
                   /\ reply.kind = "done" =>
                         /\ reply.view = shelf'
                         /\ StillStands(letters[m]) /\ Permitted(letters[m])
  <2>1. CASE ~Withheld(letters[m].act) /\ StillStands(letters[m]) /\ Permitted(letters[m])
    BY <2>1 DEF Serve, Answer
  <2>2. CASE ~(~Withheld(letters[m].act) /\ StillStands(letters[m]) /\ Permitted(letters[m]))
    <3>1. Refusal(letters[m]).kind # "done"
      BY DEF Refusal
    <3> QED
      BY <2>2, <3>1 DEF Serve, Answer
  <2> QED
    BY <2>1, <2>2
<1>2. PICK S : letters \in Seq(S)
  BY DEF DeskInv
<1> DEFINE post == [letters[m] EXCEPT !.answer = reply]
<1>3. IsPost(post) /\ post.seen = letters[m].seen /\ post.answer = reply
  <2>1. IsPost(letters[m])
    BY DEF DeskInv, Entered
  <2>2. post = [act |-> letters[m].act, id |-> letters[m].id, seen |-> letters[m].seen,
                acknowledge |-> letters[m].acknowledge,
                dependents |-> letters[m].dependents, answer |-> reply]
    BY <2>1 DEF IsPost
  <2> QED
    BY <2>2 DEF IsPost
<1>4. letters' = [letters EXCEPT ![m] = post]
  BY <1>1
<1> HIDE DEF post
<1>5. letters \in Seq(S \cup {post})
  BY <1>2
<1>6. /\ letters' \in Seq(S \cup {post}) /\ DOMAIN letters' = DOMAIN letters
      /\ \A n \in DOMAIN letters : letters'[n] = IF n = m THEN post ELSE letters[n]
  BY <1>4, <1>5
<1>7. /\ shelf'.generation \in Nat /\ Past(shelf', shelf')
      /\ \A view : Past(view, shelf) => Past(view, shelf')
  BY <1>1, WritesCount
<1>8. \A n \in DOMAIN letters' : Entered(letters'[n], shelf')
  <2> TAKE n \in DOMAIN letters'
  <2>1. CASE n = m
    BY <1>1, <1>3, <1>6, <1>7, <2>1 DEF DeskInv, Past, Entered
  <2>2. CASE n # m
    <3>1. letters'[n] = letters[n] /\ Entered(letters[n], shelf)
      BY <1>6, <2>2 DEF DeskInv
    <3> QED
      BY <1>7, <3>1 DEF Entered
  <2> QED
    BY <2>1, <2>2
<1>9. DeskInv'
  BY <1>1, <1>6, <1>7, <1>8 DEF DeskInv
<1>10. ASSUME NEW n \in DOMAIN letters, letters[n].answer.kind = "none",
              letters'[n].answer.kind = "done"
       PROVE  n = m /\ StillStands(letters[n]) /\ Permitted(letters[n])
  BY <1>1, <1>3, <1>6, <1>10
<1> QED
  BY <1>9, <1>10

(* The page shows the answer.                                              *)
LEMMA ReceiveKeeps ==
    ASSUME DeskInv, NEW m \in DOMAIN letters, Receive(m)
    PROVE  DeskInv' /\ DOMAIN letters' # DOMAIN letters
<1>1. /\ letters' = RemoveAt(letters, m) /\ shelf' = shelf
      /\ \/ tab' = FreshTab(letters[m].answer.view) /\ letters[m].answer.kind = "done"
         \/ tab' = [tab EXCEPT !.view = letters[m].answer.view] /\ letters[m].answer.kind = "done"
         \/ \E told : tab' = [tab EXCEPT !.told = told]
         \/ tab' = tab
  BY DEF Receive
<1>2. PICK S : letters \in Seq(S)
  BY DEF DeskInv
<1>3. /\ letters' \in Seq(S) /\ Len(letters') = Len(letters) - 1
      /\ \A k \in DOMAIN letters' : \E n \in DOMAIN letters : letters'[k] = letters[n]
  BY <1>1, <1>2, TakenOut
<1>4. \A n \in DOMAIN letters' : Entered(letters'[n], shelf')
  BY <1>1, <1>3 DEF DeskInv, Past, Entered
<1>5. /\ tab' = [view |-> tab'.view, told |-> tab'.told]
      /\ \/ tab'.view = tab.view
         \/ tab'.view = letters[m].answer.view /\ letters[m].answer.kind = "done"
  BY <1>1 DEF DeskInv, FreshTab
<1>6. Past(tab'.view, shelf')
  BY <1>1, <1>5 DEF DeskInv, Past, Entered
<1>7. DOMAIN letters' # DOMAIN letters
  BY <1>2, <1>3
<1> QED
  BY <1>1, <1>3, <1>4, <1>5, <1>6, <1>7 DEF DeskInv

(* A process begins, or ends, with no letter under way.                    *)
LEMMA DeskAnew ==
    ASSUME DeskInv, OpenDesk \/ CloseDesk PROVE DeskInv' /\ DOMAIN letters' = {}
<1>1. shelf' = shelf /\ letters' = <<>> /\ tab' = [view |-> shelf, told |-> NoCause]
  BY DEF OpenDesk, CloseDesk, FreshTab
<1>2. letters' \in Seq({}) /\ DOMAIN letters' = {}
  BY <1>1
<1> QED
  BY <1>1, <1>2 DEF DeskInv, Past, Entered

(* One step of the desk, and the letters it serves.                        *)
LEMMA DeskStep ==
    ASSUME DeskInv, [SkillDeskNext]_deskVars
    PROVE  /\ DeskInv'
           /\ \A n \in DOMAIN letters :
                 DOMAIN letters' = DOMAIN letters /\ letters[n].answer.kind = "none"
                    /\ letters'[n].answer.kind = "done" =>
                     StillStands(letters[n]) /\ Permitted(letters[n])
<1> DEFINE Stood == \A n \in DOMAIN letters :
                 DOMAIN letters' = DOMAIN letters /\ letters[n].answer.kind = "none"
                    /\ letters'[n].answer.kind = "done" =>
                     StillStands(letters[n]) /\ Permitted(letters[n])
<1>1. ASSUME NEW id, NEW base,
             \/ ValidateSkill(id) \/ Submit(id) \/ ImportLocal(id) \/ CreateSkill(id)
             \/ Fork(base, id)
      PROVE  DeskInv' /\ Stood
  <2>1. (\E new : WriteShelf(new)) /\ UNCHANGED <<tab, letters>>
    BY <1>1 DEF ValidateSkill, Submit, ImportLocal, CreateSkill, Fork
  <2> QED
    BY <2>1, DeskWorks DEF DeskInv
<1>2. CASE AskAnew \/ Refresh
  <2>1. /\ UNCHANGED <<shelf, letters>>
        /\ tab' = [tab EXCEPT !.told = NoCause] \/ tab' = [tab EXCEPT !.view = shelf]
    BY <1>2 DEF AskAnew, Refresh
  <2>2. tab' = [view |-> tab'.view, told |-> tab'.told] /\ tab'.view \in {tab.view, shelf}
    BY <2>1 DEF DeskInv
  <2> QED
    BY <2>1, <2>2, DeskWorks
<1>3. CASE UNCHANGED deskVars
  <2>1. UNCHANGED <<shelf, tab, letters>>
    BY <1>3 DEF deskVars
  <2> QED
    BY <2>1, DeskWorks DEF DeskInv
<1> HIDE DEF Stood
<1>4. ASSUME NEW act, NEW id, Click(act, id) PROVE DeskInv' /\ Stood
  BY <1>4, ClickKeeps DEF Stood
<1>5. ASSUME NEW m \in DOMAIN letters, Serve(m) PROVE DeskInv' /\ Stood
  BY <1>5, ServeKeeps DEF Stood
<1>6. ASSUME NEW m \in DOMAIN letters, Receive(m) PROVE DeskInv' /\ Stood
  BY <1>6, ReceiveKeeps DEF Stood
<1>7. CASE OpenDesk \/ CloseDesk
  BY <1>7, DeskAnew DEF Stood
<1>8. DeskInv' /\ Stood
  <2>1. CASE \E id \in Revisions : ValidateSkill(id) \/ Submit(id)
    BY <1>1, <2>1
  <2>2. CASE \E id \in Revisions : \/ ImportLocal(id) \/ CreateSkill(id)
                                  \/ \E base \in Revisions : Fork(base, id)
    BY <1>1, <2>2
  <2>3. CASE \E id \in Revisions, act \in Acts : Click(act, id)
    BY <1>4, <2>3
  <2>4. CASE \E n \in DOMAIN letters : Serve(n) \/ Receive(n)
    BY <1>5, <1>6, <2>4
  <2>5. CASE AskAnew \/ Refresh \/ OpenDesk \/ CloseDesk
    BY <1>2, <1>7, <2>5 DEF Stood
  <2>6. CASE SkillDeskNext
    BY <2>1, <2>2, <2>3, <2>4, <2>5, <2>6, Zenon DEF SkillDeskNext
  <2> QED
    BY <1>3, <2>6 DEF Stood
<1> QED
  BY <1>8 DEF Stood

(* ActsAsShown: handleWebUiSkillRequest carries out a decision on the      *)
(* store the page showed when it was sent, because every write of the      *)
(* index has a generation of its own and no view is of a later one.        *)
THEOREM DecisionsActAsShown == DeskSpec => ActsAsShown
<1> DEFINE Shown == \A n \in DOMAIN letters :
              (DOMAIN letters' = DOMAIN letters /\ letters[n].answer.kind = "none"
                 /\ letters'[n].answer.kind = "done") =>
              /\ letters[n].seen = shelf
              /\ letters[n].act \in Leaving =>
                    LET users == {r \in Revisions : Entry(r).life = "active"
                                                       /\ letters[n].id \in Entry(r).requires}
                    IN  users = {} \/ letters[n].dependents = users
<1>1. DeskInv /\ [SkillDeskNext]_deskVars => DeskInv'
  BY DeskStep
<1>2. DeskInv /\ [SkillDeskNext]_deskVars => Shown
  <2> SUFFICES ASSUME DeskInv, [SkillDeskNext]_deskVars, NEW n \in DOMAIN letters,
                      DOMAIN letters' = DOMAIN letters, letters[n].answer.kind = "none",
                      letters'[n].answer.kind = "done"
               PROVE  /\ letters[n].seen = shelf
                      /\ letters[n].act \in Leaving =>
                            Dependents(shelf.index, letters[n].id) = {}
                              \/ letters[n].dependents = Dependents(shelf.index, letters[n].id)
    BY DEF Dependents, Entry
  <2>1. StillStands(letters[n]) /\ Permitted(letters[n])
    BY DeskStep
  <2>2. letters[n].seen = shelf
    BY <2>1 DEF StillStands, DeskInv, Entered, Past
  <2>3. letters[n].act \in Leaving =>
           Acknowledged(shelf.index, letters[n].id, letters[n].dependents)
    BY <2>1 DEF Permitted, Leaving
  <2> QED
    BY <2>2, <2>3 DEF Acknowledged
<1>3. DeskInv /\ [SkillDeskNext]_deskVars => [Shown]_deskVars
  BY <1>2
<1>4. ActsAsShown <=> [][Shown]_deskVars
  BY PTL DEF ActsAsShown
<1> QED
  BY InitialDesk, <1>1, <1>3, <1>4, PTL DEF DeskSpec
=============================================================================
