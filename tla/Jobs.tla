---------------------------------- MODULE Jobs ----------------------------------
(***************************************************************************)
(* AssistantJobService, the interval scheduler that starts the morning     *)
(* brief, and the brief itself, which reads its sources side by side.  The *)
(* clock is the system's: it jumps over a sleep and can be set back.       *)
(***************************************************************************)
EXTENDS Integers, FiniteSets

CONSTANTS
    JobRuns,          \* the runs ever started
    Owners,           \* sessions
    NoOwner,          \* the scheduler and the console start runs without one
    Sources,          \* the providers a brief reads
    MaxPerOwner,      \* maxActivePerOwner (4 in the code)
    Every,            \* the interval of the brief
    MaxTime           \* bound on the clock

ASSUME JobsAssumption ==
    /\ NoOwner \notin Owners /\ MaxPerOwner \in Nat
    /\ Every \in Nat \ {0} /\ MaxTime \in Nat

VARIABLES
    jobRun,       \* the record of each run: its workflow, owner and status
    jobAborted,   \* the runs whose controller aborted
    reading,      \* what each brief made of each source so far
    time,         \* the clock
    latest,       \* the highest it ever showed
    nextRunAt,    \* of the brief
    briefs        \* how many the scheduler started

jobVars == <<jobRun, jobAborted, reading, time, latest, nextRunAt, briefs>>

NoRun == [workflow |-> "none", owner |-> NoOwner, status |-> "none"]

(* apply: the brief is due one interval after the start. *)
JobsInit ==
    /\ jobRun = [r \in JobRuns |-> NoRun] /\ jobAborted = {}
    /\ reading = [r \in JobRuns |-> [s \in Sources |-> "none"]]
    /\ time = 0 /\ latest = 0 /\ nextRunAt = Every /\ briefs = 0

ActiveRuns(owner) == {r \in JobRuns : jobRun[r].status = "running" /\ jobRun[r].owner = owner}
FreeRuns == {r \in JobRuns : jobRun[r].status = "none"}

Begun(r, workflow, owner) ==
    /\ jobRun' = [jobRun EXCEPT ![r] = [workflow |-> workflow, owner |-> owner, status |-> "running"]]
    /\ reading' = [reading EXCEPT ![r] = [s \in Sources |->
                                            IF workflow = "morning-brief" THEN "reading" ELSE "none"]]

(* start: the limit is one of a session. *)
StartJob(r, workflow, owner) ==
    /\ r \in FreeRuns
    /\ owner = NoOwner \/ Cardinality(ActiveRuns(owner)) < MaxPerOwner
    /\ Begun(r, workflow, owner)
    /\ UNCHANGED <<jobAborted, time, latest, nextRunAt, briefs>>

(* cancel, through the registry: a run that ended is left alone. *)
CancelJob(r) ==
    /\ jobRun[r].status = "running" /\ r \notin jobAborted
    /\ jobAborted' = jobAborted \cup {r}
    /\ UNCHANGED <<jobRun, reading, time, latest, nextRunAt, briefs>>

Finish(r, status) ==
    /\ jobRun' = [jobRun EXCEPT ![r].status = status]
    /\ UNCHANGED <<jobAborted, reading, time, latest, nextRunAt, briefs>>

(* A workflow that acts, create-followup-task or delete-file: the policy    *)
(* service returns what became of the action, or throws.                   *)
PolicyJobEnds(r) ==
    /\ jobRun[r].status = "running" /\ jobRun[r].workflow # "morning-brief"
    /\ IF r \in jobAborted THEN Finish(r, "killed")
                           ELSE \E status \in {"completed", "failed"} : Finish(r, status)

(* readSource: a provider that fails, or is not there, becomes a warning.  *)
ReadSource(r, s) ==
    /\ reading[r][s] = "reading"
    /\ \E found \in {"items", "warning"} : reading' = [reading EXCEPT ![r][s] = found]
    /\ UNCHANGED <<jobRun, jobAborted, time, latest, nextRunAt, briefs>>

(* The brief ends with its last source, or with the first that fails after *)
(* the run was cancelled.                                                  *)
BriefEnds(r) ==
    /\ jobRun[r].status = "running" /\ jobRun[r].workflow = "morning-brief"
    /\ IF r \in jobAborted
       THEN Finish(r, "killed")
       ELSE /\ \A s \in Sources : reading[r][s] # "reading"
            /\ Finish(r, "completed")

-----------------------------------------------------------------------------
(* The scheduler                                                           *)

SetClock(t) ==
    /\ t # time /\ time' = t
    /\ latest' = IF t > latest THEN t ELSE latest
    /\ UNCHANGED <<jobRun, jobAborted, reading, nextRunAt, briefs>>

(* Fault: the missed intervals are skipped, the one that is due is not.    *)
AfterNowShort(next) == next + ((time - next) \div Every) * Every

(* The next point of the grid that the clock has not reached. *)
AfterNow(next) == next + ((time - next) \div Every + 1) * Every

(* tick: the brief that is due starts once, without an owner.              *)
Tick ==
    /\ time >= nextRunAt
    /\ nextRunAt' = AfterNow(nextRunAt)
    /\ briefs' = briefs + 1
    /\ \E r \in FreeRuns : Begun(r, "morning-brief", NoOwner)
    /\ UNCHANGED <<jobAborted, time, latest>>

JobsNext ==
    \/ Tick
    \/ \E t \in 0 .. MaxTime : SetClock(t)
    \/ \E r \in JobRuns :
          \/ CancelJob(r) \/ PolicyJobEnds(r) \/ BriefEnds(r)
          \/ \E s \in Sources : ReadSource(r, s)
          \/ \E workflow \in {"morning-brief", "action"},
                owner \in Owners \cup {NoOwner} : StartJob(r, workflow, owner)

JobsSpec == JobsInit /\ [][JobsNext]_jobVars
-----------------------------------------------------------------------------
(* The scheduler starts at most one brief for each interval that went by,  *)
(* however long the machine slept and however often its clock is set back, *)
(* and is never further behind than the next interval.                     *)
BriefsPaced ==
    /\ briefs * Every <= latest
    /\ nextRunAt <= latest + Every
    /\ nextRunAt > briefs * Every
=============================================================================
