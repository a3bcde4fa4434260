------------------------------ MODULE HostProofs ------------------------------
(***************************************************************************)
(* Proofs about the smaller services of the host: the places of delegated  *)
(* children, the questions of agents, what an isolated runner may ask of   *)
(* the host, the appends to a vault, the memory, calendar events, the      *)
(* interval scheduler, backup and restore, what a home is bound to, and    *)
(* whether the advice of the resolution review can be followed.            *)
(***************************************************************************)
EXTENDS Delegations, TaskControl, GeneratedRunner, Vault, Memory, Calendar, Jobs, HomeBackup, ProfileHome,
        Resolution, FiniteSetTheorems, TLAPS

-----------------------------------------------------------------------------
(* Delegations                                                             *)

ChildStates == {"none", "starting", "working", "settled", "failed"}

(* A disposal is under way, and a place was given back, only for a child   *)
(* that came up.                                                           *)
DelegationTyped ==
    /\ child \in [Delegates -> ChildStates]
    /\ disposals \in [Delegates -> Nat]
    /\ asked \in [Delegates -> Nat]
    /\ slotFree \in [Delegates -> BOOLEAN]
    /\ activeChildren \in Nat

UpBefore(d) == child[d] \in {"working", "settled"}

DelegationInv ==
    /\ DelegationTyped
    /\ \A d \in Delegates : disposals[d] > 0 \/ slotFree[d] => UpBefore(d)
    /\ IsFiniteSet(Placed)
    /\ PlacesCounted

(* One more child holds a place. *)
LEMMA PlaceTaken ==
    ASSUME DelegationInv, activeChildren < MaxChildren, activeChildren' = activeChildren + 1,
           NEW d \in Delegates, Placed' = Placed \cup {d}, d \notin Placed
    PROVE  IsFiniteSet(Placed') /\ PlacesCounted'
<1>1. IsFiniteSet(Placed') /\ Cardinality(Placed') = Cardinality(Placed) + 1
    BY FS_AddElement DEF DelegationInv
<1> QED BY <1>1, DelegationAssumption DEF DelegationInv, DelegationTyped, PlacesCounted

(* One child less holds a place. *)
LEMMA PlaceGivenBack ==
    ASSUME DelegationInv, activeChildren' = activeChildren - 1,
           NEW d \in Placed, Placed' = Placed \ {d}
    PROVE  IsFiniteSet(Placed') /\ PlacesCounted' /\ activeChildren' \in Nat
<1>1. IsFiniteSet(Placed') /\ Cardinality(Placed') = Cardinality(Placed) - 1
    BY FS_RemoveElement DEF DelegationInv
<1>2. Cardinality(Placed') \in Nat
    BY <1>1, FS_CardinalityType
<1> QED BY <1>1, <1>2, DelegationAssumption DEF DelegationInv, DelegationTyped, PlacesCounted

LEMMA PlacesUntouched ==
    ASSUME DelegationInv, UNCHANGED activeChildren, Placed' = Placed
    PROVE  IsFiniteSet(Placed') /\ PlacesCounted'
BY DEF DelegationInv, PlacesCounted

LEMMA DelegationStep ==
    ASSUME DelegationInv, [DelegationNext]_delegationVars
    PROVE  DelegationInv'
<1> USE DEF ChildStates, UpBefore
<1>1. ASSUME NEW d \in Delegates, StartChild(d) PROVE DelegationInv'
  <2>1. DelegationTyped' /\ \A e \in Delegates : disposals'[e] > 0 \/ slotFree'[e] => UpBefore(e)'
      BY <1>1 DEF StartChild, DelegationInv, DelegationTyped
  <2>2. CASE child' = [child EXCEPT ![d] = "starting"]
    <3>1. Placed' = Placed \cup {d} /\ d \notin Placed /\ activeChildren < MaxChildren
          /\ activeChildren' = activeChildren + 1
        BY <1>1, <2>2 DEF StartChild, DelegationInv, DelegationTyped, Placed
    <3> QED BY <2>1, <3>1, PlaceTaken DEF DelegationInv
  <2>3. CASE child' = [child EXCEPT ![d] = "failed"]
    <3>1. Placed' = Placed /\ UNCHANGED activeChildren
        BY <1>1, <2>3 DEF StartChild, DelegationInv, DelegationTyped, Placed
    <3> QED BY <2>1, <3>1, PlacesUntouched DEF DelegationInv
  <2> QED BY <1>1, <2>2, <2>3 DEF StartChild
<1>2. ASSUME NEW d \in Delegates, ChildStarted(d) PROVE DelegationInv'
  <2>1. CASE child' = [child EXCEPT ![d] = "working"]
    <3>1. Placed' = Placed /\ UNCHANGED activeChildren
        BY <1>2, <2>1 DEF ChildStarted, DelegationInv, DelegationTyped, Placed
    <3>2. DelegationTyped' /\ \A e \in Delegates : disposals'[e] > 0 \/ slotFree'[e] => UpBefore(e)'
        BY <1>2, <2>1, <3>1 DEF ChildStarted, DelegationInv, DelegationTyped
    <3> QED BY <3>1, <3>2, PlacesUntouched DEF DelegationInv
  <2>2. CASE child' = [child EXCEPT ![d] = "failed"]
    <3>1. d \in Placed /\ Placed' = Placed \ {d} /\ activeChildren' = activeChildren - 1
        BY <1>2, <2>2 DEF ChildStarted, DelegationInv, DelegationTyped, Placed
    <3>2. IsFiniteSet(Placed') /\ PlacesCounted' /\ activeChildren' \in Nat
        BY <3>1, PlaceGivenBack
    <3>3. DelegationTyped' /\ \A e \in Delegates : disposals'[e] > 0 \/ slotFree'[e] => UpBefore(e)'
        BY <1>2, <2>2, <3>2 DEF ChildStarted, DelegationInv, DelegationTyped
    <3> QED BY <3>2, <3>3 DEF DelegationInv
  <2> QED BY <1>2, <2>1, <2>2 DEF ChildStarted
<1>3. ASSUME NEW d \in Delegates, ChildSettles(d) PROVE DelegationInv'
  <2>1. Placed' = Placed /\ UNCHANGED activeChildren
      BY <1>3 DEF ChildSettles, DelegationInv, DelegationTyped, Placed
  <2>2. DelegationTyped' /\ \A e \in Delegates : disposals'[e] > 0 \/ slotFree'[e] => UpBefore(e)'
      BY <1>3 DEF ChildSettles, DelegationInv, DelegationTyped
  <2> QED BY <2>1, <2>2, PlacesUntouched DEF DelegationInv
<1>4. ASSUME NEW d \in Delegates, DisposeChild(d) PROVE DelegationInv'
  <2>1. Placed' = Placed /\ UNCHANGED activeChildren
      BY <1>4 DEF DisposeChild, Placed
  <2>2. DelegationTyped' /\ \A e \in Delegates : disposals'[e] > 0 \/ slotFree'[e] => UpBefore(e)'
      BY <1>4 DEF DisposeChild, DelegationInv, DelegationTyped
  <2> QED BY <2>1, <2>2, PlacesUntouched DEF DelegationInv
<1>5. ASSUME NEW d \in Delegates, ChildDisposed(d) PROVE DelegationInv'
  <2>1. UpBefore(d)
      BY <1>5 DEF ChildDisposed, DelegationInv
  <2>2. CASE slotFree[d]
    <3>1. Placed' = Placed /\ UNCHANGED activeChildren
        BY <1>5, <2>1, <2>2 DEF ChildDisposed, GiveBack, DelegationInv, DelegationTyped, Placed
    <3>2. DelegationTyped' /\ \A e \in Delegates : disposals'[e] > 0 \/ slotFree'[e] => UpBefore(e)'
        BY <1>5, <3>1 DEF ChildDisposed, GiveBack, DelegationInv, DelegationTyped
    <3> QED BY <3>1, <3>2, PlacesUntouched DEF DelegationInv
  <2>3. CASE ~slotFree[d]
    <3>1. d \in Placed /\ Placed' = Placed \ {d} /\ activeChildren' = activeChildren - 1
        BY <1>5, <2>1, <2>3 DEF ChildDisposed, GiveBack, DelegationInv, DelegationTyped, Placed
    <3>2. IsFiniteSet(Placed') /\ PlacesCounted' /\ activeChildren' \in Nat
        BY <3>1, PlaceGivenBack
    <3>3. DelegationTyped' /\ \A e \in Delegates : disposals'[e] > 0 \/ slotFree'[e] => UpBefore(e)'
        BY <1>5, <3>2 DEF ChildDisposed, GiveBack, DelegationInv, DelegationTyped
    <3> QED BY <3>2, <3>3 DEF DelegationInv
  <2> QED BY <2>2, <2>3
<1>6. CASE UNCHANGED delegationVars
    BY <1>6 DEF delegationVars, DelegationInv, DelegationTyped, PlacesCounted, Placed
<1> QED BY <1>1, <1>2, <1>3, <1>4, <1>5, <1>6 DEF DelegationNext

(* The places the runtime counts are those of the children that came up    *)
(* and were not disposed of, for every number of delegations, every limit  *)
(* and any overlap of disposals (GovernedSubagentProvider).                *)
THEOREM ChildrenCounted == DelegationSpec => []PlacesCounted
<1>1. ASSUME DelegationInit PROVE DelegationInv
  <2>1. Placed = {}
      BY <1>1 DEF DelegationInit, Placed
  <2>2. IsFiniteSet(Placed) /\ Cardinality(Placed) = 0
      BY <2>1, FS_EmptySet
  <2> QED BY <1>1, <2>2, DelegationAssumption
          DEF DelegationInit, DelegationInv, DelegationTyped, ChildStates, PlacesCounted, UpBefore
<1>2. DelegationInv => PlacesCounted
    BY DEF DelegationInv
<1> QED BY <1>1, <1>2, DelegationStep, PTL DEF DelegationSpec

-----------------------------------------------------------------------------
(* Questions of the agents                                                 *)

(* What is shown of one agent is found by asking for the agent. *)
TaskInv ==
    /\ question \in [Questions -> {"none", "waiting", "answered", "cancelled", "refused"}]
    /\ QuestionsHeard

LEMMA TaskStep ==
    ASSUME TaskInv, [TaskNext]_taskVars
    PROVE  TaskInv'
<1> USE TaskAssumption DEF TaskInv, QuestionsHeard
<1>1. CASE CloseChannel
    BY <1>1 DEF CloseChannel
<1>2. ASSUME NEW q \in Questions, AskQuestion(q) PROVE TaskInv'
  <2>1. CASE HeldOf(QuestionOf[q]) = {}
    <3>1. held' = held \cup {q} /\ question' = [question EXCEPT ![q] = "waiting"]
        BY <1>2, <2>1 DEF AskQuestion
    <3>2. \A r \in held : QuestionOf[r] # QuestionOf[q]
        BY <2>1 DEF HeldOf
    <3> QED BY <3>1, <3>2
  <2>2. CASE HeldOf(QuestionOf[q]) # {}
    <3>1. held' = held /\ question' = [question EXCEPT ![q] = "refused"] /\ question[q] = "none"
        BY <1>2, <2>2 DEF AskQuestion
    <3> QED BY <3>1
  <2> QED BY <2>1, <2>2
<1>3. ASSUME NEW q \in Questions, CancelStep(q) PROVE TaskInv'
    BY <1>3 DEF CancelStep, Withdrawn
<1>4. ASSUME NEW q \in Questions, NEW g \in Agents, AnswerQuestion(g, q) PROVE TaskInv'
    BY <1>4 DEF AnswerQuestion, HeldOf
<1>5. CASE UNCHANGED <<question, held>>
    BY <1>5
<1>6. ASSUME NEW g \in Agents, AgentGoal(g) \/ ToolEnds(g) PROVE TaskInv'
    BY <1>5, <1>6 DEF AgentGoal, Revise, ToolEnds
<1>7. ASSUME NEW g \in Agents, NEW revision \in 1 .. MaxGoalRevision, ControlGoal(g, revision) PROVE TaskInv'
    BY <1>5, <1>7 DEF ControlGoal, Revise
<1>8. ASSUME NEW g \in Agents, NEW on \in BOOLEAN, ControlPlan(g, on) PROVE TaskInv'
    BY <1>5, <1>8 DEF ControlPlan
<1>9. ASSUME NEW g \in Agents, NEW kind \in {"read", "write"}, ExecuteTool(g, kind) PROVE TaskInv'
    BY <1>5, <1>9 DEF ExecuteTool
<1> QED BY <1>1, <1>2, <1>3, <1>4, <1>5, <1>6, <1>7, <1>8, <1>9 DEF TaskNext, taskVars

(* An agent that waits is shown with the question it waits for, whatever   *)
(* answers, aborts and disposals cross, for every number of agents and     *)
(* questions (the pending map of agent-task-control.ts).                   *)
THEOREM NoAgentUnheard == TaskSpec => []QuestionsHeard
<1>1. TaskInit => TaskInv
    BY DEF TaskInit, TaskInv, QuestionsHeard
<1>2. TaskInv => QuestionsHeard
    BY DEF TaskInv
<1> QED BY <1>1, <1>2, TaskStep, PTL DEF TaskSpec

-----------------------------------------------------------------------------
(* The runner of a generated extension                                     *)

(* The calls an operation may run for are calls that wait.                 *)
RunnerInv ==
    /\ call \in [RunnerCalls -> {"none", "waiting", "leaving", "ok", "error"}]
    /\ operation \in [RunnerCalls -> {"none", "running", "ended"}]
    /\ bound \subseteq {c \in RunnerCalls : call[c] = "waiting"}

LEMMA AllFailed ==
    ASSUME RunnerInv, NEW closed \in BOOLEAN, FailAll(closed), UNCHANGED operation
    PROVE  RunnerInv'
BY DEF RunnerInv, FailAll

LEMMA FailedClosed ==
    ASSUME RunnerInv, FailClosed, UNCHANGED operation
    PROVE  RunnerInv'
BY AllFailed DEF FailClosed

LEMMA LineRead ==
    ASSUME RunnerInv, NextLine
    PROVE  /\ RunnerInv'
           /\ \A c \in RunnerCalls : operation'[c] = "running" /\ operation[c] # "running" =>
                 call[c] = "waiting" /\ c \notin aborted /\ ~fatal
<1>1. CASE fatal
    BY <1>1 DEF NextLine, RunnerInv
<1>2. CASE ~fatal
  <2> DEFINE line == Head(pipe)
  <2>1. ReadLine(line)
      BY <1>2 DEF NextLine
  <2>2. CASE line.op = "broker-request" /\ UNCHANGED <<process, start, fatal, call, bound>>
             /\ operation' = IF MayRun(line.of) THEN [operation EXCEPT ![line.of] = "running"] ELSE operation
      BY <1>2, <2>2 DEF RunnerInv, MayRun
  <2>3. CASE FailClosed /\ UNCHANGED operation
      BY <2>3, FailedClosed
  <2>4. ASSUME NEW outcome \in {"ok", "error"}, AnsweredCall(line.of, outcome), UNCHANGED operation
        PROVE  RunnerInv'
      BY <2>4 DEF AnsweredCall, RunnerInv
  <2>5. CASE UNCHANGED <<call, bound, operation>>
      BY <2>5 DEF RunnerInv
  <2> QED BY <2>1, <2>2, <2>3, <2>4, <2>5 DEF ReadLine
<1> QED BY <1>1, <1>2

(* What one step keeps and what it may begin. *)
LEMMA RunnerStep ==
    ASSUME RunnerInv, fatal \in BOOLEAN, [RunnerNext]_runnerVars
    PROVE  /\ RunnerInv'
           /\ \A c \in RunnerCalls : operation'[c] = "running" /\ operation[c] # "running" =>
                 call[c] = "waiting" /\ c \notin aborted /\ ~fatal
<1>1. CASE NextLine
    BY <1>1, LineRead
<1>2. CASE KillChild \/ ChildExit
    BY <1>2, AllFailed DEF KillChild, ChildExit
<1>3. ASSUME NEW c \in RunnerCalls, CallTimeout(c) \/ AbortCall(c) PROVE RunnerInv' /\ UNCHANGED operation
  <2>1. CASE FailClosed /\ UNCHANGED operation
      BY <2>1, FailedClosed
  <2>2. CASE UNCHANGED <<call, bound, operation>>
      BY <2>2 DEF RunnerInv
  <2> QED BY <1>3, <2>1, <2>2 DEF CallTimeout, AbortCall
<1>4. ASSUME NEW c \in RunnerCalls, CallTool(c) \/ EndCall(c) PROVE RunnerInv' /\ UNCHANGED operation
    BY <1>4 DEF CallTool, EndCall, RunnerInv
<1>5. ASSUME NEW c \in RunnerCalls, OperationEnds(c)
      PROVE  /\ RunnerInv'
             /\ \A d \in RunnerCalls : operation'[d] = "running" => operation[d] = "running"
    BY <1>5 DEF OperationEnds, RunnerInv
<1>6. CASE UNCHANGED <<call, bound, operation>>
    BY <1>6 DEF RunnerInv
<1>7. CASE RefuseStart \/ SpawnChild \/ (\E line \in ChildLines : WriteLine(line))
    BY <1>6, <1>7 DEF RefuseStart, SpawnChild, WriteLine
<1>8. CASE UNCHANGED runnerVars
    BY <1>6, <1>8 DEF runnerVars
<1> QED BY <1>1, <1>2, <1>3, <1>4, <1>5, <1>7, <1>8 DEF RunnerNext

LEMMA FatalStep ==
    ASSUME fatal \in BOOLEAN, [RunnerNext]_runnerVars
    PROVE  fatal' \in BOOLEAN
BY DEF RunnerNext, runnerVars, RefuseStart, SpawnChild, KillChild, ChildExit, CallTool, CallTimeout,
       AbortCall, EndCall, OperationEnds, WriteLine, NextLine, ReadLine, FailClosed

(* Whatever lines a child writes, and however late they are read, the host *)
(* begins an operation for a call that waits, was not aborted and whose    *)
(* runner did not fail (brokerExecutions of generated-runner.ts).          *)
THEOREM OnlyWantedOperations == RunnerSpec => OperationsWanted
<1>1. RunnerInit => RunnerInv /\ fatal \in BOOLEAN
    BY DEF RunnerInit, RunnerInv
<1>2. (RunnerInv /\ fatal \in BOOLEAN) /\ [RunnerNext]_runnerVars => (RunnerInv /\ fatal \in BOOLEAN)'
    BY RunnerStep, FatalStep
<1>3. (RunnerInv /\ fatal \in BOOLEAN) /\ [RunnerNext]_runnerVars =>
        [\A c \in RunnerCalls :
            operation'[c] = "running" /\ operation[c] # "running" =>
              call[c] = "waiting" /\ c \notin aborted /\ ~fatal]_runnerVars
    BY RunnerStep
<1> QED BY <1>1, <1>2, <1>3, PTL DEF RunnerSpec, OperationsWanted

-----------------------------------------------------------------------------
(* The vault                                                               *)

Steps == {"none", "proposed", "opened", "read", "written", "failed"}
Passages == Nat \cup Proposals
Files == [there : BOOLEAN, text : SUBSET Passages]
Rows  == [action : {"none", "append", "create"}, on : Notes \cup {"none"},
          base : SUBSET Passages, seen : SUBSET Passages, at : Steps]

(* What an append read is what it was proposed over. *)
VaultInv ==
    /\ note \in [Notes -> Files]
    /\ edits \in Nat
    /\ proposal \in [Proposals -> Rows]
    /\ \A p \in Proposals :
          /\ proposal[p].at # "none" => proposal[p].on \in Notes
          /\ proposal[p].at = "read" => proposal[p].seen = proposal[p].base

LEMMA VaultStep ==
    ASSUME VaultInv, [VaultNext]_vaultVars
    PROVE  VaultInv'
<1> USE DEF VaultInv, Files, Rows, Passages, Steps
<1>1. ASSUME NEW n \in Notes, EditNote(n) PROVE VaultInv'
  <2>1. edits' \in Nat /\ edits + 1 \in Passages
      BY <1>1 DEF EditNote
  <2>2. [there |-> TRUE, text |-> note[n].text \cup {edits + 1}] \in Files /\ NoNote \in Files
      BY <2>1 DEF NoNote
  <2>3. \E file \in Files : note' = [note EXCEPT ![n] = file]
      BY <1>1, <2>2 DEF EditNote
  <2>4. note' \in [Notes -> Files]
      BY <2>3
  <2> QED BY <1>1, <2>1, <2>4 DEF EditNote
<1>2. ASSUME NEW n \in Notes, NEW p \in Proposals, Propose(p, n) PROVE VaultInv'
    BY <1>2 DEF Propose, ProposalAt
<1>3. ASSUME NEW p \in Proposals, RefuseWrite(p) \/ WriteFails(p) PROVE VaultInv'
    BY <1>3 DEF RefuseWrite, WriteFails, Advance, ProposalAt
<1>4. ASSUME NEW p \in Proposals, OpenNote(p) PROVE VaultInv'
    BY <1>4 DEF OpenNote, Advance, ProposalAt
<1>5. ASSUME NEW p \in Proposals, ReadNote(p) PROVE VaultInv'
  <2>1. proposal[p].on \in Notes /\ note[proposal[p].on].text = proposal[p].base
      BY <1>5 DEF ReadNote, Unchanged, ProposalAt
  <2>2. proposal' = [proposal EXCEPT ![p] = [@ EXCEPT !.at = "read", !.seen = proposal[p].base]]
      BY <1>5, <2>1 DEF ReadNote
  <2>3. UNCHANGED <<note, edits>>
      BY <1>5 DEF ReadNote
  <2>4. proposal'[p].seen = proposal'[p].base /\ proposal'[p].on \in Notes
      BY <2>1, <2>2
  <2>5. \A q \in Proposals \ {p} : proposal'[q] = proposal[q]
      BY <2>2
  <2>6. proposal' \in [Proposals -> Rows]
    <3>1. proposal \in [Proposals -> Rows] /\ proposal[p] \in Rows
        OBVIOUS
    <3>2. "read" \in Steps /\ proposal[p].base \in SUBSET Passages
        BY <3>1
    <3>3. [proposal[p] EXCEPT !.at = "read", !.seen = proposal[p].base] \in Rows
      <4> HIDE DEF Steps, Passages
      <4> QED BY <3>1, <3>2
    <3> HIDE DEF Rows
    <3> QED BY <2>2, <3>1, <3>3
  <2> QED BY <2>3, <2>4, <2>5, <2>6
<1>6. ASSUME NEW p \in Proposals, WriteNote(p) PROVE VaultInv'
  <2>1. proposal[p].on \in Notes
      BY <1>6 DEF WriteNote, ProposalAt
  <2>2. \A file \in Landed(p) : file \in Files
    <3>1. NoNote \in Files
        BY DEF NoNote
    <3>2. [there |-> TRUE, text |-> proposal[p].seen \cup {p}] \in Files
        OBVIOUS
    <3>3. \A rest \in SUBSET note[proposal[p].on].text : [there |-> TRUE, text |-> rest \cup {p}] \in Files
      <4>1. note[proposal[p].on].text \subseteq Passages
          BY <2>1
      <4> QED BY <4>1
    <3> HIDE DEF Files, Passages, NoNote
    <3> QED BY <3>1, <3>2, <3>3 DEF Landed
  <2>3. note' \in [Notes -> Files]
      BY <1>6, <2>2 DEF WriteNote
  <2> QED BY <1>6, <2>1, <2>3 DEF WriteNote, Advance, ProposalAt
<1>7. CASE UNCHANGED vaultVars
    BY <1>7 DEF vaultVars
<1> QED BY <1>1, <1>2, <1>3, <1>4, <1>5, <1>6, <1>7 DEF VaultNext

(* One append, in the step that ends it. *)
LEMMA AppendLands ==
    ASSUME VaultInv, [VaultNext]_vaultVars, NEW p \in Proposals,
           proposal[p].at = "read", proposal'[p].at = "written"
    PROVE  note'[proposal[p].on].text = proposal[p].base \cup {p}
<1>1. WriteNote(p)
  <2>1. ASSUME NEW q \in Proposals, q # p,
               \/ RefuseWrite(q) \/ OpenNote(q) \/ ReadNote(q) \/ WriteNote(q) \/ WriteFails(q)
               \/ (\E n \in Notes : Propose(q, n))
        PROVE  proposal'[p] = proposal[p]
      BY <2>1 DEF VaultInv, Rows, RefuseWrite, OpenNote, ReadNote, WriteNote, WriteFails, Propose, Advance
  <2>2. ~UNCHANGED proposal
      OBVIOUS
  <2>3. ASSUME RefuseWrite(p) \/ OpenNote(p) \/ ReadNote(p) \/ WriteFails(p) \/ (\E n \in Notes : Propose(p, n))
        PROVE  FALSE
      BY <2>3 DEF VaultInv, Rows, RefuseWrite, OpenNote, ReadNote, WriteFails, Propose, Advance, ProposalAt
  <2> QED BY <2>1, <2>2, <2>3 DEF VaultNext, vaultVars, EditNote
<1>2. proposal[p].on \in Notes /\ proposal[p].seen = proposal[p].base
    BY DEF VaultInv
<1>3. note'[proposal[p].on] = [there |-> TRUE, text |-> proposal[p].seen \cup {p}]
    BY <1>1, <1>2 DEF WriteNote, Landed, ProposalAt, VaultInv
<1> QED BY <1>2, <1>3

(* An append that was approved adds to the text its user saw and to no     *)
(* other, for every number of notes, proposals and edits made in Obsidian  *)
(* in between (the digest that obsidian-vault.ts compares).                *)
THEOREM AppendsOnlyToSeen == VaultSpec => AppendsToSeen
<1>1. VaultInit => VaultInv
    BY DEF VaultInit, VaultInv, NoNote, NoProposal, Files, Rows, Passages, Steps
<1>2. VaultInv /\ [VaultNext]_vaultVars =>
        [\A p \in Proposals :
            proposal[p].at = "read" /\ proposal'[p].at = "written" =>
               note'[proposal[p].on].text = proposal[p].base \cup {p}]_vaultVars
    BY AppendLands
<1> QED BY <1>1, <1>2, VaultStep, PTL DEF VaultSpec, AppendsToSeen

-----------------------------------------------------------------------------
(* Memory                                                                  *)

FactRecords == [status : {"none", "active", "superseded", "deleted"}, topic : TopicKeys \cup {"none"},
                fact : Facts \cup {"none"}, supersededBy : Nat]

(* What the file says is deleted is in memory what it is in the file. *)
MemoryInv ==
    /\ memory \in [MemoryIds -> FactRecords] /\ memoryFile \in [MemoryIds -> FactRecords]
    /\ \A i \in MemoryIds : memoryFile[i].status = "deleted" => memory[i] = memoryFile[i]

(* A step that leaves deleted records alone and then writes the file, or   *)
(* does not. *)
LEMMA DeletedKept ==
    ASSUME MemoryInv, memory' \in [MemoryIds -> FactRecords],
           \A i \in MemoryIds : memory[i].status = "deleted" => memory'[i] = memory[i],
           memoryFile' = memory' \/ memoryFile' = memoryFile
    PROVE  /\ MemoryInv'
           /\ \A i \in MemoryIds : memoryFile[i].status = "deleted" =>
                 memory'[i] = memory[i] /\ memoryFile'[i].status = "deleted" /\ memory'[i].status = "deleted"
BY DEF MemoryInv

(* The records that one change of the memory makes. *)
LEMMA SupersededTyped ==
    ASSUME MemoryInv, NEW old \in SUBSET MemoryIds, NEW id \in Nat,
           \A i \in old : memory[i].status \notin {"none", "deleted"}
    PROVE  /\ Superseded(memory, old, id) \in [MemoryIds -> FactRecords]
           /\ \A i \in MemoryIds : memory[i].status \in {"none", "deleted"} =>
                 Superseded(memory, old, id)[i] = memory[i]
<1> DEFINE Marked(i) == [memory[i] EXCEPT !.status = "superseded", !.supersededBy = id]
<1>1. ASSUME NEW i \in MemoryIds PROVE memory[i] \in FactRecords
    BY DEF MemoryInv
<1>2. ASSUME NEW i \in MemoryIds PROVE Marked(i) \in FactRecords
    BY <1>1 DEF FactRecords
<1>3. ASSUME NEW i \in MemoryIds, memory[i].status \in {"none", "deleted"} PROVE i \notin old
    BY <1>3
<1>4. Superseded(memory, old, id) = [i \in MemoryIds |-> IF i \in old THEN Marked(i) ELSE memory[i]]
    BY DEF Superseded
<1> HIDE DEF Marked
<1>5. Superseded(memory, old, id) \in [MemoryIds -> FactRecords]
    BY <1>1, <1>2, <1>4
<1> QED BY <1>3, <1>4, <1>5

LEMMA MemoryStep ==
    ASSUME MemoryInv, [MemoryNext]_memoryVars
    PROVE  /\ MemoryInv'
           /\ \A i \in MemoryIds : memoryFile[i].status = "deleted" =>
                 memory'[i] = memory[i] /\ memoryFile'[i].status = "deleted" /\ memory'[i].status = "deleted"
<1> DEFINE Kept == \A i \in MemoryIds : memory[i].status = "deleted" => memory'[i] = memory[i]
           Typed == memory' \in [MemoryIds -> FactRecords]
           Flushed == memoryFile' = memory' \/ memoryFile' = memoryFile
<1>0. MemoryIds \subseteq Nat /\ LostId \in Nat
    BY MemoryAssumption DEF MemoryIds, LostId
<1>1. ASSUME NEW topic \in TopicKeys, NEW fact \in Facts, NEW keepBoth \in BOOLEAN,
             Remember(topic, fact, keepBoth)
      PROVE  Typed /\ Kept /\ Flushed
  <2>1. PICK id \in NextId :
           memory' = [Superseded(memory, IF keepBoth THEN {} ELSE ActiveOn(topic), id)
                        EXCEPT ![id] = NewFact(topic, fact)]
      BY <1>1 DEF Remember
  <2>2. id \in MemoryIds /\ memory[id].status = "none"
    <3>1. id \in MemoryIds /\ id \in Nat /\ Present(memory) = 1 .. (id - 1)
        BY <1>0 DEF NextId
    <3>2. id \notin Present(memory)
        BY <3>1
    <3> QED BY <3>1, <3>2 DEF Present
  <2>3. DEFINE old == IF keepBoth THEN {} ELSE ActiveOn(topic)
  <2>4. old \in SUBSET MemoryIds /\ \A i \in old : memory[i].status \notin {"none", "deleted"}
      BY DEF ActiveOn, Present
  <2>5. /\ Superseded(memory, old, id) \in [MemoryIds -> FactRecords]
        /\ \A i \in MemoryIds : memory[i].status \in {"none", "deleted"} => Superseded(memory, old, id)[i] = memory[i]
      BY <1>0, <2>2, <2>4, SupersededTyped
  <2>6. NewFact(topic, fact) \in FactRecords
      BY DEF NewFact, FactRecords
  <2>7. Typed /\ Kept
    <3> HIDE DEF old
    <3>1. memory' = [Superseded(memory, old, id) EXCEPT ![id] = NewFact(topic, fact)]
        BY <2>1 DEF old
    <3> QED BY <2>2, <2>5, <2>6, <3>1
  <2> QED BY <1>1, <2>7 DEF Remember, FlushMemory
<1>2. ASSUME NEW id \in MemoryIds, NEW fact \in Facts, EditFact(id, fact)
      PROVE  Typed /\ Kept /\ Flushed
  <2>1. PICK new \in NextId :
           memory' = [Superseded(memory, {id}, new) EXCEPT ![new] = NewFact(memory[id].topic, fact)]
      BY <1>2 DEF EditFact
  <2>2. new \in MemoryIds /\ memory[new].status = "none"
    <3>1. new \in MemoryIds /\ new \in Nat /\ Present(memory) = 1 .. (new - 1)
        BY <1>0 DEF NextId
    <3>2. new \notin Present(memory)
        BY <3>1
    <3> QED BY <3>1, <3>2 DEF Present
  <2>3. memory[id].status \notin {"none", "deleted"}
      BY <1>2 DEF EditFact, ReplaceableFact
  <2>4. /\ Superseded(memory, {id}, new) \in [MemoryIds -> FactRecords]
        /\ \A i \in MemoryIds : memory[i].status \in {"none", "deleted"} => Superseded(memory, {id}, new)[i] = memory[i]
      BY <1>0, <2>2, <2>3, SupersededTyped
  <2>5. NewFact(memory[id].topic, fact) \in FactRecords
      BY DEF NewFact, FactRecords, MemoryInv
  <2>6. Typed /\ Kept
      BY <2>1, <2>2, <2>4, <2>5
  <2> QED BY <1>2, <2>6 DEF EditFact, FlushMemory
<1>3. ASSUME NEW id \in MemoryIds, EditBlank(id) PROVE Typed /\ Kept /\ Flushed
  <2>1. memory[id].status \notin {"none", "deleted"}
      BY <1>3 DEF EditBlank, ReplaceableFact
  <2>2. /\ Superseded(memory, {id}, LostId) \in [MemoryIds -> FactRecords]
        /\ \A i \in MemoryIds : memory[i].status \in {"none", "deleted"} => Superseded(memory, {id}, LostId)[i] = memory[i]
      BY <1>0, <2>1, SupersededTyped
  <2> QED BY <1>3, <2>2 DEF EditBlank
<1>4. ASSUME NEW id \in MemoryIds, Forget(id) PROVE Typed /\ Kept /\ Flushed
  <2> DEFINE gone == [memory[id] EXCEPT !.status = "deleted"]
  <2>1. memory[id] \in FactRecords /\ memory \in [MemoryIds -> FactRecords]
      BY DEF MemoryInv
  <2>2. gone \in FactRecords /\ (memory[id].status = "deleted" => gone = memory[id])
      BY <2>1 DEF FactRecords
  <2>3. memory' = [memory EXCEPT ![id] = gone]
      BY <1>4 DEF Forget
  <2>4. Flushed
      BY <1>4 DEF Forget, FlushMemory
  <2> HIDE DEF gone
  <2>5. Typed /\ Kept
      BY <2>1, <2>2, <2>3
  <2> QED BY <2>4, <2>5
<1>5. CASE RestartMemory
    BY <1>5 DEF RestartMemory, MemoryInv
<1>6. CASE UNCHANGED memoryVars
    BY <1>6, DeletedKept DEF memoryVars, MemoryInv
<1>7. ASSUME Typed, Kept, Flushed
      PROVE  /\ MemoryInv'
             /\ \A i \in MemoryIds : memoryFile[i].status = "deleted" =>
                   memory'[i] = memory[i] /\ memoryFile'[i].status = "deleted" /\ memory'[i].status = "deleted"
    BY <1>7, DeletedKept
<1> HIDE DEF Typed, Kept, Flushed
<1> QED BY <1>1, <1>2, <1>3, <1>4, <1>5, <1>6, <1>7 DEF MemoryNext

(* A record the file calls deleted stays deleted and out of the prompt,    *)
(* through edits with its id, failed writes and restarts, for every number *)
(* of records (MemoryService).                                             *)
THEOREM DeletedForGood == MemorySpec => ForgottenStays
<1>1. MemoryInit => MemoryInv
    BY DEF MemoryInit, MemoryInv, NoFact, FactRecords
<1>2. MemoryInv /\ [MemoryNext]_memoryVars =>
        [\A i \in MemoryIds :
            memoryFile[i].status = "deleted" =>
               /\ memoryFile'[i].status = "deleted" /\ i \notin Recalled'
               /\ \A j \in MemoryIds : memory'[i].supersededBy = j => memory[i].supersededBy = j]_memoryVars
    BY MemoryStep DEF Recalled
<1> QED BY <1>1, <1>2, MemoryStep, PTL DEF MemorySpec, ForgottenStays

-----------------------------------------------------------------------------
(* Calendar events                                                         *)

CalendarInv ==
    /\ creating \in [Creates -> {"none", "look", "post", "check", "recheck", "done", "failed"}]
    /\ answer \in [Creates -> {"none", "created", "conflict", "error"}]
    /\ events \subseteq Creates /\ onTheWay \subseteq Creates
    /\ \A e, f \in events : EventId(e) = EventId(f) => e = f
    /\ \A e \in Creates : answer[e] = "created" => e \in events
    /\ \A k \in createdByKey : \E f \in events : KeyOf[f] = k
    /\ OneEvent

(* An event with the id of a call is the call's own or carries its key. *)
LEMMA SameEvent ==
    ASSUME NEW e \in Creates, NEW f \in Creates, EventId(f) = EventId(e)
    PROVE  f = e \/ (Keyed(e) /\ KeyOf[f] = KeyOf[e])
BY CalendarAssumption DEF EventId, Keyed, ByGoogle

LEMMA EventFound ==
    ASSUME CalendarInv, NEW e \in Creates, Exists(e)
    PROVE  \E f \in events : f = e \/ (Keyed(e) /\ KeyOf[f] = KeyOf[e])
BY SameEvent DEF CalendarInv, Exists

LEMMA CalendarStep ==
    ASSUME CalendarInv, [CalendarNext]_calendarVars
    PROVE  CalendarInv'
<1> DEFINE Answered(e) == \E f \in events : f = e \/ (Keyed(e) /\ KeyOf[f] = KeyOf[e])
<1>1. ASSUME NEW e \in Creates, NEW state \in {"look", "post", "check", "recheck", "done", "failed"},
             Becomes(e, state), state = "done" => Answered(e), onTheWay' \subseteq Creates,
             UNCHANGED <<answer, events>>,
             \A k \in createdByKey' : \E f \in events : KeyOf[f] = k
      PROVE  CalendarInv'
    BY <1>1 DEF CalendarInv, OneEvent, Becomes, EventId, ByGoogle, Keyed
<1>2. ASSUME NEW e \in Creates, BeginCreate(e) PROVE CalendarInv'
  <2>1. CASE ~ByGoogle(e) /\ Keyed(e) /\ KeyOf[e] \in createdByKey /\ Becomes(e, "done") /\ UNCHANGED onTheWay
    <3>1. Answered(e)
        BY <2>1 DEF CalendarInv
    <3> QED BY <1>1, <1>2, <2>1, <3>1 DEF BeginCreate, CalendarInv
  <2>2. CASE Becomes(e, "look") /\ UNCHANGED onTheWay
      BY <1>1, <1>2, <2>2 DEF BeginCreate, CalendarInv
  <2>3. CASE Insert(e)
      BY <1>1, <1>2, <2>3 DEF BeginCreate, CalendarInv, Insert
  <2> QED BY <1>2, <2>1, <2>2, <2>3 DEF BeginCreate
<1>3. ASSUME NEW e \in Creates, Look(e) PROVE CalendarInv'
  <2>1. CASE Becomes(e, "failed") /\ UNCHANGED onTheWay
      BY <1>1, <1>3, <2>1 DEF Look, CalendarInv
  <2>2. CASE Exists(e) /\ Becomes(e, "done") /\ UNCHANGED onTheWay
      BY <1>1, <1>3, <2>2, EventFound DEF Look, CalendarInv
  <2>3. CASE Insert(e)
      BY <1>1, <1>3, <2>3 DEF Look, CalendarInv, Insert
  <2> QED BY <1>3, <2>1, <2>2, <2>3 DEF Look
<1>4. ASSUME NEW e \in Creates, Arrive(e) PROVE CalendarInv'
  <2>1. CASE ~Exists(e) /\ events' = events \cup {e} /\ answer' = [answer EXCEPT ![e] = "created"]
    <3>1. \A f, g \in events' : EventId(f) = EventId(g) => f = g
        BY <2>1 DEF CalendarInv, Exists
    <3>2. \A f, g \in events' :
             ByGoogle(f) /\ ByGoogle(g) /\ Keyed(f) /\ KeyOf[f] = KeyOf[g] => f = g
        BY <3>1 DEF EventId, Keyed
    <3> QED BY <1>4, <2>1, <3>1, <3>2 DEF Arrive, CalendarInv, OneEvent, EventId, ByGoogle, Keyed
  <2>2. CASE UNCHANGED events /\ \E said \in {"conflict", "error"} : answer' = [answer EXCEPT ![e] = said]
      BY <1>4, <2>2 DEF Arrive, CalendarInv, OneEvent, EventId, ByGoogle, Keyed
  <2> QED BY <1>4, <2>1, <2>2 DEF Arrive
<1>5. ASSUME NEW e \in Creates, LoseInsert(e) PROVE CalendarInv'
    BY <1>5 DEF LoseInsert, CalendarInv, OneEvent, EventId, ByGoogle, Keyed
<1>6. ASSUME NEW e \in Creates, HearAnswer(e) PROVE CalendarInv'
  <2>1. answer[e] = "created" => e \in events
      BY DEF CalendarInv
  <2>2. \A k \in createdByKey' : \E f \in events : KeyOf[f] = k
      BY <1>6, <2>1 DEF HearAnswer, CalendarInv
  <2> QED BY <1>1, <1>6, <2>1, <2>2 DEF HearAnswer, CalendarInv
<1>7. ASSUME NEW e \in Creates, GiveUp(e) PROVE CalendarInv'
    BY <1>1, <1>7 DEF GiveUp, CalendarInv
<1>8. ASSUME NEW e \in Creates, Reconcile(e) PROVE CalendarInv'
  <2>1. CASE Exists(e)
      BY <1>1, <1>8, <2>1, EventFound DEF Reconcile, Reconciled, CalendarInv
  <2>2. CASE ~Exists(e)
      BY <1>1, <1>8, <2>2 DEF Reconcile, Reconciled, CalendarInv
  <2> QED BY <2>1, <2>2
<1>9. CASE UNCHANGED calendarVars
    BY <1>9 DEF calendarVars, CalendarInv, OneEvent, EventId, ByGoogle, Keyed
<1> QED BY <1>2, <1>3, <1>4, <1>5, <1>6, <1>7, <1>8, <1>9 DEF CalendarNext

(* One key makes one event of Google's calendar, and a call that reports   *)
(* success has its event there, for every number of calls and keys and     *)
(* whatever requests are lost or answered late (createEvent).              *)
THEOREM EventsOnce == CalendarSpec => []OneEvent
<1>1. CalendarInit => CalendarInv
    BY DEF CalendarInit, CalendarInv, OneEvent
<1>2. CalendarInv => OneEvent
    BY DEF CalendarInv
<1> QED BY <1>1, <1>2, CalendarStep, PTL DEF CalendarSpec

-----------------------------------------------------------------------------
(* The interval scheduler                                                  *)

(* The next brief lies beyond those that were started. *)
BriefsInv ==
    /\ time \in Nat /\ latest \in Nat /\ nextRunAt \in Nat /\ briefs \in Nat
    /\ time <= latest
    /\ nextRunAt >= (briefs + 1) * Every
    /\ BriefsPaced

(* The next point of the grid lies after now, by one interval at most. *)
LEMMA GridStep ==
    ASSUME NEW now \in Nat, NEW next \in Nat, NEW d \in Nat \ {0}, now >= next,
           NEW after, after = next + ((now - next) \div d + 1) * d
    PROVE  after \in Nat /\ after <= now + d /\ after >= next + d
<1> DEFINE q == (now - next) \div d
           r == (now - next) % d
<1>1. q \in Nat /\ r \in Nat /\ now - next = d * q + r
    OBVIOUS
<1>2. d * q \in Nat /\ (q + 1) * d = d * q + d
    BY <1>1
<1> HIDE DEF q, r
<1>3. after = next + (d * q + d)
    BY <1>2 DEF q
<1> QED BY <1>1, <1>2, <1>3

(* Time goes on, or back: no brief begins. *)
LEMMA ClockMoves ==
    ASSUME BriefsInv, time' \in Nat, latest' \in Nat, time' <= latest', latest <= latest',
           UNCHANGED <<nextRunAt, briefs>>
    PROVE  BriefsInv'
<1>1. Every \in Nat /\ briefs \in Nat /\ latest \in Nat /\ nextRunAt \in Nat
    BY JobsAssumption DEF BriefsInv
<1>2. nextRunAt' <= latest' + Every
  <2>1. nextRunAt <= latest + Every
      BY DEF BriefsInv, BriefsPaced
  <2>2. \A t \in Nat : latest <= t => nextRunAt <= t + Every
      BY <1>1, <2>1
  <2> QED BY <2>2
<1>3. briefs' * Every <= latest'
  <2>1. PICK made \in Nat : made = briefs * Every
      BY <1>1
  <2>2. made <= latest
      BY <2>1 DEF BriefsInv, BriefsPaced
  <2>3. made <= latest'
      BY <1>1, <2>2
  <2> QED BY <2>1, <2>3
<1>4. nextRunAt' > briefs' * Every /\ nextRunAt' >= (briefs' + 1) * Every
    BY DEF BriefsInv, BriefsPaced
<1> QED BY <1>1, <1>2, <1>3, <1>4 DEF BriefsInv, BriefsPaced

LEMMA BriefsStep ==
    ASSUME BriefsInv, [JobsNext]_jobVars
    PROVE  BriefsInv'
<1> USE JobsAssumption
<1>1. CASE Tick
  <2>1. /\ nextRunAt' \in Nat /\ nextRunAt' <= time + Every
        /\ nextRunAt' >= nextRunAt + Every
      BY <1>1, GridStep DEF Tick, AfterNow, BriefsInv
  <2>2. (briefs + 1) * Every \in Nat /\ (briefs + 2) * Every = (briefs + 1) * Every + Every
      BY DEF BriefsInv
  <2>3. nextRunAt' >= (briefs + 2) * Every /\ (briefs + 1) * Every <= latest
      BY <1>1, <2>1, <2>2 DEF Tick, BriefsInv
  <2>4. briefs' = briefs + 1 /\ briefs' \in Nat /\ briefs' + 1 = briefs + 2
        /\ UNCHANGED <<time, latest>>
      BY <1>1 DEF Tick, BriefsInv
  <2> QED BY <2>1, <2>2, <2>3, <2>4 DEF BriefsInv, BriefsPaced
<1>2. ASSUME NEW t \in 0 .. MaxTime, SetClock(t) PROVE BriefsInv'
  <2>1. time' \in Nat /\ latest' \in Nat /\ time' <= latest' /\ latest <= latest'
      BY <1>2 DEF SetClock, BriefsInv
  <2>2. UNCHANGED <<nextRunAt, briefs>>
      BY <1>2 DEF SetClock
  <2> QED BY <2>1, <2>2, ClockMoves
<1>3. CASE UNCHANGED <<time, latest, nextRunAt, briefs>>
    BY <1>3 DEF BriefsInv, BriefsPaced
<1>4. ASSUME NEW r \in JobRuns,
             \/ CancelJob(r) \/ PolicyJobEnds(r) \/ BriefEnds(r)
             \/ \E s \in Sources : ReadSource(r, s)
             \/ \E workflow \in {"morning-brief", "action"}, who \in Owners \cup {NoOwner} : StartJob(r, workflow, who)
      PROVE  BriefsInv'
    BY <1>3, <1>4 DEF CancelJob, PolicyJobEnds, BriefEnds, Finish, ReadSource, StartJob
<1>5. CASE UNCHANGED jobVars
    BY <1>3, <1>5 DEF jobVars
<1> QED BY <1>1, <1>2, <1>4, <1>5 DEF JobsNext

(* At most one brief for each interval that went by, for every interval    *)
(* and every course of the clock (IntervalScheduler).                      *)
THEOREM OneBriefEach == JobsSpec => []BriefsPaced
<1>1. JobsInit => BriefsInv
    BY JobsAssumption DEF JobsInit, BriefsInv, BriefsPaced
<1>2. BriefsInv => BriefsPaced
    BY DEF BriefsInv
<1> QED BY <1>1, <1>2, BriefsStep, PTL DEF JobsSpec

-----------------------------------------------------------------------------
(* The backup of a home and its restore                                    *)

Trees == [authority : Nat, good : SUBSET Nat, bad : SUBSET Nat]

(* A restore stages only what it has verified, removes the home only for a *)
(* whole tree, and has nothing else to put in its place.                   *)
BackupInv ==
    /\ home \in Trees /\ copy \in Trees /\ staging \in Trees
    /\ doing \in {"nothing", "copy", "manifest", "stage", "remove", "rename"}
    /\ damage \in Nat
    /\ doing = "stage" => staging.authority > 0 /\ staging.bad = {}
    /\ doing \in {"remove", "rename"} => Whole(staging)
    /\ doing = "rename" => home = NoTree

LEMMA TreesMade ==
    /\ NoTree \in Trees
    /\ \A n \in Nat, S \in SUBSET Nat : Tree(n, S) \in Trees /\ Tree(n, S).authority = n /\ Tree(n, S).bad = {}
    /\ \A c \in SealedRows : c \in Nat
    /\ Skills \in Nat
BY BackupAssumption DEF NoTree, Tree, Trees, SealedRows, Skills

LEMMA BackupStep == BackupInv /\ [BackupNext]_backupVars => BackupInv'
<1> SUFFICES ASSUME BackupInv, [BackupNext]_backupVars PROVE BackupInv'
    OBVIOUS
<1> USE TreesMade
<1>1. CASE UNCHANGED backupVars
    BY <1>1 DEF backupVars, BackupInv, Whole
<1>2. CASE BackupFails
    BY <1>2 DEF BackupFails, BackupInv
<1>3. CASE BackupDies
    BY <1>3 DEF BackupDies, BackupInv
<1>4. CASE HomeGoesOn
  <2>1. home' \in Trees
    <3>1. home.authority \in Nat /\ home.authority + 1 \in Nat /\ home.good \in SUBSET Nat
        BY DEF BackupInv, Trees
    <3>2. (home.good \cup {home.authority + 1, Skills}) \ home.bad \in SUBSET Nat
        BY <3>1
    <3> QED BY <1>4, <3>1, <3>2 DEF HomeGoesOn, BackupInv, Trees
  <2> QED BY <1>4, <2>1 DEF HomeGoesOn, Doing, BackupInv
<1>5. CASE DamagePart
  <2>1. ASSUME NEW tree \in Trees, NEW part \in tree.good PROVE Spoiled(tree, part) \in Trees
    <3>1. tree.good \ {part} \in SUBSET Nat /\ tree.bad \cup {part} \in SUBSET Nat
        BY DEF Trees
    <3> QED BY <3>1 DEF Spoiled, Trees
  <2>2. home' \in Trees /\ copy' \in Trees
      BY <1>5, <2>1 DEF DamagePart, BackupInv
  <2>3. home = NoTree => home' = home
      BY <1>5 DEF DamagePart, NoTree, Tree
  <2> QED BY <1>5, <2>2, <2>3 DEF DamagePart, BackupInv, Whole
<1>6. CASE BackupStarts
  <2>1. copy' \in Trees
      BY <1>6 DEF BackupStarts, BackupInv, Trees
  <2> QED BY <1>6, <2>1 DEF BackupStarts, BackupInv
<1>7. CASE CopySkills
  <2>1. copy' \in Trees
      BY <1>7 DEF CopySkills, BackupInv, Trees
  <2> QED BY <1>7, <2>1 DEF CopySkills, BackupInv
<1>8. CASE WriteManifest
    BY <1>8 DEF WriteManifest, BackupInv
<1>9. CASE RestoreStarts
  <2>1. copy.authority \in Nat
      BY DEF BackupInv, Trees
  <2> QED BY <1>9, <2>1 DEF RestoreStarts, BackupInv
<1>10. CASE StageSkills
  <2>1. staging' \in Trees /\ staging'.authority = staging.authority /\ staging'.good = staging.good \cup {Skills}
      BY <1>10 DEF StageSkills, BackupInv, Trees
  <2>2. RequiredRows(staging.authority) \subseteq staging.good /\ staging.authority > 0
      BY <1>10 DEF StageSkills, Doing, BackupInv, PartsIn
  <2>3. Whole(staging)'
      BY <2>1, <2>2 DEF Whole
  <2> QED BY <1>10, <2>1, <2>3 DEF StageSkills, BackupInv
<1>11. CASE RemoveHome
    BY <1>11 DEF RemoveHome, Doing, BackupInv, Whole
<1>12. CASE RenameStaged
    BY <1>12 DEF RenameStaged, BackupInv
<1>13. ASSUME NEW c \in SealedRows, CopyRow(c) PROVE BackupInv'
  <2>1. copy' \in Trees
      BY <1>13 DEF CopyRow, BackupInv, Trees
  <2> QED BY <1>13, <2>1 DEF CopyRow, Doing, BackupInv
<1>14. ASSUME NEW c \in SealedRows, StageRow(c) PROVE BackupInv'
  <2>1. staging' \in Trees /\ staging'.authority = staging.authority /\ staging'.bad = staging.bad
      BY <1>14 DEF StageRow, StagedRow, BackupInv, Trees
  <2> QED BY <1>14, <2>1 DEF StageRow, Doing, BackupInv
<1> QED BY <1>1, <1>2, <1>3, <1>4, <1>5, <1>6, <1>7, <1>8, <1>9, <1>10, <1>11, <1>12, <1>13, <1>14 DEF BackupNext

(* A restore gives the home a whole tree or leaves it as it was: the old   *)
(* tree goes only when a verified one is ready to take its place, nothing  *)
(* but that tree takes it, and a backup touches neither.                   *)
THEOREM RestoresAreWhole == BackupSpec => RestoreWhole
<1> DEFINE Change == home' # home /\ doing # "nothing" /\ damage' = damage =>
                         /\ Whole(staging)
                         /\ home' = NoTree \/ (home = NoTree /\ home' = staging)
<1>1. BackupInit => BackupInv
  <2>1. Tree(1, {1, Skills}) \in Trees
      BY TreesMade
  <2> QED BY <2>1, TreesMade DEF BackupInit, BackupInv
<1>2. BackupInv /\ [BackupNext]_backupVars => [Change]_backupVars
  <2> SUFFICES ASSUME BackupInv, BackupNext, home' # home, doing # "nothing", damage' = damage
               PROVE  Whole(staging) /\ (home' = NoTree \/ (home = NoTree /\ home' = staging))
      OBVIOUS
  <2>1. ~DamagePart
      BY DEF DamagePart, BackupInv
  <2>2. RemoveHome \/ RenameStaged
      BY <2>1 DEF BackupNext, BackupFails, BackupDies, HomeGoesOn, Doing, BackupStarts, CopySkills, WriteManifest,
         RestoreStarts, StageSkills, CopyRow, StageRow
  <2> QED BY <2>2 DEF RemoveHome, RenameStaged, Doing, BackupInv
<1> QED BY <1>1, <1>2, BackupStep, PTL DEF BackupSpec, RestoreWhole

-----------------------------------------------------------------------------
(* What a home is bound to                                                 *)

Phases == {"started", "copied", "owner", "binding"}
Moving == Phases \cup {"copying", "copyEnded", "stamped", "rebound", "dropped"}
Moves == [from : Identities, to : Profiles, phase : Phases]

Contexts == [id : Identities \cup {Nobody, Unreadable}, bound : BOOLEAN, broken : BOOLEAN]
LaunchRecords ==
    [at : Moving \cup {"off", "inspected", "held", "moved", "claim", "commit", "serve"},
     context : Contexts, move : Moves \cup {NoMove}, stamped : BOOLEAN]

HomeTyped ==
    /\ shipped \in Profiles \cup {Unreadable}
    /\ binding \in Identities \cup {Nobody} /\ owner \in Identities \cup {Nobody}
    /\ partitions \in [Identities -> (SUBSET Transcripts) \cup {Missing}]
    /\ move \in Moves \cup {NoMove}
    /\ kept \subseteq Transcripts
    /\ launch \in [Launches -> LaunchRecords]

(* The partition of an identity is there with every transcript. *)
HoldsAll(id) == partitions[id] # Missing /\ kept \subseteq partitions[id]

(* The phase of the journal says which partition holds everything and what *)
(* the home is bound to: up to the copy the old one, and from the copy on  *)
(* the new one as well.                                                    *)
JournalTrue ==
    /\ binding = Nobody => kept = {} /\ move = NoMove
    /\ binding # Nobody => HoldsAll(binding)
    /\ move # NoMove =>
          /\ move.from # move.to
          /\ move.phase \in {"started", "copied"} => binding = move.from
          /\ move.phase = "owner" => binding \in {move.from, move.to}
          /\ move.phase = "binding" => binding = move.to
          /\ move.phase # "started" => HoldsAll(move.to)

(* A run that moves has the journal of the disk in memory and is in or just*)
(* behind its phase. *)
InPhase(l) ==
    /\ move \in Moves /\ l.move = move
    /\ l.at \in Phases => move.phase = l.at
    /\ l.at \in {"copying", "copyEnded"} => move.phase = "started"
    /\ l.at = "copyEnded" => HoldsAll(move.to)
    /\ l.at = "copying" => HoldsAll(move.from)
    /\ l.at = "stamped" => move.phase = "copied"
    /\ l.at = "rebound" => move.phase = "owner" /\ binding = move.to
    /\ l.at = "dropped" => move.phase = "binding"

(* What holds of one run: it works only with the lease, what it knows of   *)
(* the home is still so, and a normal conversation is led where the home is*)
(* bound. *)
Steady(l, x) ==
    /\ l.at \notin {"off", "inspected"} => holder = x
    /\ l.at # "off" =>
          /\ l.context.bound => binding # Nobody /\ l.context.id \in Identities
          /\ ~l.context.bound /\ ~l.context.broken => l.context.id \in Profiles
    /\ l.at \in Moving => InPhase(l)
    /\ l.at = "moved" => move = NoMove
    /\ l.at \in Moving \cup {"moved"} => binding # Nobody /\ (~l.context.bound => owner # Nobody)
    /\ l.at = "commit" =>
          /\ ~l.context.bound /\ ~l.context.broken
          /\ owner = l.context.id /\ partitions[l.context.id] # Missing
    /\ l.at = "claim" /\ l.context.bound /\ ~l.context.broken =>
          l.context.id = binding /\ move = NoMove
    /\ l.at = "serve" /\ ~l.context.broken =>
          l.context.id = binding /\ owner = binding /\ binding # Nobody /\ move = NoMove

HomeInv == HomeTyped /\ JournalTrue /\ \A x \in Launches : Steady(launch[x], x)

LEMMA HomeBegins == ProfileInit => HomeInv
<1> SUFFICES ASSUME ProfileInit PROVE HomeInv
    OBVIOUS
<1>1. shipped \in Profiles /\ binding \in Identities \cup {Nobody} /\ kept \subseteq Transcripts
    BY ProfileAssumption DEF ProfileInit, Identities
<1>2. partitions \in [Identities -> (SUBSET Transcripts) \cup {Missing}]
    BY <1>1 DEF ProfileInit
<1>3. launch \in [Launches -> LaunchRecords]
    BY DEF ProfileInit, NotStarted, Context, LaunchRecords, Contexts
<1>4. HomeTyped
    BY <1>1, <1>2, <1>3 DEF ProfileInit, HomeTyped
<1>5. JournalTrue
    BY <1>1, ProfileAssumption DEF ProfileInit, JournalTrue, HoldsAll
<1>6. \A x \in Launches : Steady(launch[x], x)
    BY DEF ProfileInit, NotStarted, Context, Steady, Moving, Phases
<1> QED BY <1>4, <1>5, <1>6 DEF HomeInv

(* While a run has the lease the others have at most looked at the home. *)
LEMMA OthersIdle ==
    ASSUME HomeInv, NEW x \in Launches, holder = x, NEW y \in Launches \ {x}
    PROVE  launch[y].at \in {"off", "inspected"}
BY DEF HomeInv, Steady

(* What a step of one run leaves of the others. *)
LEMMA OthersSteady ==
    ASSUME HomeInv, NEW x \in Launches, holder = x,
           NEW l \in LaunchRecords, launch' = [launch EXCEPT ![x] = l],
           binding # Nobody => binding' # Nobody,
           Steady(l, x)'
    PROVE  launch' \in [Launches -> LaunchRecords] /\ \A y \in Launches : Steady(launch[y], y)'
<1>1. launch' \in [Launches -> LaunchRecords]
    BY DEF HomeInv, HomeTyped
<1>2. launch'[x] = l
    BY DEF HomeInv, HomeTyped
<1>3. ASSUME NEW y \in Launches \ {x} PROVE Steady(launch[y], y)'
  <2>1. launch'[y] = launch[y]
      BY DEF HomeInv, HomeTyped
  <2>2. launch[y].at \in {"off", "inspected"}
      BY OthersIdle
  <2> QED BY <2>1, <2>2 DEF HomeInv, Steady, Moving, Phases
<1> QED BY <1>1, <1>2, <1>3

(* What a run that ends leaves of the others. *)
LEMMA OthersGoOn ==
    ASSUME HomeInv, NEW x \in Launches, Vanish(x),
           UNCHANGED <<binding, owner, partitions, move, kept>>
    PROVE  launch' \in [Launches -> LaunchRecords] /\ \A y \in Launches : Steady(launch[y], y)'
<1>1. NotStarted \in LaunchRecords
    BY DEF NotStarted, Context, LaunchRecords, Contexts
<1>2. launch' \in [Launches -> LaunchRecords]
    BY <1>1 DEF HomeInv, HomeTyped, Vanish
<1>3. ASSUME NEW y \in Launches PROVE Steady(launch[y], y)'
  <2>1. CASE y = x
    <3>1. launch'[x] = NotStarted
        BY DEF Vanish, HomeInv, HomeTyped
    <3> QED BY <2>1, <3>1 DEF Steady, NotStarted, Context, Moving, Phases
  <2>2. CASE y # x
    <3>1. launch'[y] = launch[y] /\ Steady(launch[y], y)
        BY <2>2 DEF Vanish, HomeInv, HomeTyped
    <3>2. holder = y => holder' = y
        BY <2>2 DEF Vanish
    <3> QED BY <3>1, <3>2 DEF Steady, InPhase, HoldsAll
  <2> QED BY <2>1, <2>2
<1> QED BY <1>2, <1>3

(* A start that fails takes its stamp back at most. *)
LEMMA StartFails ==
    ASSUME HomeInv, NEW x \in Launches, holder = x, FailStart(x),
           UNCHANGED <<shipped, binding, partitions, move, kept>>
    PROVE  HomeInv'
<1>1. owner' \in Identities \cup {Nobody}
    BY DEF FailStart, HomeInv, HomeTyped
<1>2. NotStarted \in LaunchRecords /\ Steady(NotStarted, x)'
    BY DEF NotStarted, Context, LaunchRecords, Contexts, Steady, Moving, Phases
<1>3. launch' \in [Launches -> LaunchRecords] /\ \A y \in Launches : Steady(launch[y], y)'
    BY <1>2, OthersSteady DEF FailStart, Vanish
<1> QED BY <1>1, <1>3 DEF HomeInv, HomeTyped, JournalTrue, HoldsAll

(* A run that looks at the home again and goes on knows what it is bound   *)
(* to.                                                                     *)
LEMMA LooksAgain ==
    ASSUME HomeInv, NEW x \in Launches, holder = x, binding # Nobody,
           shipped = Unreadable \/ move = NoMove,
           NEW step \in {"claim", "serve"}, Reinspect(x, step), step = "serve" => owner # Nobody,
           UNCHANGED <<shipped, binding, partitions, move, kept>>
    PROVE  HomeInv'
<1>1. CASE HomeRefused
    BY <1>1, StartFails DEF Reinspect
<1>2. CASE ~HomeRefused
  <2>0. PICK l : l = [launch[x] EXCEPT !.at = step, !.context = Inspection]
      OBVIOUS
  <2>1. Inspection = [id |-> binding, bound |-> TRUE, broken |-> shipped = Unreadable]
      BY DEF Inspection, Context
  <2>2. l \in LaunchRecords
      BY <2>0, <2>1 DEF HomeInv, HomeTyped, LaunchRecords, Contexts
  <2>3. launch' = [launch EXCEPT ![x] = l] /\ UNCHANGED <<owner, holder>>
      BY <1>2, <2>0 DEF Reinspect, Stands, HomeInv, HomeTyped, LaunchRecords
  <2>4. shipped # Unreadable => owner \in {Nobody, binding}
      BY <1>2 DEF HomeRefused, BoundRefused, StampAllows
  <2>5. l.at = step /\ l.context = Inspection
      BY <2>0 DEF HomeInv, HomeTyped, LaunchRecords
  <2>6. binding \in Identities /\ l.context.bound /\ l.context.id = binding
      BY <2>1, <2>5 DEF HomeInv, HomeTyped
  <2>9. ASSUME shipped = Unreadable PROVE l.context.broken
    <3>1. (shipped = Unreadable) = TRUE
        BY <2>9
    <3>2. Inspection = [id |-> binding, bound |-> TRUE, broken |-> TRUE]
        BY <2>1, <3>1 DEF Inspection, Context
    <3> QED BY <2>5, <3>2
  <2>7. Steady(l, x)'
      BY <2>3, <2>4, <2>5, <2>6, <2>9 DEF Steady, Moving, Phases
  <2>8. launch' \in [Launches -> LaunchRecords] /\ \A y \in Launches : Steady(launch[y], y)'
      BY <2>2, <2>3, <2>7, OthersSteady
  <2> QED BY <2>3, <2>8 DEF HomeInv, HomeTyped, JournalTrue, HoldsAll
<1> QED BY <1>1, <1>2

LEMMA CompletesMove ==
    ASSUME HomeInv, NEW x \in Launches, holder = x, binding # Nobody, launch[x].at # "off",
           Complete(x), launch[x].context.bound \/ owner # Nobody,
           UNCHANGED <<shipped, binding, partitions, kept>>
    PROVE  HomeInv'
<1>1. CASE shipped = Unreadable \/ (move = NoMove /\ ~OlderBinding)
    BY <1>1, LooksAgain DEF Complete, AfterMove
<1>2. CASE ~(shipped = Unreadable \/ (move = NoMove /\ ~OlderBinding)) /\ ~MoveMatches
    BY <1>2, StartFails DEF Complete
<1>3. CASE ~(shipped = Unreadable \/ (move = NoMove /\ ~OlderBinding)) /\ MoveMatches
  <2>0. PICK m, l : /\ m = IF move = NoMove THEN Move(binding, shipped, "started") ELSE move
                    /\ l = [launch[x] EXCEPT !.at = m.phase, !.move = m]
      OBVIOUS
  <2>1. move' = m /\ UNCHANGED <<owner, holder>> /\ launch' = [launch EXCEPT ![x] = l]
      BY <1>3, <2>0 DEF Complete, HomeInv, HomeTyped
  <2>2. move = NoMove => binding = ProfileName /\ shipped \in Profiles /\ binding # shipped
      BY <1>3, ProfileAssumption DEF OlderBinding, HomeInv, HomeTyped
  <2>3. m \in Moves
      BY <2>0, <2>2 DEF Moves, Move, HomeInv, HomeTyped, Phases, Identities
  <2>4. NoMove \notin Moves
      BY DEF NoMove, Move, Moves, Phases
  <2>5. JournalTrue'
      BY <2>0, <2>1, <2>2, <2>3, <2>4 DEF HomeInv, JournalTrue, HoldsAll, Move
  <2>6. l \in LaunchRecords /\ l.at = m.phase /\ l.move = m /\ l.context = launch[x].context
      BY <2>0, <2>3 DEF HomeInv, HomeTyped, LaunchRecords, Moves, Moving
  <2>7. m.phase \in Phases
      BY <2>3 DEF Moves
  <2>8. Steady(l, x)'
    <3>1. InPhase(l)'
        BY <2>1, <2>3, <2>6, <2>7 DEF InPhase, Phases
    <3> QED BY <2>1, <2>6, <2>7, <3>1 DEF HomeInv, Steady, Moving, Phases
  <2>9. launch' \in [Launches -> LaunchRecords] /\ \A y \in Launches : Steady(launch[y], y)'
      BY <2>1, <2>6, <2>8, OthersSteady
  <2> QED BY <2>1, <2>3, <2>5, <2>9 DEF HomeInv, HomeTyped
<1> QED BY <1>1, <1>2, <1>3

(* A step that puts a run where it holds the lease, and leaves the journal *)
(* true.                                                                   *)
LEMMA RunSteps ==
    ASSUME HomeInv, NEW x \in Launches, holder = x, holder' = holder, shipped' = shipped,
           NEW l \in LaunchRecords, launch' = [launch EXCEPT ![x] = l],
           binding # Nobody => binding' # Nobody,
           binding' \in Identities \cup {Nobody}, owner' \in Identities \cup {Nobody},
           partitions' \in [Identities -> (SUBSET Transcripts) \cup {Missing}],
           move' \in Moves \cup {NoMove}, kept' \subseteq Transcripts,
           JournalTrue', Steady(l, x)'
    PROVE  HomeInv'
<1>1. launch' \in [Launches -> LaunchRecords] /\ \A y \in Launches : Steady(launch[y], y)'
    BY OthersSteady
<1> QED BY <1>1 DEF HomeInv, HomeTyped

(* The journal enters its next phase with the run that makes the move.     *)
LEMMA PhaseEnters ==
    ASSUME HomeInv, NEW x \in Launches, launch[x].at \in Moving, NEW phase \in Phases, EnterPhase(x, phase),
           UNCHANGED <<shipped, binding, owner, partitions, holder, kept>>,
           phase \in {"started", "copied"} => binding = move.from,
           phase = "owner" => binding \in {move.from, move.to},
           phase = "binding" => binding = move.to,
           phase # "started" => HoldsAll(move.to)
    PROVE  HomeInv'
<1>0. PICK m, l : /\ m = [launch[x].move EXCEPT !.phase = phase]
                  /\ l = [launch[x] EXCEPT !.at = phase, !.move = m]
    OBVIOUS
<1>1. /\ holder = x /\ binding # Nobody /\ launch[x] \in LaunchRecords /\ launch[x].move = move /\ move \in Moves
      /\ ~launch[x].context.bound => owner # Nobody
    BY DEF HomeInv, HomeTyped, Steady, InPhase, Moving, Phases
<1>2. m \in Moves /\ m.from = move.from /\ m.to = move.to /\ m.phase = phase
    BY <1>0, <1>1 DEF Moves
<1>3. move' = m /\ launch' = [launch EXCEPT ![x] = l]
    BY <1>0, <1>1 DEF EnterPhase, HomeInv, HomeTyped, LaunchRecords
<1>4. l \in LaunchRecords /\ l.at = phase /\ l.move = m /\ l.context = launch[x].context
    BY <1>0, <1>1, <1>2 DEF LaunchRecords, Moving
<1>5. NoMove \notin Moves
    BY DEF NoMove, Move, Moves, Phases
<1>6. JournalTrue'
    BY <1>1, <1>2, <1>3, <1>5 DEF HomeInv, JournalTrue, HoldsAll
<1>7. InPhase(l)'
    BY <1>2, <1>3, <1>4 DEF InPhase, Phases
<1>8. Steady(l, x)'
    BY <1>1, <1>3, <1>4, <1>7 DEF HomeInv, Steady, Moving, Phases
<1> QED BY <1>1, <1>2, <1>3, <1>4, <1>6, <1>8, RunSteps DEF HomeInv, HomeTyped

(* A run that comes up leaves the home and the others alone. *)
LEMMA ComesUp ==
    ASSUME HomeInv, NEW x \in Launches, InspectHome(x) \/ TakeLease(x)
    PROVE  HomeInv'
<1>0. HomeTyped /\ UNCHANGED <<shipped, binding, owner, partitions, move, kept>>
    BY DEF HomeInv, InspectHome, TakeLease
<1>1. \E l \in LaunchRecords : launch' = [launch EXCEPT ![x] = l] /\ Steady(l, x)'
  <2>1. CASE InspectHome(x)
    <3>0. PICK c, l : /\ c = [Inspection EXCEPT !.broken = ~Fits]
                      /\ l = [launch[x] EXCEPT !.at = "inspected", !.context = c]
        OBVIOUS
    <3>1. Inspection \in Contexts
        BY <1>0 DEF Inspection, Context, Contexts, HomeTyped, Identities
    <3>2. c \in Contexts /\ c.id = Inspection.id /\ c.bound = Inspection.bound /\ (c.broken <=> ~Fits)
        BY <3>0, <3>1 DEF Contexts
    <3>3. c.bound => binding # Nobody /\ c.id \in Identities
        BY <1>0, <3>2 DEF Inspection, Context, HomeTyped
    <3>4. ~c.bound /\ ~c.broken => c.id \in Profiles
        BY <3>2 DEF Inspection, Context, Fits
    <3>5. l \in LaunchRecords /\ l.at = "inspected" /\ l.context = c
        BY <1>0, <3>0, <3>2 DEF HomeTyped, LaunchRecords
    <3>6. launch' = [launch EXCEPT ![x] = l]
        BY <1>0, <2>1, <3>0 DEF InspectHome, Stands, HomeTyped, LaunchRecords
    <3> QED BY <1>0, <3>3, <3>4, <3>5, <3>6 DEF Steady, Moving, Phases
  <2>2. CASE TakeLease(x)
    <3>0. PICK l : l = [launch[x] EXCEPT !.at = "held"]
        OBVIOUS
    <3>1. l \in LaunchRecords /\ l.at = "held" /\ l.context = launch[x].context
        BY <1>0, <3>0 DEF HomeTyped, LaunchRecords
    <3>2. launch' = [launch EXCEPT ![x] = l] /\ holder' = x
        BY <2>2, <3>0 DEF TakeLease, Proceed
    <3>3. launch[x].at = "inspected" /\ Steady(launch[x], x)
        BY <2>2 DEF TakeLease, Is, HomeInv
    <3> QED BY <1>0, <3>1, <3>2, <3>3 DEF Steady, Moving, Phases
  <2> QED BY <2>1, <2>2
<1>2. PICK l \in LaunchRecords : launch' = [launch EXCEPT ![x] = l] /\ Steady(l, x)'
    BY <1>1
<1>3. launch' \in [Launches -> LaunchRecords] /\ launch'[x] = l
    BY <1>0, <1>2 DEF HomeTyped
<1>4. ASSUME NEW y \in Launches \ {x} PROVE Steady(launch[y], y)'
  <2>1. launch'[y] = launch[y] /\ Steady(launch[y], y)
      BY <1>0, <1>2 DEF HomeTyped, HomeInv
  <2>2. holder = y => holder' = y
      BY ProfileAssumption DEF InspectHome, TakeLease
  <2> QED BY <1>0, <2>1, <2>2 DEF Steady, InPhase, HoldsAll
<1>5. JournalTrue'
    BY <1>0 DEF HomeInv, JournalTrue, HoldsAll
<1> QED BY <1>0, <1>2, <1>3, <1>4, <1>5 DEF HomeInv, HomeTyped

(* A run ends. *)
LEMMA RunEnds ==
    ASSUME HomeInv, NEW x \in Launches, StartDenied(x) \/ StopRun(x) \/ KillRun(x)
    PROVE  HomeInv'
<1>1. Vanish(x) /\ UNCHANGED <<shipped, binding, owner, partitions, move, kept>>
    BY DEF StartDenied, StopRun, KillRun
<1>2. launch' \in [Launches -> LaunchRecords] /\ \A y \in Launches : Steady(launch[y], y)'
    BY <1>1, OthersGoOn
<1> QED BY <1>1, <1>2 DEF HomeInv, HomeTyped, JournalTrue, HoldsAll

(* What a run that has the lease finds. *)
LEMMA Working ==
    ASSUME HomeInv, NEW x \in Launches, launch[x].at \notin {"off", "inspected"}
    PROVE  /\ holder = x /\ launch[x] \in LaunchRecords
           /\ NoMove \notin Moves
           /\ launch[x].at \in Moving =>
                 /\ launch[x].move = move /\ move \in Moves /\ binding # Nobody
                 /\ move.from \in Identities /\ move.to \in Identities /\ move.from # move.to
BY DEF HomeInv, HomeTyped, Steady, InPhase, JournalTrue, NoMove, Move, Moves, Phases, Identities

(* The steps of a move between two notes of the journal: the partitions of *)
(* the others and what they know do not change.                            *)
LEMMA MoveWorks ==
    ASSUME HomeInv, NEW x \in Launches, launch[x].at \in Moving, NEW step \in Moving,
           Proceed(x, step), UNCHANGED <<shipped, move, holder, kept>>,
           binding' \in Identities, owner' \in Identities \cup {Nobody},
           owner # Nobody => owner' # Nobody,
           partitions' \in [Identities -> (SUBSET Transcripts) \cup {Missing}],
           JournalTrue',
           step \in Phases => move.phase = step,
           step \in {"copying", "copyEnded"} => move.phase = "started",
           step = "copyEnded" => HoldsAll(move.to)',
           step = "copying" => HoldsAll(move.from)',
           step = "stamped" => move.phase = "copied",
           step = "rebound" => move.phase = "owner" /\ binding' = move.to,
           step = "dropped" => move.phase = "binding"
    PROVE  HomeInv'
<1>0. PICK l : l = [launch[x] EXCEPT !.at = step]
    OBVIOUS
<1>1. /\ holder = x /\ binding # Nobody /\ launch[x] \in LaunchRecords
      /\ launch[x].move = move /\ move \in Moves
    BY Working DEF Moving, Phases
<1>2. l \in LaunchRecords /\ l.at = step /\ l.move = move /\ l.context = launch[x].context
    BY <1>0, <1>1 DEF LaunchRecords
<1>3. launch' = [launch EXCEPT ![x] = l]
    BY <1>0 DEF Proceed
<1>4. binding' # Nobody
    BY ProfileAssumption DEF Identities
<1>5. InPhase(l)'
    BY <1>1, <1>2 DEF InPhase
<1>6. Steady(launch[x], x)
    BY DEF HomeInv
<1>7. Steady(l, x)'
    BY <1>1, <1>2, <1>4, <1>5, <1>6 DEF Steady, Moving, Phases
<1> QED BY <1>1, <1>2, <1>3, <1>4, <1>7, RunSteps DEF HomeInv, HomeTyped

LEMMA CopySteps ==
    ASSUME HomeInv, NEW x \in Launches, Copy(x) \/ Copied(x) \/ NoteCopied(x)
    PROVE  HomeInv'
<1>0. /\ UNCHANGED <<shipped, binding, owner, holder, kept>> /\ HomeTyped /\ JournalTrue
      /\ launch[x].at \in Moving /\ Steady(launch[x], x) /\ Missing # {}
    BY ProfileAssumption DEF Copy, Copied, NoteCopied, Is, HomeInv, Moving, Phases
<1>1. /\ launch[x].move = move /\ move \in Moves /\ binding \in Identities /\ NoMove \notin Moves
      /\ move.from \in Identities /\ move.to \in Identities /\ move.from # move.to
    BY <1>0, Working DEF HomeTyped, Moving, Phases
<1>2. InPhase(launch[x])
    BY <1>0 DEF Steady
<1>3. CASE Copy(x)
  <2>1. move.phase = "started" /\ binding = move.from /\ HoldsAll(move.from)
      BY <1>0, <1>1, <1>2, <1>3 DEF Copy, Is, InPhase, JournalTrue, Phases
  <2>2. /\ partitions' = [partitions EXCEPT ![move.to] = {}]
        /\ Proceed(x, "copying") /\ UNCHANGED move
      BY <1>1, <1>3, <2>1 DEF Copy, HoldsAll
  <2>3. /\ partitions' \in [Identities -> (SUBSET Transcripts) \cup {Missing}]
        /\ partitions'[move.from] = partitions[move.from]
      BY <1>0, <1>1, <2>2 DEF HomeTyped
  <2>4. JournalTrue' /\ HoldsAll(move.from)'
      BY <1>0, <1>1, <2>1, <2>2, <2>3 DEF JournalTrue, HoldsAll
  <2> QED BY <1>0, <1>1, <2>1, <2>2, <2>3, <2>4, MoveWorks DEF HomeTyped, Moving, Phases
<1>4. CASE Copied(x)
  <2>1. move.phase = "started" /\ binding = move.from /\ HoldsAll(move.from)
      BY <1>0, <1>1, <1>2, <1>4 DEF Copied, Is, InPhase, JournalTrue
  <2>2. /\ partitions' = [partitions EXCEPT ![move.to] = partitions[move.from]]
        /\ Proceed(x, "copyEnded") /\ UNCHANGED move
      BY <1>1, <1>4 DEF Copied
  <2>3. /\ partitions' \in [Identities -> (SUBSET Transcripts) \cup {Missing}]
        /\ partitions'[move.from] = partitions[move.from]
        /\ partitions'[move.to] = partitions[move.from]
      BY <1>0, <1>1, <2>2 DEF HomeTyped
  <2>4. JournalTrue' /\ HoldsAll(move.to)'
      BY <1>0, <1>1, <2>1, <2>2, <2>3 DEF JournalTrue, HoldsAll
  <2> QED BY <1>0, <1>1, <2>1, <2>2, <2>3, <2>4, MoveWorks DEF HomeTyped, Moving, Phases
<1>5. CASE NoteCopied(x)
  <2>1. move.phase = "started" /\ binding = move.from /\ HoldsAll(move.to)
      BY <1>0, <1>1, <1>2, <1>5 DEF NoteCopied, Is, InPhase, JournalTrue
  <2> QED BY <1>0, <1>5, <2>1, PhaseEnters DEF NoteCopied, Phases
<1> QED BY <1>3, <1>4, <1>5

LEMMA StampSteps ==
    ASSUME HomeInv, NEW x \in Launches, Restamp(x) \/ NoteOwner(x) \/ Rebind(x) \/ NoteBinding(x)
    PROVE  HomeInv'
<1>0. /\ UNCHANGED <<shipped, partitions, holder, kept>> /\ HomeTyped /\ JournalTrue
      /\ launch[x].at \in Moving /\ Steady(launch[x], x)
    BY DEF Restamp, NoteOwner, Rebind, NoteBinding, Is, HomeInv, Moving, Phases
<1>1. /\ launch[x].move = move /\ move \in Moves /\ binding \in Identities /\ NoMove \notin Moves
      /\ move.from \in Identities /\ move.to \in Identities /\ move.from # move.to
    BY <1>0, Working DEF HomeTyped, Moving, Phases
<1>2. InPhase(launch[x]) /\ move.to # Nobody
    BY <1>0, <1>1, ProfileAssumption DEF Steady, Identities
<1>3. CASE Restamp(x)
  <2>1. move.phase = "copied"
      BY <1>2, <1>3 DEF Restamp, Is, InPhase, Phases
  <2>2. /\ owner' = IF owner \in {move.from, move.to} THEN move.to ELSE owner
        /\ Proceed(x, "stamped") /\ UNCHANGED <<binding, move>>
      BY <1>1, <1>3 DEF Restamp
  <2>3. owner' \in Identities \cup {Nobody} /\ (owner # Nobody => owner' # Nobody)
      BY <1>0, <1>1, <1>2, <2>2 DEF HomeTyped
  <2>4. JournalTrue'
      BY <1>0, <2>2 DEF JournalTrue, HoldsAll
  <2> QED BY <1>0, <1>1, <2>1, <2>2, <2>3, <2>4, MoveWorks DEF HomeTyped, Moving, Phases
<1>4. CASE NoteOwner(x)
  <2>1. move.phase = "copied" /\ binding = move.from /\ HoldsAll(move.to)
      BY <1>0, <1>1, <1>2, <1>4 DEF NoteOwner, Is, InPhase, JournalTrue
  <2> QED BY <1>0, <1>4, <2>1, PhaseEnters DEF NoteOwner, Phases
<1>5. CASE Rebind(x)
  <2>1. move.phase = "owner" /\ HoldsAll(move.to)
      BY <1>0, <1>1, <1>2, <1>5 DEF Rebind, Is, InPhase, JournalTrue, Phases
  <2>2. binding' = move.to /\ Proceed(x, "rebound") /\ UNCHANGED <<owner, move>>
      BY <1>1, <1>5 DEF Rebind
  <2>3. JournalTrue'
      BY <1>0, <1>1, <1>2, <2>1, <2>2 DEF JournalTrue, HoldsAll
  <2> QED BY <1>0, <1>1, <2>1, <2>2, <2>3, MoveWorks DEF HomeTyped, Moving, Phases
<1>6. CASE NoteBinding(x)
  <2>1. move.phase = "owner" /\ binding = move.to /\ HoldsAll(move.to)
      BY <1>0, <1>1, <1>2, <1>6 DEF NoteBinding, Is, InPhase, JournalTrue
  <2> QED BY <1>0, <1>6, <2>1, PhaseEnters DEF NoteBinding, Phases
<1> QED BY <1>3, <1>4, <1>5, <1>6

LEMMA MoveEnds ==
    ASSUME HomeInv, NEW x \in Launches, DropOld(x) \/ EndMove(x) \/ Review(x)
    PROVE  HomeInv'
<1>0. /\ UNCHANGED <<shipped, binding, kept>> /\ HomeTyped /\ JournalTrue
      /\ launch[x].at \in Moving \cup {"moved"} /\ Steady(launch[x], x)
      /\ holder = x /\ launch[x] \in LaunchRecords /\ binding \in Identities
      /\ launch[x].at \notin {"off", "inspected"}
    BY Working DEF DropOld, EndMove, Review, Is, HomeInv, HomeTyped, Steady, Moving, Phases
<1>1. CASE DropOld(x)
  <2>1. /\ launch[x].move = move /\ move \in Moves /\ NoMove \notin Moves /\ launch[x].at \in Moving
        /\ move.from \in Identities /\ move.to \in Identities /\ move.from # move.to
      BY <1>0, <1>1, Working DEF DropOld, Is, Moving, Phases
  <2>2. move.phase = "binding" /\ binding = move.to /\ HoldsAll(move.to)
      BY <1>0, <1>1, <2>1 DEF DropOld, Is, Steady, InPhase, JournalTrue, Phases
  <2>3. /\ partitions' = [partitions EXCEPT ![move.from] = Missing]
        /\ Proceed(x, "dropped") /\ UNCHANGED <<owner, move, holder>>
      BY <1>1, <2>1 DEF DropOld
  <2>4. /\ partitions' \in [Identities -> (SUBSET Transcripts) \cup {Missing}]
        /\ partitions'[move.to] = partitions[move.to]
      BY <1>0, <2>1, <2>3 DEF HomeTyped
  <2>5. JournalTrue'
      BY <1>0, <2>1, <2>2, <2>3, <2>4 DEF JournalTrue, HoldsAll
  <2> QED BY <1>0, <2>1, <2>2, <2>3, <2>4, <2>5, MoveWorks DEF HomeTyped, Moving, Phases
<1>2. CASE EndMove(x)
  <2>0. PICK l : l = [launch[x] EXCEPT !.at = "moved"]
      OBVIOUS
  <2>1. l \in LaunchRecords /\ l.at = "moved" /\ l.context = launch[x].context
      BY <1>0, <2>0 DEF LaunchRecords
  <2>2. /\ launch' = [launch EXCEPT ![x] = l]
        /\ move' = NoMove /\ UNCHANGED <<owner, partitions, holder>>
      BY <1>2, <2>0 DEF EndMove, Proceed
  <2>3. JournalTrue'
      BY <1>0, <2>2 DEF JournalTrue, HoldsAll
  <2>4. Steady(l, x)'
      BY <1>0, <2>1, <2>2 DEF Steady, Moving, Phases
  <2> QED BY <1>0, <2>1, <2>2, <2>3, <2>4, RunSteps DEF HomeTyped
<1>3. CASE Review(x)
  <2>1. PICK step : step = AfterMove(x)
      OBVIOUS
  <2>2. step \in {"claim", "serve"} /\ (step = "serve" => ~launch[x].context.bound)
      BY <2>1 DEF AfterMove
  <2>3. move = NoMove /\ binding # Nobody /\ (~launch[x].context.bound => owner # Nobody)
      BY <1>0, <1>3 DEF Review, Is, Steady
  <2> QED BY <1>0, <1>3, <2>1, <2>2, <2>3, LooksAgain DEF Review
<1> QED BY <1>1, <1>2, <1>3

LEMMA BeginSteps ==
    ASSUME HomeInv, NEW x \in Launches, Begin(x)
    PROVE  HomeInv'
<1>0. /\ UNCHANGED <<shipped, binding, partitions, kept>> /\ HomeTyped /\ JournalTrue
      /\ launch[x].at = "held" /\ Steady(launch[x], x)
      /\ holder = x /\ launch[x] \in LaunchRecords
    BY Working DEF Begin, Is, HomeInv
<1>1. CASE ~launch[x].context.broken /\ ~Fits
    BY <1>0, <1>1, StartFails DEF Begin
<1>2. CASE ~(~launch[x].context.broken /\ ~Fits) /\ launch[x].context.bound /\ ~launch[x].context.broken
  <2>1. Complete(x) /\ binding # Nobody
      BY <1>0, <1>2 DEF Begin, Steady
  <2> QED BY <1>0, <1>2, <2>1, CompletesMove
<1>3. CASE ~(~launch[x].context.broken /\ ~Fits) /\ ~(launch[x].context.bound /\ ~launch[x].context.broken)
  <2>0. PICK l : l = [launch[x] EXCEPT !.at = "claim"]
      OBVIOUS
  <2>1. l \in LaunchRecords /\ l.at = "claim" /\ l.context = launch[x].context
      BY <1>0, <2>0 DEF LaunchRecords
  <2>2. launch' = [launch EXCEPT ![x] = l] /\ UNCHANGED <<owner, move, holder>>
      BY <1>3, <2>0 DEF Begin, Proceed
  <2>3. JournalTrue' /\ Steady(l, x)'
      BY <1>0, <1>3, <2>1, <2>2 DEF JournalTrue, HoldsAll, Steady, Moving, Phases
  <2> QED BY <1>0, <2>1, <2>2, <2>3, RunSteps DEF HomeTyped
<1> QED BY <1>1, <1>2, <1>3

LEMMA ClaimSteps ==
    ASSUME HomeInv, NEW x \in Launches, Claim(x)
    PROVE  HomeInv'
<1> DEFINE c == launch[x].context
<1>0. /\ UNCHANGED <<shipped, binding, move, kept>> /\ HomeTyped /\ JournalTrue
      /\ launch[x].at = "claim" /\ Steady(launch[x], x)
      /\ holder = x /\ launch[x] \in LaunchRecords
    BY Working DEF Claim, Is, HomeInv
<1>1. CASE Ephemeral(c)
  <2>0. PICK l : l = [launch[x] EXCEPT !.at = "serve"]
      OBVIOUS
  <2>1. l \in LaunchRecords /\ l.at = "serve" /\ l.context = c
      BY <1>0, <2>0 DEF LaunchRecords
  <2>2. launch' = [launch EXCEPT ![x] = l] /\ UNCHANGED <<owner, partitions, holder>>
      BY <1>1, <2>0 DEF Claim, Proceed
  <2>3. JournalTrue' /\ Steady(l, x)'
      BY <1>0, <1>1, <2>1, <2>2 DEF Ephemeral, JournalTrue, HoldsAll, Steady, Moving, Phases
  <2> QED BY <1>0, <2>1, <2>2, <2>3, RunSteps DEF HomeTyped
<1>2. CASE ~Ephemeral(c) /\ ~MayStamp(c.id)
    BY <1>0, <1>2, StartFails DEF Claim
<1>3. CASE ~Ephemeral(c) /\ MayStamp(c.id)
  <2>0. PICK l : l = [launch[x] EXCEPT !.at = IF c.bound THEN "serve" ELSE "commit",
                                       !.stamped = owner = Nobody]
      OBVIOUS
  <2>1. /\ l \in LaunchRecords /\ l.at = IF c.bound THEN "serve" ELSE "commit"
        /\ l.context = c
      BY <1>0, <2>0 DEF LaunchRecords
  <2>2. /\ owner' = c.id /\ partitions' = [partitions EXCEPT ![c.id] = Opened(c.id)]
        /\ launch' = [launch EXCEPT ![x] = l] /\ UNCHANGED holder
      BY <1>0, <1>3, <2>0 DEF Claim, HomeTyped, LaunchRecords
  <2>3. c.id \in Identities
      BY <1>0, <1>3 DEF Ephemeral, Steady, Identities
  <2>4. /\ partitions' \in [Identities -> (SUBSET Transcripts) \cup {Missing}]
        /\ partitions'[c.id] = Opened(c.id)
        /\ \A id \in Identities : id # c.id => partitions'[id] = partitions[id]
      BY <1>0, <2>2, <2>3 DEF HomeTyped, Opened
  <2>5. Opened(c.id) # Missing /\ (partitions[c.id] # Missing => Opened(c.id) = partitions[c.id])
      BY ProfileAssumption DEF Opened
  <2>6. JournalTrue'
      BY <1>0, <2>2, <2>4, <2>5 DEF HomeTyped, JournalTrue, HoldsAll, Moves, Identities
  <2>7. Steady(l, x)'
      BY <1>0, <1>3, <2>1, <2>2, <2>4, <2>5 DEF Ephemeral, Steady, Moving, Phases
  <2> QED BY <1>0, <2>1, <2>2, <2>3, <2>4, <2>6, <2>7, RunSteps DEF HomeTyped
<1> QED BY <1>1, <1>2, <1>3

LEMMA CommitSteps ==
    ASSUME HomeInv, NEW x \in Launches, FailCommit(x) \/ CommitHome(x)
    PROVE  HomeInv'
<1>0. /\ UNCHANGED <<shipped, partitions, kept>> /\ HomeTyped /\ JournalTrue
      /\ launch[x].at = "commit" /\ Steady(launch[x], x)
      /\ holder = x /\ launch[x] \in LaunchRecords
    BY Working DEF FailCommit, CommitHome, Is, HomeInv
<1>1. CASE FailCommit(x)
    BY <1>0, <1>1, StartFails DEF FailCommit
<1>2. CASE CommitHome(x) /\ binding # Nobody
  <2>1. owner # Nobody
      BY <1>0, ProfileAssumption DEF Steady
  <2> QED BY <1>0, <1>2, <2>1, CompletesMove DEF CommitHome
<1>3. CASE CommitHome(x) /\ binding = Nobody
  <2>0. PICK l : l = [launch[x] EXCEPT !.at = "serve"]
      OBVIOUS
  <2>1. l \in LaunchRecords /\ l.at = "serve" /\ l.context = launch[x].context
      BY <1>0, <2>0 DEF LaunchRecords
  <2>2. /\ binding' = l.context.id /\ launch' = [launch EXCEPT ![x] = l]
        /\ UNCHANGED <<owner, move, holder>>
      BY <1>3, <2>0, <2>1 DEF CommitHome, Proceed
  <2>3. /\ l.context.id \in Profiles /\ l.context.id # Nobody /\ kept = {} /\ move = NoMove
        /\ partitions[l.context.id] # Missing /\ owner = l.context.id
      BY <1>0, <1>3, <2>1, ProfileAssumption DEF Steady, JournalTrue
  <2>4. JournalTrue' /\ Steady(l, x)'
      BY <1>0, <2>1, <2>2, <2>3 DEF JournalTrue, HoldsAll, Steady, Moving, Phases, Identities
  <2> QED BY <1>0, <1>3, <2>1, <2>2, <2>3, <2>4, RunSteps DEF HomeTyped, Identities
<1> QED BY <1>1, <1>2, <1>3

LEMMA ConverseSteps ==
    ASSUME HomeInv, NEW x \in Launches, NEW t \in Transcripts, Converse(x, t)
    PROVE  HomeInv'
<1> DEFINE c == launch[x].context
<1>0. /\ UNCHANGED <<shipped, binding, owner, move, holder, launch>> /\ HomeTyped /\ JournalTrue
      /\ launch[x].at = "serve" /\ Steady(launch[x], x)
      /\ holder = x /\ launch[x] \in LaunchRecords
    BY Working DEF Converse, Is, HomeInv
<1>1. CASE Ephemeral(c)
  <2>1. partitions' = partitions /\ kept' = kept
      BY <1>1 DEF Converse, Ephemeral
  <2>2. launch' = launch
      BY <1>0
  <2> QED BY <1>0, <2>1, <2>2 DEF HomeInv, HomeTyped, JournalTrue, HoldsAll, Steady, InPhase
<1>2. CASE ~Ephemeral(c)
  <2>1. partitions' = [partitions EXCEPT ![c.id] = Opened(c.id) \cup {t}]
      BY <1>2 DEF Converse
  <2>2. IF c.broken THEN kept' = kept ELSE kept' = kept \cup {t}
      BY DEF Converse
  <2>3. c.id \in Identities
      BY <1>0, <1>2 DEF Ephemeral, Steady, Identities
  <2>4. /\ partitions' \in [Identities -> (SUBSET Transcripts) \cup {Missing}]
        /\ partitions'[c.id] = Opened(c.id) \cup {t}
        /\ \A id \in Identities : id # c.id => partitions'[id] = partitions[id]
      BY <1>0, <2>1, <2>3 DEF HomeTyped, Opened
  <2>5. partitions'[c.id] # Missing /\ (partitions[c.id] # Missing => partitions[c.id] \subseteq partitions'[c.id])
    <3>1. Opened(c.id) \cup {t} \in SUBSET Transcripts
        BY <1>0, <2>3 DEF HomeTyped, Opened
    <3>2. Opened(c.id) \cup {t} # Missing
        BY <3>1, ProfileAssumption
    <3>3. partitions[c.id] # Missing => partitions[c.id] \subseteq Opened(c.id) \cup {t}
        BY DEF Opened
    <3> HIDE DEF c
    <3> QED BY <2>4, <3>2, <3>3
  <2>6. kept' \subseteq Transcripts
      BY <1>0, <2>2 DEF HomeTyped
  <2>7. ~c.broken => c.id = binding /\ binding # Nobody /\ move = NoMove
      BY <1>0 DEF Steady
  <2>8. JournalTrue'
    <3>1. CASE c.broken
      <4>1. \A id \in Identities : HoldsAll(id) => HoldsAll(id)'
          BY <2>2, <2>4, <2>5, <3>1 DEF HoldsAll
      <4>2. move # NoMove => move.to \in Identities
          BY <1>0 DEF HomeTyped, Moves, Identities
      <4> QED BY <1>0, <2>2, <3>1, <4>1, <4>2 DEF HomeTyped, JournalTrue
    <3>2. CASE ~c.broken
      <4>1. HoldsAll(binding)'
          BY <1>0, <2>2, <2>4, <2>5, <2>7, <3>2 DEF JournalTrue, HoldsAll
      <4> QED BY <1>0, <2>7, <3>2, <4>1 DEF JournalTrue
    <3> QED BY <3>1, <3>2
  <2>9. ASSUME NEW y \in Launches PROVE Steady(launch[y], y)'
    <3>1. CASE y = x
      <4>1. launch'[y] = launch[x]
          BY <1>0, <3>1
      <4> QED BY <1>0, <3>1, <4>1 DEF Steady, Moving, Phases
    <3>2. CASE y # x
      <4>1. launch[y].at \in {"off", "inspected"} /\ launch'[y] = launch[y] /\ Steady(launch[y], y)
          BY <1>0, <3>2, OthersIdle DEF HomeInv
      <4> QED BY <1>0, <4>1 DEF Steady, Moving, Phases
    <3> QED BY <3>1, <3>2
  <2> QED BY <1>0, <2>4, <2>6, <2>8, <2>9 DEF HomeInv, HomeTyped
<1> QED BY <1>1, <1>2

LEMMA OutsideSteps ==
    ASSUME HomeInv, Ship \/ Authorize
    PROVE  HomeInv'
<1>0. HomeTyped /\ JournalTrue /\ UNCHANGED <<binding, owner, partitions, holder, launch, kept>>
    BY DEF HomeInv, Ship, Authorize
<1>1. CASE Ship
  <2>1. shipped' \in Profiles \cup {Unreadable} /\ UNCHANGED move
      BY <1>1 DEF Ship
  <2> QED BY <1>0, <2>1 DEF HomeInv, HomeTyped, JournalTrue, HoldsAll, Steady, InPhase
<1>2. CASE Authorize
  <2>1. /\ holder = Nobody /\ binding # Nobody /\ shipped \in Profiles /\ binding \in Identities
        /\ binding # shipped /\ move' = Move(binding, shipped, "started") /\ UNCHANGED shipped
      BY <1>0, <1>2 DEF Authorize, HomeTyped
  <2>2. move' \in Moves
      BY <2>1 DEF Move, Moves, Phases
  <2>3. JournalTrue'
      BY <1>0, <2>1 DEF JournalTrue, HoldsAll, Move
  <2>4. ASSUME NEW y \in Launches PROVE Steady(launch[y], y)'
    <3>1. launch[y].at \in {"off", "inspected"} /\ launch'[y] = launch[y] /\ Steady(launch[y], y)
        BY <1>0, <2>1, ProfileAssumption DEF HomeInv, Steady
    <3> QED BY <1>0, <3>1 DEF Steady, Moving, Phases
  <2> QED BY <1>0, <2>1, <2>2, <2>3, <2>4 DEF HomeInv, HomeTyped
<1> QED BY <1>1, <1>2

LEMMA HomeSteps == HomeInv /\ [ProfileNext]_homeVars => HomeInv'
<1> SUFFICES ASSUME HomeInv, [ProfileNext]_homeVars PROVE HomeInv'
    OBVIOUS
<1>1. CASE UNCHANGED homeVars
    BY <1>1 DEF homeVars, HomeInv, HomeTyped, JournalTrue, HoldsAll, Steady, InPhase
<1>2. ASSUME NEW x \in Launches, Launch(x) PROVE HomeInv'
    BY <1>2, ComesUp, RunEnds, BeginSteps, CopySteps, StampSteps, MoveEnds, ClaimSteps, CommitSteps,
       ConverseSteps DEF Launch
<1>3. CASE Ship \/ Authorize
    BY <1>3, OutsideSteps
<1> QED BY <1>1, <1>2, <1>3 DEF ProfileNext

(* Whichever step a death, an upgrade or a second start falls into, the    *)
(* partition the home is bound to holds every transcript a normal run has  *)
(* written, and a normal run converses there, under the home's own stamp.  *)
THEOREM HistoryFollowsTheHome == ProfileSpec => []HistoryFollows
<1>1. HomeInv => HistoryFollows
    BY DEF HomeInv, JournalTrue, HoldsAll, Steady, HistoryFollows, Is
<1> QED BY HomeBegins, HomeSteps, <1>1, PTL DEF ProfileSpec
-------------------------------------------------------------------------------
(***************************************************************************)
(* The registry as the compatibility rules of activation keep it.  Rows    *)
(* have keys of their own and versions that are numbers; active rows of    *)
(* different owners claim nothing in common; and what does not live in the *)
(* host has an owner its provenance allows and draws nothing in the        *)
(* console, since every candidate runs alone.                              *)
(***************************************************************************)
KeysUnique == \A r, q \in entries : <<r.owner, r.version>> = <<q.owner, q.version>> => r = q

ClaimsApart ==
    \A r, q \in entries :
        r.status = "active" /\ q.status = "active" /\ r.owner # q.owner => r.claims \cap q.claims = {}

Outside(r) ==
    r.owner \notin HostOwned =>
        /\ r.owner[1] \in {"generated", "third-party", "managed"}
        /\ \A c \in r.claims : ~HostProduct(c)

DraftInv(d) ==
    /\ d.version \in Nat
    /\ <<d.kind, d.origin>> \in
          {<<"generated", "assistant">>, <<"managed", "assistant">>, <<"third-party", "import">>}

IsRow(r) ==
    /\ r = [owner |-> r.owner, version |-> r.version, kind |-> r.kind, origin |-> r.origin,
            claims |-> r.claims, seams |-> r.seams, provider |-> r.provider, status |-> r.status]
    /\ r.version \in Nat /\ r.status \in {"active", "disabled"}

ResolutionInv ==
    /\ \A r \in entries : IsRow(r) /\ Outside(r)
    /\ KeysUnique /\ ClaimsApart
    /\ \A d \in drafts : DraftInv(d)
    /\ catalog \in Catalogs

LEMMA CoreRowsAre ==
    /\ \A r \in CoreRows :
          /\ IsRow(r) /\ r.owner \in HostOwned
          /\ \/ r.owner = Managed("integrations") /\ (\A c \in r.claims : DomainOf[c] = "calendar")
             \/ r.owner = Managed("surface") /\ (\A c \in r.claims : DomainOf[c] = "ui")
    /\ \A r, q \in CoreRows : r.owner = q.owner => r = q
    /\ HostOwned = {Managed("integrations"), Managed("surface")}
    /\ Managed("integrations") # Managed("surface")
<1> DEFINE a == Row(Managed("integrations"), 1, "managed", "human",
                    {c \in Capabilities : DomainOf[c] = "calendar"}, {"calendar"}, "fake")
           b == Row(Managed("surface"), 1, "managed", "human",
                    {c \in Capabilities : DomainOf[c] = "ui"}, {"ui"}, NoProvider)
<1>1. CoreRows = {a, b}
  BY DEF CoreRows
<1>2. /\ IsRow(a) /\ a.owner = Managed("integrations") /\ \A c \in a.claims : DomainOf[c] = "calendar"
      /\ IsRow(b) /\ b.owner = Managed("surface") /\ \A c \in b.claims : DomainOf[c] = "ui"
  BY DEF Row, IsRow
<1>3. Managed("integrations") # Managed("surface")
  BY DEF Managed
<1> HIDE DEF a, b
<1>4. HostOwned = {Managed("integrations"), Managed("surface")}
  BY <1>1, <1>2 DEF HostOwned
<1>5. \A r, q \in CoreRows : r.owner = q.owner => r = q
  BY <1>1, <1>2, <1>3
<1>6. ASSUME NEW r \in CoreRows
      PROVE  /\ IsRow(r) /\ r.owner \in HostOwned
             /\ \/ r.owner = Managed("integrations") /\ (\A c \in r.claims : DomainOf[c] = "calendar")
                \/ r.owner = Managed("surface") /\ (\A c \in r.claims : DomainOf[c] = "ui")
  <2>1. CASE r = a
    BY <1>2, <1>4, <2>1
  <2>2. CASE r = b
    BY <1>2, <1>4, <2>2
  <2> QED
    BY <1>1, <2>1, <2>2
<1> QED
  BY <1>3, <1>4, <1>5, <1>6

LEMMA ResolutionStarts ==
    ASSUME ResolutionInit
    PROVE  ResolutionInv
<1>1. entries = CoreRows /\ drafts = {} /\ catalog \in Catalogs
  BY DEF ResolutionInit
<1>2. KeysUnique
  BY <1>1, CoreRowsAre DEF KeysUnique
<1>3. ClaimsApart
  BY <1>1, CoreRowsAre DEF ClaimsApart
<1> QED
  BY <1>1, <1>2, <1>3, CoreRowsAre DEF ResolutionInv, Outside

(* Every candidate runs alone, so what the compatibility rules accept      *)
(* stays outside of the host and of the console.                           *)
LEMMA DraftsRunAlone ==
    ASSUME NEW d, DraftInv(d)
    PROVE  RanAlone(d)
  BY DEF DraftInv, RanAlone

(* The version an advice names is one of a row or of an offer.             *)
LEMMA AdviceIs ==
    ASSUME ResolutionInv, NEW cap \in Capabilities, NEW behavior \in BOOLEAN, NEW complete \in BOOLEAN,
           NEW advice \in Reviews(cap, behavior, complete), advice.kind \in ChangeKinds
    PROVE  \/ advice.version = NoBase /\ advice.kind \in {"new-plugin", "implement-provider"}
           \/ advice.version \in Nat /\ advice.kind # "new-plugin"
<1>1. PICK holders \in Holders(cap) : advice \in Ladder(cap, behavior, complete, holders)
  BY DEF Reviews
<1>2. holders \subseteq entries
  BY <1>1 DEF Holders, OwnersOf, InDomain, Mentioned, ActiveRows
<1>3. \A r \in entries : r.version \in Nat
  BY DEF ResolutionInv, IsRow
<1>4. \A o \in Plugins(cap) : o.version \in Nat
  BY ResolutionAssumption DEF ResolutionInv, Plugins, Found
<1>5. Inactive(cap) \subseteq entries
  BY DEF Inactive, Mentioned
<1>6. CASE advice \in Otherwise(cap, complete, holders)
  BY <1>2, <1>3, <1>4, <1>5, <1>6 DEF Otherwise, NoTarget, Of, Advice, ChangeKinds
<1>7. CASE advice \notin Otherwise(cap, complete, holders)
  BY <1>1, <1>2, <1>3, <1>7 DEF Ladder, NoTarget, Of, Advice, ChangeKinds
<1> QED
  BY <1>6, <1>7

LEMMA CandidateMade ==
    ASSUME ResolutionInv, NEW cap \in Capabilities, NEW behavior \in BOOLEAN, CreateCandidate(cap, behavior)
    PROVE  ResolutionInv'
<1>1. PICK advice \in Reviews(cap, behavior, TRUE) : \E claims :
          /\ advice.kind \in ChangeKinds
          /\ advice.kind = "implement-provider" => advice.version # NoBase
          /\ drafts' = drafts \cup {DraftOf(advice, cap, claims, advice.owner[1] # "third-party")}
          /\ UNCHANGED <<entries, catalog>>
  BY DEF CreateCandidate
<1> PICK claims : drafts' = drafts \cup {DraftOf(advice, cap, claims, advice.owner[1] # "third-party")}
  BY <1>1
<1> DEFINE d == DraftOf(advice, cap, claims, advice.owner[1] # "third-party")
<1>2. \/ advice.version = NoBase /\ advice.kind = "new-plugin"
      \/ advice.version \in Nat /\ advice.kind # "new-plugin"
  BY <1>1, AdviceIs
<1>3. d.version \in Nat /\ d.kind = ProvenanceOf(advice.kind, IF advice.kind = "new-plugin" THEN <<"generated", cap>> ELSE advice.owner)[1]
      /\ d.origin = ProvenanceOf(advice.kind, IF advice.kind = "new-plugin" THEN <<"generated", cap>> ELSE advice.owner)[2]
  BY <1>2 DEF DraftOf
<1>4. DraftInv(d)
  BY <1>3 DEF DraftInv, ProvenanceOf
<1> QED
  BY <1>1, <1>4 DEF ResolutionInv, KeysUnique, ClaimsApart

LEMMA BundleImported ==
    ASSUME ResolutionInv, NEW claims \in Wishes, ImportBundle(claims)
    PROVE  ResolutionInv'
  BY DEF ImportBundle, ResolutionInv, KeysUnique, ClaimsApart, DraftInv

LEMMA RowDisabled ==
    ASSUME NEW r, IsRow(r), NEW q, q = [r EXCEPT !.status = "disabled"]
    PROVE  /\ IsRow(q) /\ q.owner = r.owner /\ q.version = r.version /\ q.claims = r.claims
           /\ q.status = "disabled"
<1>1. q = [owner |-> r.owner, version |-> r.version, kind |-> r.kind, origin |-> r.origin,
           claims |-> r.claims, seams |-> r.seams, provider |-> r.provider, status |-> "disabled"]
  BY DEF IsRow
<1> QED
  BY <1>1 DEF IsRow

LEMMA DraftActivated ==
    ASSUME ResolutionInv, NEW d \in drafts, ActivateDraft(d)
    PROVE  ResolutionInv'
<1> DEFINE Off(r) == IF r.owner = d.owner /\ r.status = "active" THEN [r EXCEPT !.status = "disabled"] ELSE r
           others == {x \in entries : <<x.owner, x.version>> # <<d.owner, d.version>>}
           new == RowOf(d)
<1>1. /\ entries' = {Off(r) : r \in others} \cup {new} /\ UNCHANGED <<drafts, catalog>>
      /\ WellFormed(d) /\ Compatible(d, d.asked) /\ MayBeActive(d)
  BY DEF ActivateDraft
<1>2. DraftInv(d) /\ RanAlone(d)
  BY DraftsRunAlone DEF ResolutionInv
<1>3. /\ IsRow(new) /\ new.owner = d.owner /\ new.version = d.version /\ new.claims = d.claims
      /\ new.status = "active"
  BY <1>2 DEF RowOf, Row, IsRow, DraftInv
<1>4. Outside(new)
  <2>1. d.owner \notin HostOwned /\ \A c \in d.claims : ~HostProduct(c)
    BY <1>1, <1>2 DEF Compatible
  <2>2. d.owner[1] \in {"generated", "third-party", "managed"}
    BY <1>1, <1>2 DEF WellFormed, DraftInv
  <2> QED
    BY <1>3, <2>1, <2>2 DEF Outside
<1> HIDE DEF new
<1>5. ASSUME NEW r \in others
      PROVE  /\ IsRow(Off(r)) /\ Off(r).owner = r.owner /\ Off(r).version = r.version /\ Off(r).claims = r.claims
             /\ Off(r).status = "active" => r.status = "active" /\ r.owner # d.owner
             /\ r \in entries /\ Outside(r)
  <2>1. r \in entries /\ IsRow(r) /\ Outside(r)
    BY DEF ResolutionInv
  <2>2. PICK q : q = [r EXCEPT !.status = "disabled"]
    OBVIOUS
  <2>3. IsRow(q) /\ q.owner = r.owner /\ q.version = r.version /\ q.claims = r.claims /\ q.status = "disabled"
    BY <2>1, <2>2, RowDisabled
  <2> QED
    BY <2>1, <2>2, <2>3
<1> HIDE DEF Off
<1>6. ASSUME NEW r \in entries'
      PROVE  IsRow(r) /\ Outside(r)
  <2>1. CASE r = new
    BY <1>3, <1>4, <2>1
  <2>2. ASSUME NEW q \in others, r = Off(q)
        PROVE  IsRow(r) /\ Outside(r)
    BY <1>5, <2>2 DEF Outside
  <2> QED
    BY <1>1, <2>1, <2>2
<1>7. KeysUnique'
  <2> SUFFICES ASSUME NEW r \in entries', NEW q \in entries', <<r.owner, r.version>> = <<q.owner, q.version>>
               PROVE  r = q
    BY DEF KeysUnique
  <2>1. CASE r = new /\ q = new
    BY <2>1
  <2>2. ASSUME NEW x \in others, Off(x) \in {r, q}, new \in {r, q}
        PROVE  FALSE
    <3>1. Off(x).owner = d.owner /\ Off(x).version = d.version
      BY <1>3, <2>2
    <3> QED
      BY <1>5, <3>1
  <2>3. ASSUME NEW x \in others, NEW y \in others, r = Off(x), q = Off(y)
        PROVE  r = q
    BY <1>5, <2>3 DEF ResolutionInv, KeysUnique
  <2> QED
    BY <1>1, <2>1, <2>2, <2>3
<1>8. ClaimsApart'
  <2> SUFFICES ASSUME NEW r \in entries', NEW q \in entries', r.status = "active", q.status = "active",
                      r.owner # q.owner
               PROVE  r.claims \cap q.claims = {}
    BY DEF ClaimsApart
  <2>1. ASSUME NEW x \in others, Off(x).status = "active"
        PROVE  Off(x).claims \cap new.claims = {}
    <3>1. x \in ActiveRows /\ x.owner # d.owner
      BY <1>5, <2>1 DEF ActiveRows
    <3> QED
      BY <1>1, <1>3, <1>5, <3>1 DEF MayBeActive
  <2>2. ASSUME NEW x \in others, NEW y \in others, r = Off(x), q = Off(y)
        PROVE  r.claims \cap q.claims = {}
    BY <1>5, <2>2 DEF ResolutionInv, ClaimsApart
  <2> QED
    BY <1>1, <2>1, <2>2
<1> QED
  BY <1>1, <1>6, <1>7, <1>8 DEF ResolutionInv

LEMMA RowOff ==
    ASSUME ResolutionInv, NEW row \in entries, DisableRow(row)
    PROVE  ResolutionInv'
<1>1. PICK q : q = [row EXCEPT !.status = "disabled"]
  OBVIOUS
<1>2. entries' = (entries \ {row}) \cup {q} /\ UNCHANGED <<drafts, catalog>>
  BY <1>1 DEF DisableRow
<1>3. IsRow(q) /\ q.owner = row.owner /\ q.version = row.version /\ q.claims = row.claims /\ q.status = "disabled"
  BY <1>1, RowDisabled DEF ResolutionInv
<1>4. Outside(q)
  BY <1>3 DEF ResolutionInv, Outside
<1>5. KeysUnique'
  BY <1>2, <1>3 DEF ResolutionInv, KeysUnique
<1>6. ClaimsApart'
  BY <1>2, <1>3 DEF ResolutionInv, ClaimsApart
<1> QED
  BY <1>2, <1>3, <1>4, <1>5, <1>6 DEF ResolutionInv

LEMMA EvolutionWorks ==
    ASSUME ResolutionInv, NEW cap \in Capabilities, NEW behavior \in BOOLEAN, NEW complete \in BOOLEAN,
           NEW advice \in Reviews(cap, behavior, complete), advice.kind = "evolve-owner"
    PROVE  LET draft == AdvisedDraft(advice, cap)
           IN  WellFormed(draft) /\ Compatible(draft, cap) /\ MayBeActive(draft)
<1>1. PICK holders \in Holders(cap) : advice \in Ladder(cap, behavior, complete, holders)
  BY DEF Reviews
<1>2. advice \notin Otherwise(cap, complete, holders)
  BY DEF Otherwise, NoTarget, Of, Advice
<1>3. PICK r \in holders : /\ Evolvable(r) /\ advice = Of("evolve-owner", r) /\ ~HostProduct(cap)
  BY <1>1, <1>2 DEF Ladder, NoTarget, Of, Advice
<1>4. /\ r \in entries /\ r.status = "active"
      /\ OwnersOf(cap) # {} => cap \in r.claims
  BY <1>1, <1>3 DEF Holders, OwnersOf, InDomain, Mentioned, ActiveRows
<1>5. advice.owner = r.owner /\ advice.version = r.version
  BY <1>3 DEF Of, Advice
<1>6. HeldBy(advice) = r.claims
  BY <1>4, <1>5 DEF HeldBy, ResolutionInv, KeysUnique
<1>7. /\ r.owner \notin HostOwned /\ r.owner[1] \in {"generated", "third-party", "managed"}
      /\ \A c \in r.claims : ~HostProduct(c)
  BY <1>3, <1>4 DEF Evolvable, ResolutionInv, Outside
<1> DEFINE d == AdvisedDraft(advice, cap)
<1>8. /\ d.owner = r.owner /\ d.claims = r.claims \cup {cap}
      /\ d.kind = ProvenanceOf("evolve-owner", r.owner)[1] /\ d.origin = ProvenanceOf("evolve-owner", r.owner)[2]
  BY <1>3, <1>5, <1>6 DEF AdvisedDraft, DraftOf, Of, Advice
<1> HIDE DEF d
<1>9. WellFormed(d)
  BY <1>7, <1>8 DEF WellFormed, ProvenanceOf
<1>10. Compatible(d, cap)
  BY <1>3, <1>7, <1>8 DEF Compatible
<1>11. MayBeActive(d)
  <2> SUFFICES ASSUME NEW q \in ActiveRows, q.owner # r.owner
               PROVE  q.claims \cap (r.claims \cup {cap}) = {}
    BY <1>8 DEF MayBeActive
  <2>1. q.claims \cap r.claims = {}
    BY <1>4 DEF ActiveRows, ResolutionInv, ClaimsApart
  <2>2. cap \notin q.claims
    BY <1>4, <2>1 DEF OwnersOf, Mentioned, ActiveRows
  <2> QED
    BY <2>1, <2>2
<1> QED
  BY <1>9, <1>10, <1>11 DEF d

LEMMA NewPluginWorks ==
    ASSUME ResolutionInv, NEW cap \in Capabilities, NEW behavior \in BOOLEAN, NEW complete \in BOOLEAN,
           NEW advice \in Reviews(cap, behavior, complete), advice.kind = "new-plugin"
    PROVE  LET draft == AdvisedDraft(advice, cap)
           IN  WellFormed(draft) /\ Compatible(draft, cap) /\ MayBeActive(draft)
<1>1. PICK holders \in Holders(cap) : advice \in Ladder(cap, behavior, complete, holders)
  BY DEF Reviews
<1>2. ~HostProduct(cap) /\ advice \in Otherwise(cap, complete, holders)
  BY <1>1 DEF Ladder, NoTarget, Of, Advice
<1>3. holders = {}
  BY <1>2 DEF Otherwise, NoTarget, Of, Advice
<1>4. OwnersOf(cap) = {}
  BY <1>1, <1>3 DEF Holders
<1>5. advice.version = NoBase
  BY <1>2 DEF Otherwise, NoTarget, Of, Advice
<1>6. HeldBy(advice) = {}
  BY <1>5, ResolutionAssumption DEF HeldBy, ResolutionInv, IsRow
<1> DEFINE d == AdvisedDraft(advice, cap)
<1>7. /\ d.owner = <<"generated", cap>> /\ d.claims = {cap} /\ d.kind = "generated" /\ d.origin = "assistant"
  BY <1>6 DEF AdvisedDraft, DraftOf, ProvenanceOf
<1> HIDE DEF d
<1>8. WellFormed(d)
  BY <1>7 DEF WellFormed
<1>9. Compatible(d, cap)
  BY <1>2, <1>7, CoreRowsAre DEF Compatible, Managed
<1>10. MayBeActive(d)
  BY <1>4, <1>7 DEF MayBeActive, OwnersOf, Mentioned, ActiveRows
<1> QED
  BY <1>8, <1>9, <1>10 DEF d

(* What the review advises to evolve or to make new can be made, registered*)
(* and activated (CapabilityResolutionService.review on the rules of       *)
(* activation-compatibility and of the registry), in every state any       *)
(* history of candidates, imports, activations and disablings leads to.    *)
THEOREM AdviceAlwaysWorks ==
    ResolutionInit /\ [][ResolutionNext]_resolutionVars => []AdviceWorks /\ AdviceFollowed
<1>1. ResolutionInit => ResolutionInv
  BY ResolutionStarts
<1>2. ASSUME ResolutionInv, [ResolutionNext]_resolutionVars PROVE ResolutionInv'
  <2>1. CASE UNCHANGED resolutionVars
    BY <1>2, <2>1 DEF resolutionVars, ResolutionInv, KeysUnique, ClaimsApart
  <2>2. CASE ResolutionNext
    BY <1>2, <2>2, CandidateMade, BundleImported, DraftActivated, RowOff DEF ResolutionNext
  <2> QED
    BY <1>2, <2>1, <2>2
<1>3. ResolutionInv => AdviceWorks
  BY EvolutionWorks, NewPluginWorks DEF AdviceWorks
<1>4. AdviceWorks' => (UNCHANGED resolutionVars \/ AdviceWorks')
  OBVIOUS
<1> QED
  BY <1>1, <1>2, <1>3, <1>4, PTL DEF AdviceFollowed
=============================================================================
