------------------------------ MODULE TaskControl ------------------------------
(***************************************************************************)
(* agent-task-control.ts: the goal, the plan mode and the questions of the *)
(* agents, as the console controls them.  DSH keeps the goals and the plan *)
(* mode; the product bounds the goals, refuses the tools that write while  *)
(* a plan is made and holds the questions of the agents until their user   *)
(* answers.                                                                *)
(***************************************************************************)
EXTENDS Naturals

CONSTANTS
    Agents,
    Questions,        \* the questions asked, each once
    QuestionOf,       \* the agent that asks it
    Notified,         \* those asked with a signal that is not aborted yet
    MaxGoalRevision   \* bound on the revisions of a goal

ASSUME TaskAssumption ==
    /\ QuestionOf \in [Questions -> Agents] /\ Notified \subseteq Questions
    /\ MaxGoalRevision \in Nat

VARIABLES
    goal,        \* each agent's goal: its phase and revision
    plan,        \* plan mode: what is in force, and what was asked for meanwhile
    question,    \* "none", "waiting", "answered", "cancelled" or "refused"
    held,        \* pending: the questions a user can answer
    stepOver,    \* the questions whose step was cancelled
    channel,     \* the question channel is open
    executing    \* a tool the agent executes: "none", "read" or "write"

taskVars == <<goal, plan, question, held, stepOver, channel, executing>>

NoGoal == [phase |-> "none", revision |-> 0]

TaskInit ==
    /\ goal = [g \in Agents |-> NoGoal]
    /\ plan = [g \in Agents |-> [active |-> FALSE, pending |-> "none"]]
    /\ question = [q \in Questions |-> "none"]
    /\ held = {} /\ stepOver = {} /\ channel = TRUE
    /\ executing = [g \in Agents |-> "none"]

-----------------------------------------------------------------------------
(* Goals, at an exact revision                                             *)

Revise(g, phase) ==
    /\ goal[g].revision < MaxGoalRevision
    /\ goal' = [goal EXCEPT ![g] = [phase |-> phase, revision |-> @.revision + 1]]
    /\ UNCHANGED <<plan, question, held, stepOver, channel, executing>>

(* create_goal and the driver's verdict on the goal. *)
AgentGoal(g) ==
    \/ goal[g].phase = "none" /\ Revise(g, "active")
    \/ goal[g].phase = "active" /\ \E phase \in {"complete", "blocked"} : Revise(g, phase)

(* controlGoal: the plan mode is not asked. *)
ControlGoal(g, revision) ==
    /\ revision = goal[g].revision
    /\ \/ goal[g].phase = "active" /\ Revise(g, "paused")
       \/ goal[g].phase \in {"paused", "blocked"} /\ Revise(g, "active")

-----------------------------------------------------------------------------
(* Plan mode                                                               *)

Enforced(g) == IF plan[g].pending = "none" THEN plan[g].active ELSE plan[g].pending = "on"

(* inspect: the question of an agent that its user sees. *)
HeldOf(g) == {q \in held : QuestionOf[q] = g}

(* controlPlanMode; what is asked for in the middle of a step is pending.  *)
ControlPlan(g, on) ==
    /\ ~on => HeldOf(g) = {}
    /\ on => goal[g].phase # "active"
    /\ plan' = [plan EXCEPT ![g] =
                  IF executing[g] = "none" THEN [active |-> on, pending |-> "none"]
                                           ELSE [@ EXCEPT !.pending = IF on THEN "on" ELSE "off"]]
    /\ UNCHANGED <<goal, question, held, stepOver, channel, executing>>

(* tools/pre-execute: a tool that is not a read is denied. *)
ExecuteTool(g, kind) ==
    /\ executing[g] = "none"
    /\ kind = "write" => ~Enforced(g)
    /\ executing' = [executing EXCEPT ![g] = kind]
    /\ UNCHANGED <<goal, plan, question, held, stepOver, channel>>

(* The step ends and takes what was pending. *)
ToolEnds(g) ==
    /\ executing[g] # "none" /\ executing' = [executing EXCEPT ![g] = "none"]
    /\ plan' = [plan EXCEPT ![g] = [active |-> Enforced(g), pending |-> "none"]]
    /\ UNCHANGED <<goal, question, held, stepOver, channel>>

-----------------------------------------------------------------------------
(* Questions                                                               *)

AskQuestion(q) ==
    /\ question[q] = "none" /\ channel
    /\ IF HeldOf(QuestionOf[q]) = {}
       THEN question' = [question EXCEPT ![q] = "waiting"] /\ held' = held \cup {q}
       ELSE question' = [question EXCEPT ![q] = "refused"] /\ UNCHANGED held
    /\ UNCHANGED <<goal, plan, stepOver, channel, executing>>

AnswerQuestion(g, q) ==
    /\ q \in HeldOf(g)
    /\ held' = held \ {q} /\ question' = [question EXCEPT ![q] = "answered"]
    /\ UNCHANGED <<goal, plan, stepOver, channel, executing>>

(* Fault: an aborted question stays with the broker. *)
WithdrawnLeft(q) == question' = [question EXCEPT ![q] = "cancelled"] /\ UNCHANGED held

Withdrawn(q) == question' = [question EXCEPT ![q] = "cancelled"] /\ held' = held \ {q}

(* The signal of the step aborts; one that was aborted before the question *)
(* came has no listener to call.                                           *)
CancelStep(q) ==
    /\ q \notin stepOver /\ stepOver' = stepOver \cup {q}
    /\ IF q \in held /\ q \in Notified THEN Withdrawn(q) ELSE UNCHANGED <<question, held>>
    /\ UNCHANGED <<goal, plan, channel, executing>>

(* dispose: the runtime ends. *)
CloseChannel ==
    /\ channel /\ channel' = FALSE /\ held' = {}
    /\ question' = [q \in Questions |-> IF q \in held THEN "cancelled" ELSE question[q]]
    /\ UNCHANGED <<goal, plan, stepOver, executing>>

TaskNext ==
    \/ CloseChannel
    \/ \E q \in Questions :
          AskQuestion(q) \/ CancelStep(q) \/ (\E g \in Agents : AnswerQuestion(g, q))
    \/ \E g \in Agents :
          \/ AgentGoal(g) \/ ToolEnds(g)
          \/ \E revision \in 1 .. MaxGoalRevision : ControlGoal(g, revision)
          \/ \E on \in BOOLEAN : ControlPlan(g, on)
          \/ \E kind \in {"read", "write"} : ExecuteTool(g, kind)

TaskSpec == TaskInit /\ [][TaskNext]_taskVars
-----------------------------------------------------------------------------
(* A question that still waits is the one its user is shown, and what is   *)
(* shown still waits: no agent is left waiting for an answer nobody can    *)
(* give.                                                                   *)
QuestionsHeard ==
    /\ held = {q \in Questions : question[q] = "waiting"}
    /\ \A q, r \in held : QuestionOf[q] = QuestionOf[r] => q = r
=============================================================================
