---------------------------- MODULE GeneratedRunner ----------------------------
(***************************************************************************)
(* IsolatedGeneratedRunner: the host's side of one generated extension,    *)
(* which runs in a child process.  A tool call is a line to the child and  *)
(* waits for the line that answers it; while it waits the child may ask    *)
(* for host operations on its behalf, which the broker runs.  The lines of *)
(* the child are those of generated code: any line, at any time.  A line   *)
(* can be read long after it was written, after the child was killed and   *)
(* after its exit was seen.                                                *)
(***************************************************************************)
EXTENDS Naturals, Sequences

CONSTANTS
    RunnerCalls,    \* tool calls
    MaxLines        \* bound on the lines of the child

ASSUME RunnerAssumption == MaxLines \in Nat

VARIABLES
    process,      \* the child: "none", "alive", "killed" or "gone"
    start,        \* what start() said: "none", "waiting", "ok" or "failed"
    fatal,        \* failClosed was called
    call,         \* "none", "waiting", "leaving" (awaits the exit), "ok" or "error"
    bound,        \* brokerExecutions: the calls operations may run for
    aborted,      \* the calls whose signal is aborted
    operation,    \* the host operation of each call: "none", "running" or "ended"
    pipe,         \* lines not yet read
    lines         \* how many the child wrote

runnerVars == <<process, start, fatal, call, bound, aborted, operation, pipe, lines>>

AskLine(c)    == [op |-> "broker-request", of |-> c]
AnswerLine(c) == [op |-> "answer", of |-> c]
Others    == {[op |-> "ready"], [op |-> "garbage"]}

ChildLines == {AskLine(c) : c \in RunnerCalls} \cup {AnswerLine(c) : c \in RunnerCalls} \cup Others

RunnerInit ==
    /\ process = "none" /\ start = "none" /\ fatal = FALSE
    /\ call = [c \in RunnerCalls |-> "none"]
    /\ bound = {} /\ aborted = {}
    /\ operation = [c \in RunnerCalls |-> "none"]
    /\ pipe = <<>> /\ lines = 0

(* failAll: every waiter is rejected; call() then waits for the exit of a  *)
(* runner that failed closed.                                              *)
FailAll(closed) ==
    /\ call' = [c \in RunnerCalls |->
                  IF call[c] # "waiting" THEN call[c] ELSE IF closed THEN "leaving" ELSE "error"]
    /\ start' = IF start = "waiting" THEN "failed" ELSE start
    /\ bound' = {}

KilledChild == IF process = "alive" THEN "killed" ELSE process

FailClosed ==
    /\ fatal' = TRUE /\ process' = KilledChild
    /\ FailAll(TRUE)

-----------------------------------------------------------------------------
(* Without isolation, with another digest or contract there is no child.   *)
RefuseStart ==
    /\ start = "none" /\ start' = "failed"
    /\ UNCHANGED <<process, fatal, call, bound, aborted, operation, pipe, lines>>

SpawnChild ==
    /\ start = "none" /\ start' = "waiting" /\ process' = "alive"
    /\ UNCHANGED <<fatal, call, bound, aborted, operation, pipe, lines>>

(* kill: the start timed out, or the runtime wants the runner gone. *)
KillChild ==
    /\ process = "alive" /\ process' = "killed"
    /\ FailAll(fatal)
    /\ UNCHANGED <<fatal, aborted, operation, pipe, lines>>

(* The exit event: the child crashed, stopped by itself or was killed. *)
ChildExit ==
    /\ process \in {"alive", "killed"} /\ process' = "gone"
    /\ FailAll(fatal)
    /\ UNCHANGED <<fatal, aborted, operation, pipe, lines>>

(* A call through the proxy; a signal that is already aborted is not       *)
(* noticed, and a killed child is still written to.                        *)
CallTool(c) ==
    /\ start = "ok" /\ call[c] = "none"
    /\ IF process = "gone"
       THEN /\ call' = [call EXCEPT ![c] = IF fatal THEN "leaving" ELSE "error"]
            /\ UNCHANGED bound
       ELSE call' = [call EXCEPT ![c] = "waiting"] /\ bound' = bound \cup {c}
    /\ UNCHANGED <<process, start, fatal, aborted, operation, pipe, lines>>

CallTimeout(c) ==
    /\ call[c] = "waiting"
    /\ FailClosed
    /\ UNCHANGED <<aborted, operation, pipe, lines>>

AbortCall(c) ==
    /\ c \notin aborted /\ aborted' = aborted \cup {c}
    /\ IF call[c] = "waiting" THEN FailClosed ELSE UNCHANGED <<process, start, fatal, call, bound>>
    /\ UNCHANGED <<operation, pipe, lines>>

(* The exit was handled, or ten seconds passed. *)
EndCall(c) ==
    /\ call[c] = "leaving" /\ call' = [call EXCEPT ![c] = "error"]
    /\ UNCHANGED <<process, start, fatal, bound, aborted, operation, pipe, lines>>

WriteLine(line) ==
    /\ process = "alive" /\ lines < MaxLines
    /\ pipe' = Append(pipe, line) /\ lines' = lines + 1
    /\ UNCHANGED <<process, start, fatal, call, bound, aborted, operation>>

-----------------------------------------------------------------------------
(* The lines, in their order                                               *)

(* Fault: an answered call keeps its binding. *)
AnsweredStillBound(c, outcome) ==
    /\ call' = IF call[c] = "waiting" THEN [call EXCEPT ![c] = outcome] ELSE call
    /\ UNCHANGED bound

AnsweredCall(c, outcome) ==
    IF call[c] = "waiting"
    THEN call' = [call EXCEPT ![c] = outcome] /\ bound' = bound \ {c}
    ELSE UNCHANGED <<call, bound>>

(* onLine with a request for the broker: an operation of an active call    *)
(* runs; any other request is denied.                                      *)
MayRun(c) == c \in bound /\ c \notin aborted

ReadLine(line) ==
    \/ /\ line.op = "ready"
       /\ start' = IF start = "waiting" THEN "ok" ELSE start
       /\ UNCHANGED <<process, fatal, call, bound, operation>>
    \/ /\ line.op = "garbage"
       /\ FailClosed
       /\ UNCHANGED operation
    \/ /\ line.op = "broker-request"
       /\ operation' = IF MayRun(line.of) THEN [operation EXCEPT ![line.of] = "running"] ELSE operation
       /\ UNCHANGED <<process, start, fatal, call, bound>>
    \/ /\ line.op = "answer"
       /\ \E outcome \in {"ok", "error"} : AnsweredCall(line.of, outcome)
       /\ UNCHANGED <<process, start, fatal, operation>>

(* onStdoutChunk: once the runner failed closed nothing is read. *)
NextLine ==
    /\ pipe # <<>> /\ pipe' = Tail(pipe)
    /\ IF fatal THEN UNCHANGED <<process, start, fatal, call, bound, operation>> ELSE ReadLine(Head(pipe))
    /\ UNCHANGED <<aborted, lines>>

(* The operation ends; what it found goes to the child, if there is one. *)
OperationEnds(c) ==
    /\ operation[c] = "running" /\ operation' = [operation EXCEPT ![c] = "ended"]
    /\ UNCHANGED <<process, start, fatal, call, bound, aborted, pipe, lines>>

RunnerNext ==
    \/ RefuseStart \/ SpawnChild \/ KillChild \/ ChildExit \/ NextLine
    \/ \E c \in RunnerCalls :
          CallTool(c) \/ CallTimeout(c) \/ AbortCall(c) \/ EndCall(c) \/ OperationEnds(c)
    \/ \E line \in ChildLines : WriteLine(line)

RunnerSpec == RunnerInit /\ [][RunnerNext]_runnerVars
-----------------------------------------------------------------------------
(* A host operation begins only on behalf of a tool call that still waits, *)
(* was not aborted and whose runner did not fail: neither a line that was  *)
(* late nor one for another call gets the host to act.                     *)
OperationsWanted ==
    [][\A c \in RunnerCalls :
          operation'[c] = "running" /\ operation[c] # "running" =>
            call[c] = "waiting" /\ c \notin aborted /\ ~fatal]_runnerVars
=============================================================================
