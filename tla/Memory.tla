--------------------------------- MODULE Memory ---------------------------------
(***************************************************************************)
(* MemoryService over its JSON file: the durable facts of the user.  Every *)
(* change rewrites the file; a start loads it record by record and refuses *)
(* the whole of it for one that does not parse.  An id can be old: the     *)
(* user's page, or the model, still knows a record that was edited since.  *)
(***************************************************************************)
EXTENDS Naturals

CONSTANTS
    MaxFacts,      \* bound on the records ever made
    Facts,         \* a statement with its polarity
    TopicKeys,
    MaxSaveFaults  \* bound on the failures of the file's write

ASSUME MemoryAssumption == MaxFacts \in Nat /\ MaxSaveFaults \in Nat

MemoryIds == 1 .. MaxFacts

(* The id of a replacement that was never made. *)
LostId == MaxFacts + 1

VARIABLES
    memory,        \* records, by id, in the order they were made
    memoryFile,    \* what memory.json holds
    serving,       \* the program runs, or a start failed
    saveFaults

memoryVars == <<memory, memoryFile, serving, saveFaults>>

(* An absent record has the status "none"; supersededBy 0 is no field. *)
NoFact == [status |-> "none", topic |-> "none", fact |-> "none", supersededBy |-> 0]

Present(records) == {i \in MemoryIds : records[i].status # "none"}
ActiveOn(topic) == {i \in Present(memory) : memory[i].status = "active" /\ memory[i].topic = topic}
NextId == {i \in MemoryIds : Present(memory) = 1 .. (i - 1)}

MemoryInit ==
    /\ memory = [i \in MemoryIds |-> NoFact] /\ memoryFile = memory
    /\ serving = "yes" /\ saveFaults = 0

(* flush: a write that fails leaves the file, and the memory as changed. *)
FlushMemory ==
    \/ memoryFile' = memory' /\ UNCHANGED saveFaults
    \/ saveFaults < MaxSaveFaults /\ saveFaults' = saveFaults + 1 /\ UNCHANGED memoryFile

Superseded(records, old, id) ==
    [i \in MemoryIds |->
        IF i \in old THEN [records[i] EXCEPT !.status = "superseded", !.supersededBy = id]
                     ELSE records[i]]

NewFact(topic, fact) == [status |-> "active", topic |-> topic, fact |-> fact, supersededBy |-> 0]

(* write: keep_both for the tool and the page, supersede_topic for others. *)
Remember(topic, fact, keepBoth) ==
    /\ serving = "yes"
    /\ \E id \in NextId :
          memory' = [Superseded(memory, IF keepBoth THEN {} ELSE ActiveOn(topic), id)
                       EXCEPT ![id] = NewFact(topic, fact)]
    /\ FlushMemory
    /\ UNCHANGED serving

(* Fault: an id of a deleted record is accepted. *)
ReplaceableAny(id) == memory[id].status # "none"

ReplaceableFact(id) == memory[id].status \notin {"none", "deleted"}

(* replace: the record is superseded before the new statement is looked at;*)
(* an empty one ends the call there, without a flush.                      *)
EditFact(id, fact) ==
    /\ serving = "yes" /\ ReplaceableFact(id)
    /\ \E new \in NextId :
          memory' = [Superseded(memory, {id}, new) EXCEPT ![new] = NewFact(memory[id].topic, fact)]
    /\ FlushMemory
    /\ UNCHANGED serving

EditBlank(id) ==
    /\ serving = "yes" /\ ReplaceableFact(id)
    /\ memory' = Superseded(memory, {id}, LostId)
    /\ UNCHANGED <<memoryFile, serving, saveFaults>>

(* delete: of a record in any status; the other fields are kept. *)
Forget(id) ==
    /\ serving = "yes" /\ memory[id].status # "none"
    /\ memory' = [memory EXCEPT ![id].status = "deleted"]
    /\ FlushMemory
    /\ UNCHANGED serving

(* parseMemoryRecord *)
FactParses(r) ==
    CASE r.status = "superseded" -> r.supersededBy # 0
      [] OTHER -> r.supersededBy = 0

FileLoads == \A i \in MemoryIds : FactParses(memoryFile[i])

(* The program ends and starts again. *)
RestartMemory ==
    /\ serving = "yes"
    /\ IF FileLoads THEN memory' = memoryFile /\ UNCHANGED serving
                    ELSE serving' = "refused" /\ UNCHANGED memory
    /\ UNCHANGED <<memoryFile, saveFaults>>

MemoryNext ==
    \/ RestartMemory
    \/ \E topic \in TopicKeys, fact \in Facts, keepBoth \in BOOLEAN : Remember(topic, fact, keepBoth)
    \/ \E id \in MemoryIds :
          EditBlank(id) \/ Forget(id) \/ (\E fact \in Facts : EditFact(id, fact))

MemorySpec == MemoryInit /\ [][MemoryNext]_memoryVars

-----------------------------------------------------------------------------
(* query, as renderModelVisibleMemory puts it into the prompt              *)

Recalled == {i \in Present(memory) : memory[i].status = "active"}

-----------------------------------------------------------------------------
(* What the user had forgotten stays forgotten: once the file says that a  *)
(* record is deleted neither an edit with an old id nor a restart brings   *)
(* it back into the prompt, and nothing replaces it.                       *)
ForgottenStays ==
    [][\A i \in MemoryIds :
          memoryFile[i].status = "deleted" =>
             /\ memoryFile'[i].status = "deleted" /\ i \notin Recalled'
             /\ \A j \in MemoryIds : memory'[i].supersededBy = j => memory[i].supersededBy = j
      ]_memoryVars
=============================================================================
