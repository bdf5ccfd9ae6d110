------------------------------ MODULE TaskParser ------------------------------
(***************************************************************************)
(* parseUserRequest of src/services/taskParser.ts: one request of a user,   *)
(* the answer of a model that is asked to structure it, the answer of a      *)
(* second one that is asked when the first is of no use, and the task that   *)
(* comes of it.  What the models answer is a choice.                         *)
(***************************************************************************)
EXTENDS Integers, Sequences

VARIABLES
    parsing,  \* where the call is
    answers,  \* history: what the models have answered, in order
    taskInfo, \* the structured answer that is gone on with
    parsed    \* the result

taskParserVars == <<parsing, answers, taskInfo, parsed>>

\* An answer holds a JSON object or not (no braces, not JSON, no answer at all).
\* Of an object's fields, those that decide: its type, title and steps, which
\* may be missing or empty.
Types == {"none", "simple", "complex"}
Info == [object : {TRUE}, type : Types, title : BOOLEAN, steps : BOOLEAN]
Useless == [object |-> FALSE, type |-> "none", title |-> FALSE, steps |-> FALSE]

\* What fallbackExtraction makes of an answer without an object.
Minimal == [object |-> TRUE, type |-> "simple", title |-> TRUE, steps |-> FALSE]

NoTask == [status |-> "none", type |-> "none", planned |-> FALSE, error |-> FALSE]

TaskParserInit ==
    /\ parsing = "idle"
    /\ answers = <<>>
    /\ taskInfo = Useless
    /\ parsed = NoTask

ParseUserRequest ==
    /\ parsing = "idle"
    /\ parsing' = "extracting"
    /\ UNCHANGED <<answers, taskInfo, parsed>>

\* The fields that extractTaskInfo asks for.
UsableInfo(info) == info.object /\ info.type # "none" /\ info.title

ExtractTaskInfo ==
    /\ parsing = "extracting"
    /\ \E info \in Info \cup {Useless} :
         /\ answers' = Append(answers, info)
         /\ IF UsableInfo(info)
            THEN parsing' = "extracted" /\ taskInfo' = info
            ELSE parsing' = "fallback" /\ UNCHANGED taskInfo
    /\ UNCHANGED parsed

\* Any object is taken, whatever it holds.
FallbackExtraction ==
    /\ parsing = "fallback"
    /\ \E info \in Info \cup {Useless} :
         /\ answers' = Append(answers, info)
         /\ taskInfo' = IF info.object THEN info ELSE Minimal
    /\ parsing' = "extracted"
    /\ UNCHANGED parsed

NeedsPlan(info) == info.type = "complex" \/ info.steps

\* The task, with a plan when it needs one, or the failed task.
BuildTask ==
    /\ parsing = "extracted"
    /\ parsing' = "done"
    /\ parsed' = IF taskInfo.type = "none"
                 THEN [status |-> "failed", type |-> "unknown", planned |-> FALSE, error |-> TRUE]
                 ELSE [status |-> "pending", type |-> taskInfo.type,
                       planned |-> NeedsPlan(taskInfo), error |-> FALSE]
    /\ UNCHANGED <<answers, taskInfo>>

TaskParserNext == ParseUserRequest \/ ExtractTaskInfo \/ FallbackExtraction \/ BuildTask

-----------------------------------------------------------------------------
TaskParserTypeOK ==
    /\ parsing \in {"idle", "extracting", "fallback", "extracted", "done"}
    /\ answers \in Seq(Info \cup {Useless}) /\ Len(answers) <= 2
    /\ taskInfo \in Info \cup {Useless}
    /\ parsed.type \in Types \cup {"unknown"}

(* A task comes of every request, whatever the models answer: of the first   *)
(* answer that is complete, and the second model is asked only without one;  *)
(* the task fails only when the last answer holds an object without a type,   *)
(* and a task of steps has its plan.  Two answers of no use give a task of   *)
(* type simple, not a failed one.                                           *)
TasksHonest ==
    parsing = "done" =>
        LET last == answers[Len(answers)]
            complete(info) == info.object /\ info.type # "none" /\ info.title
        IN
        /\ Len(answers) = 2 <=> ~ complete(answers[1])
        /\ parsed.error <=> last.object /\ last.type = "none"
        /\ parsed.status = "failed" <=> parsed.error
        /\ ~ parsed.error => parsed.type = (IF last.object THEN last.type ELSE "simple")
        /\ last.steps /\ ~ parsed.error => parsed.planned

=============================================================================
