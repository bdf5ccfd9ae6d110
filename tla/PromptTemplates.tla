--------------------------- MODULE PromptTemplates ---------------------------
(***************************************************************************)
(* The prompt templates of src/core/ai/promptTemplate.ts: a cache by name     *)
(* beside times of modification by path, and files that somebody edits while *)
(* the process looks at them.                                               *)
(***************************************************************************)
EXTENDS FiniteSets, Integers, SequencesExt

CONSTANTS
    PromptNames,
    MaxEdits,   \* bound: edits, deletions and saves
    MaxPromptCalls

ASSUME PromptAssumption ==
    IsFiniteSet(PromptNames) /\ MaxEdits \in Nat /\ MaxPromptCalls \in Nat

\* A file by its name, and by where it lies: at the top as JSON or YAML (.yml
\* stands with .yaml), or in a subdirectory.
PromptFiles == PromptNames \X {"sub", "json", "yaml"}

VARIABLES
    disk,           \* every file: its content (the number of its edit) and its time
    edits,
    promptCache,    \* by name: the content of the template
    promptModified, \* by path: the time of the load, 0 without one
    loadedFrom,     \* history: by path, the content loaded last
    ownerOf,        \* history: by name, the path loaded or saved last
    raced,          \* history: files whose last edit came between the read and the stat of
                    \* a load, or between the write and the stat of a save
    saving,         \* the file that a save has written and not yet looked at
    promptCall      \* the call under way: what it looks for, its files, its content

promptVars == <<disk, edits, promptCache, promptModified, loadedFrom, ownerOf, raced,
                saving, promptCall>>

Missing == [content |-> 0, time |-> 0, valid |-> FALSE]
NoTemplate == 0
NoPromptCall == [kind |-> "none", files |-> <<>>, content |-> 0, valid |-> FALSE, read |-> FALSE,
                 left |-> MaxPromptCalls]

PromptsInit ==
    /\ disk = [f \in PromptFiles |-> Missing]
    /\ edits = 0
    /\ promptCache = [n \in PromptNames |-> NoTemplate]
    /\ promptModified = [f \in PromptFiles |-> 0]
    /\ loadedFrom = [f \in PromptFiles |-> 0]
    /\ ownerOf = [n \in PromptNames |-> <<>>]
    /\ raced = {} /\ saving = <<>>
    /\ promptCall = NoPromptCall

Exists(f) == disk[f] # Missing
CallFile == Head(promptCall.files)

-----------------------------------------------------------------------------
(* Whoever edits the files, at any time.  Every edit has a time of its own.  *)

EditFile(f) ==
    /\ edits < MaxEdits
    /\ edits' = edits + 1
    /\ \E valid \in BOOLEAN :
         disk' = [disk EXCEPT ![f] = [content |-> edits + 1, time |-> edits + 1, valid |-> valid]]
    /\ raced' = IF f = saving \/ (promptCall.read /\ f = CallFile) THEN raced \cup {f}
                                                                 ELSE raced \ {f}
    /\ UNCHANGED <<promptCache, promptModified, loadedFrom, ownerOf, saving, promptCall>>

DeleteFile(f) ==
    /\ edits < MaxEdits /\ Exists(f)
    /\ edits' = edits + 1
    /\ disk' = [disk EXCEPT ![f] = Missing]
    /\ UNCHANGED <<promptCache, promptModified, loadedFrom, ownerOf, raced, saving, promptCall>>

-----------------------------------------------------------------------------
(* The calls                                                                *)

\* findPromptFiles, in the order of the file system.
FilesFound == SetToSeq({f \in PromptFiles : Exists(f)})

BeginPromptCall(kind, files) ==
    /\ promptCall.kind = "none" /\ promptCall.left > 0 /\ saving = <<>>
    /\ promptCall' = [promptCall EXCEPT !.kind = kind, !.files = files, !.left = @ - 1]
    /\ UNCHANGED <<disk, edits, promptCache, promptModified, loadedFrom, ownerOf, raced, saving>>

LoadAllPrompts == BeginPromptCall("load", FilesFound)
CheckForPromptUpdates == BeginPromptCall("update", FilesFound)

\* Only a name that is not in the cache is looked for, and only at the top:
\* the first of JSON and YAML that exists.
GetPromptTemplate(n) ==
    LET json == <<n, "json">>
        yaml == <<n, "yaml">>
    IN
    /\ promptCache[n] = NoTemplate
    /\ BeginPromptCall("get", IF Exists(json) THEN <<json>>
                              ELSE IF Exists(yaml) THEN <<yaml>> ELSE <<>>)

Newer(f) == promptModified[f] = 0 \/ disk[f].time > promptModified[f]

CallOver == [promptCall EXCEPT !.kind = "none", !.files = <<>>, !.read = FALSE,
                               !.content = 0, !.valid = FALSE]
NextFile == [promptCall EXCEPT !.files = Tail(@), !.read = FALSE, !.content = 0, !.valid = FALSE]

PromptCallEnds ==
    /\ promptCall.kind # "none" /\ promptCall.files = <<>> /\ saving = <<>>
    /\ promptCall' = CallOver
    /\ UNCHANGED <<disk, edits, promptCache, promptModified, loadedFrom, ownerOf, raced, saving>>

\* A file that is not newer is passed over.
SkipFile ==
    /\ promptCall.kind = "update" /\ promptCall.files # <<>> /\ ~ promptCall.read
    /\ saving = <<>>
    /\ Exists(CallFile) /\ ~ Newer(CallFile)
    /\ promptCall' = NextFile
    /\ UNCHANGED <<disk, edits, promptCache, promptModified, loadedFrom, ownerOf, raced, saving>>

\* loadPromptFile: the content.  A file that is gone by now ends the load of
\* this file, and the whole update if it was gone at the stat before.
ReadFile ==
    /\ promptCall.files # <<>> /\ ~ promptCall.read /\ saving = <<>>
    /\ \/ /\ Exists(CallFile)
          /\ promptCall.kind = "update" => Newer(CallFile)
          /\ promptCall' = [promptCall EXCEPT !.read = TRUE, !.content = disk[CallFile].content,
                                              !.valid = disk[CallFile].valid]
       \/ /\ ~ Exists(CallFile)
          /\ \/ promptCall' = NextFile
             \/ promptCall.kind = "update" /\ promptCall' = CallOver
    /\ UNCHANGED <<disk, edits, promptCache, promptModified, loadedFrom, ownerOf, raced, saving>>

TimeOfFile(f) == disk[f].time

\* loadPromptFile: the stat, after which the template and the time are kept.  A
\* content that cannot be parsed or has no system prompt changes nothing.
KeepTemplate ==
    /\ promptCall.read
    /\ LET f == CallFile
           n == f[1]
           kept == Exists(f) /\ promptCall.valid
       IN  IF kept
           THEN /\ promptCache' = [promptCache EXCEPT ![n] = promptCall.content]
                /\ promptModified' = [promptModified EXCEPT ![f] = TimeOfFile(f)]
                /\ loadedFrom' = [loadedFrom EXCEPT ![f] = promptCall.content]
                /\ ownerOf' = [ownerOf EXCEPT ![n] = f]
           ELSE UNCHANGED <<promptCache, promptModified, loadedFrom, ownerOf>>
    /\ promptCall' = NextFile
    /\ UNCHANGED <<disk, edits, raced, saving>>

\* savePromptTemplate: the file, always as JSON at the top, and the cache.  It may
\* come between two files of a load, which awaits each of them.
SavePromptTemplate(n) ==
    /\ ~ promptCall.read /\ promptCall.left > 0 /\ saving = <<>>
    /\ edits < MaxEdits
    /\ edits' = edits + 1
    /\ promptCall' = [promptCall EXCEPT !.left = @ - 1]
    /\ LET f == <<n, "json">> IN
         /\ disk' = [disk EXCEPT ![f] = [content |-> edits + 1, time |-> edits + 1, valid |-> TRUE]]
         /\ promptCache' = [promptCache EXCEPT ![n] = edits + 1]
         /\ loadedFrom' = [loadedFrom EXCEPT ![f] = edits + 1]
         /\ ownerOf' = [ownerOf EXCEPT ![n] = f]
         /\ raced' = raced \ {f}
         /\ saving' = f
    /\ UNCHANGED promptModified

\* The stat that follows in the same turn: the time is that of whatever is there
\* by then.  Of a file that is gone there is none, and the save reports failure.
StatSavedTemplate ==
    /\ saving # <<>>
    /\ promptModified' = IF Exists(saving)
                         THEN [promptModified EXCEPT ![saving] = TimeOfFile(saving)]
                         ELSE promptModified
    /\ saving' = <<>>
    /\ UNCHANGED <<disk, edits, promptCache, loadedFrom, ownerOf, raced, promptCall>>

PromptsNext ==
    \/ \E f \in PromptFiles : EditFile(f) \/ DeleteFile(f)
    \/ LoadAllPrompts \/ CheckForPromptUpdates
    \/ \E n \in PromptNames : GetPromptTemplate(n) \/ SavePromptTemplate(n)
    \/ StatSavedTemplate
    \/ PromptCallEnds \/ SkipFile \/ ReadFile \/ KeepTemplate

-----------------------------------------------------------------------------
PromptsTypeOK ==
    /\ \A f \in PromptFiles : disk[f].content \in 0 .. MaxEdits /\ promptModified[f] \in 0 .. MaxEdits
    /\ edits \in 0 .. MaxEdits
    /\ promptCache \in [PromptNames -> 0 .. MaxEdits]
    /\ raced \subseteq PromptFiles /\ saving \in PromptFiles \cup {<<>>}
    /\ promptCall.kind \in {"none", "load", "update", "get"}

(* A template is what was last loaded or saved under its name, from whatever *)
(* path; a file whose time is the one that was kept was loaded or saved with *)
(* its present content, unless its last edit came between the read and the   *)
(* stat of a load, or the write and the stat of a save: that one is missed    *)
(* until the next.  A time never runs ahead of the file while it exists, so   *)
(* no later edit is passed over.                                             *)
TemplatesHonest ==
    /\ \A n \in PromptNames :
         IF ownerOf[n] = <<>> THEN promptCache[n] = NoTemplate
                              ELSE promptCache[n] = loadedFrom[ownerOf[n]]
    /\ \A f \in PromptFiles : Exists(f) =>
         /\ promptModified[f] <= disk[f].time
         /\ promptModified[f] = disk[f].time /\ f \notin raced => loadedFrom[f] = disk[f].content

=============================================================================
