--------------------------- MODULE CommandHistory ---------------------------
(***************************************************************************)
(* The command history of the editor (useCommandHistory), its file beside  *)
(* the project (persistCommandHistory, save_command_history), and a plan of *)
(* the Agent that is applied to the project (applyAgentPlan,                *)
(* apply_ai_patch).                                                        *)
(*                                                                         *)
(* Each handler of the page runs to its next await.  The calls of the page *)
(* are done one after another by the backend, later.  A content of the     *)
(* project is a number, with the number of the last content that changed   *)
(* what the plan is about, and whether the plan's operations are in it.    *)
(***************************************************************************)
EXTENDS Lists

CONSTANTS
    Limit,      \* commands a stack keeps (50)
    MaxMade,    \* contents
    MaxQueue,   \* saves of the history under way
    MaxEvents   \* rare events together: a pin changed, a snapshot restored, the
                \* history cleared, a failed call, the project opened again

ASSUME HistoryAssumption ==
    /\ Limit \in Nat \ {0}
    /\ MaxQueue \in Nat \ {0}

VARIABLES
    value,      \* valueRef
    stacks,     \* undoRef, redoRef, archiveRef
    dirty,      \* revision # savedRevision
    file,       \* the project on disk
    kept,       \* commands.json
    queue,      \* historySaveQueueRef: the histories still to be saved
    agent,      \* applyAgentPlan
    applied,    \* the task file says that the operations were applied
    made, events,
    opened,     \* history: how often the project was opened
    torn,       \* history: a pin kept a command over a hole, or a history was
                \* restored beside another content
    failed,     \* history: the last save of the history failed
    compared,   \* the scopes of the plan's operations tell whether what they
                \* change has changed; a scene named by its id and the map have none
    unmarked    \* history: the application ended after a patch was saved and
                \* before the task file said so

page == <<value, stacks, dirty>>
stored == <<file, kept, applied>>
underway == <<queue, agent, failed>>
bounds == <<made, events, opened, torn>>
commandHistory == <<page, stored, underway, bounds, compared, unmarked>>

First == [n |-> 0, scope |-> 0, ops |-> FALSE]
NoAgent == [at |-> "idle", project |-> First]
NoStacks == [undo |-> <<>>, redo |-> <<>>, archive |-> <<>>]

Last(s) == s[Len(s)]
Front(s) == SubSeq(s, 1, Len(s) - 1)
Commands(h) == Elements(h.undo) \cup Elements(h.redo) \cup Elements(h.archive)
Pinned(s) == Picked(s, {i \in 1..Len(s) : s[i].pinned})

\* The same for each of the three.
EachStack(h, Of(_)) == [undo |-> Of(h.undo), redo |-> Of(h.redo), archive |-> Of(h.archive)]

\* A change of one command wherever it is.
MarkIn(s, id, undone) ==
    [i \in 1..Len(s) |-> IF s[i].id = id THEN [s[i] EXCEPT !.undone = undone] ELSE s[i]]
Mark(h, id, undone) == EachStack(h, LAMBDA s : MarkIn(s, id, undone))
TogglePin(s, id) ==
    [i \in 1..Len(s) |-> IF s[i].id = id THEN [s[i] EXCEPT !.pinned = ~@] ELSE s[i]]

-----------------------------------------------------------------------------
(* The stacks *)

\* trimHistory: beyond the limit the pinned commands stay, and the newest.
Trim(s, limit) ==
    LET pinned == Cardinality({i \in 1..Len(s) : s[i].pinned})
        newer(i) == Cardinality({j \in i..Len(s) : ~s[j].pinned})
        stays(i) == s[i].pinned \/ pinned + newer(i) <= limit
    IN IF Len(s) <= limit THEN s ELSE Picked(s, {i \in 1..Len(s) : stays(i)})
TrimLate(s) == Trim(s, Limit + 1)
TrimHistory(s) == Trim(s, Limit)

\* It kept one command and gave up a newer one.
Hole(s) == LET t == TrimHistory(s) IN
    t # SubSeq(s, Len(s) - Len(t) + 1, Len(s))

ArchivePinnedRedo(h) == TrimHistory(h.archive \o Pinned(h.redo))

\* A new command: commit, commitSaved, undoCategory.
PushBesideRedo(h, c) == [h EXCEPT !.undo = TrimHistory(Append(@, c))]
Push(h, c) ==
    [undo |-> TrimHistory(Append(h.undo, c)), redo |-> <<>>,
     archive |-> ArchivePinnedRedo(h)]

Command(before, after, agents, effect) ==
    [id |-> made + 1, before |-> before, after |-> after, pinned |-> FALSE,
     agents |-> agents, undone |-> FALSE, effect |-> effect]

Fits(h, v) ==
    /\ \A i \in 1..Len(h.undo) :
        h.undo[i].after = IF i = Len(h.undo) THEN v ELSE h.undo[i + 1].before
    /\ \A i \in 1..Len(h.redo) :
        h.redo[i].before = IF i = Len(h.redo) THEN v ELSE h.redo[i + 1].after

\* The effect of historyVersion: persistCommandHistory queues what there is now.
\* The mutant does not chain the saves: a new one overtakes those under way.
TouchAhead == Len(queue) < MaxQueue /\ queue' = <<stacks'>> \o queue
TouchHistory == Len(queue) < MaxQueue /\ queue' = Append(queue, stacks')

Event == events < MaxEvents /\ events' = events + 1
Make == made < MaxMade /\ made' = made + 1
Fresh(scope, ops) == [n |-> made + 1, scope |-> scope, ops |-> ops]

Commit(v) ==
    /\ Make
    /\ LET c == Command(value, v, FALSE, 0) IN
        /\ stacks' = Push(stacks, c)
        /\ torn' = (torn \/ Hole(Append(stacks.undo, c)))
    /\ value' = v /\ dirty' = TRUE
    /\ TouchHistory
    /\ UNCHANGED <<stored, agent, failed, opened>>

\* An edit of the user, away from what the plan is about.
Edit == Commit(Fresh(value.scope, value.ops)) /\ UNCHANGED events

\* restoreCommandSnapshot
RestoreCommand == \E c \in Commands(stacks), v \in {"before", "after"} :
    Commit(IF v = "before" THEN c.before ELSE c.after) /\ Event

UnmarkNone(h, c) == h
\* A command of undoCategory sets and clears the mark of its source.
Unmark(h, c) == IF c.effect = 0 THEN h ELSE Mark(h, c.effect, FALSE)
Remark(h, c) == IF c.effect = 0 THEN h ELSE Mark(h, c.effect, TRUE)

Undo ==
    /\ stacks.undo # <<>>
    /\ LET c == Last(stacks.undo) IN
        /\ stacks' = Unmark([stacks EXCEPT !.undo = Front(@), !.redo = Append(@, c)], c)
        /\ value' = c.before
    /\ dirty' = TRUE
    /\ TouchHistory
    /\ UNCHANGED <<stored, agent, failed, bounds>>

Redo ==
    /\ stacks.redo # <<>>
    /\ LET c == Last(stacks.redo) IN
        /\ stacks' = Remark([stacks EXCEPT !.redo = Front(@), !.undo = Append(@, c)], c)
        /\ value' = c.after
    /\ dirty' = TRUE
    /\ TouchHistory
    /\ UNCHANGED <<stored, agent, failed, bounds>>

\* restoreAgentPatchCategory: what the plan changed in this category is as it
\* was before the source; a content without the plan's operations.
RestoreCategory(source) == Fresh(source.before.scope, FALSE)

UndoCategory == \E i \in 1..Len(stacks.undo) : LET c == stacks.undo[i] IN
    /\ c.agents /\ ~c.undone
    /\ Make
    /\ LET v == RestoreCategory(c)  e == Command(value, v, FALSE, c.id) IN
        /\ stacks' = Push(Mark(stacks, c.id, TRUE), e)
        /\ torn' = (torn \/ Hole(Append(stacks.undo, e)))
        /\ value' = v
    /\ dirty' = TRUE
    /\ TouchHistory
    /\ UNCHANGED <<stored, agent, failed, events, opened>>

Trimmed(h) == EachStack(h, TrimHistory)

\* toggleCommandPinned, renameCommand
ToggleCommandPinned == \E c \in Commands(stacks) :
    /\ Event
    /\ stacks' = Trimmed(EachStack(stacks, LAMBDA s : TogglePin(s, c.id)))
    /\ TouchHistory
    /\ UNCHANGED <<value, dirty, stored, agent, failed, made, opened, torn>>

ClearUnpinnedHistory ==
    /\ \E c \in Commands(stacks) : ~c.pinned
    /\ stacks' = [NoStacks EXCEPT !.archive =
            TrimHistory(Pinned(stacks.undo \o stacks.redo \o stacks.archive))]
    /\ TouchHistory
    /\ UNCHANGED <<value, dirty, stored, agent, failed, bounds>>

-----------------------------------------------------------------------------
(* The files *)

\* _validate_command_history: a longer stack is refused.
AcceptedHistory(h) == \A s \in {h.undo, h.redo, h.archive} : Len(s) <= Limit

\* The next of the chain; one that fails is skipped.
SaveCommandHistory ==
    /\ queue # <<>> /\ queue' = Tail(queue)
    /\ \/ /\ kept' = IF AcceptedHistory(Head(queue)) THEN Head(queue) ELSE kept
          /\ failed' = FALSE
          /\ UNCHANGED events
       \/ Event /\ failed' = TRUE /\ UNCHANGED kept
    /\ UNCHANGED <<page, file, applied, agent, made, opened, torn>>

\* The autosave, here in one step: EditorSave has its details.
Save ==
    /\ dirty /\ dirty' = FALSE
    /\ file' = value
    /\ UNCHANGED <<value, stacks, kept, applied, underway, bounds>>

\* The page ends and the project is opened again: loadCommandHistory, or its
\* failure, resetProject, restoreHistory. The restored history is saved again.
Open ==
    /\ Event /\ opened' = opened + 1
    /\ value' = file /\ dirty' = FALSE
    /\ stacks' \in {Trimmed(kept), NoStacks}
    /\ torn' = (torn \/ ~Fits(stacks', file))
    /\ queue' = <<stacks'>> /\ failed' = FALSE
    /\ agent' = NoAgent
    /\ applied' = IF applied = "memory" THEN "no" ELSE applied
    /\ UNCHANGED <<file, kept, made>>

-----------------------------------------------------------------------------
(* applyAgentPlan, apply_ai_patch *)

AgentAt(at) == agent' = [agent EXCEPT !.at = at]

\* The autosave's timer that it clears and the pending autosave that it awaits are
\* in EditorSave; here an autosave may come at any time.
ApplyAgentPlan ==
    /\ agent = NoAgent
    /\ agent' = [at |-> IF dirty THEN "save" ELSE "apply", project |-> value]
    /\ UNCHANGED <<page, stored, queue, failed, bounds>>

\* saveProject(project), markSaved
AgentSaves ==
    /\ agent.at = "save"
    /\ \/ /\ AgentAt("apply") /\ file' = agent.project /\ dirty' = FALSE
          /\ UNCHANGED events
       \/ Event /\ agent' = NoAgent /\ UNCHANGED <<file, dirty>>
    /\ UNCHANGED <<value, stacks, kept, applied, queue, failed,
                   made, opened, torn>>

\* apply_patch_to_project: not what was applied, and not where the project has
\* changed since the plan (check_patch_preconditions), as far as that is compared.
ApplicableUnchecked(project) == applied = "no"
Applicable(project) ==
    applied = "no" /\ (compared => project.scope = First.scope)

\* _apply_operations: a content of its own that has the plan's operations.
Patched == Fresh(made + 1, TRUE)

SavePatched ==
    /\ agent.at = "apply" /\ Applicable(agent.project)
    /\ \/ /\ Make
          /\ file' = Patched
          /\ agent' = [agent EXCEPT !.at = "mark", !.project = file']
          /\ UNCHANGED events
       \/ Event /\ agent' = NoAgent /\ UNCHANGED <<file, made>>
    /\ UNCHANGED <<page, kept, applied, queue, failed, opened, torn>>

RefusePatch ==
    /\ agent.at = "apply" /\ ~Applicable(agent.project) /\ agent' = NoAgent
    /\ UNCHANGED <<page, stored, queue, failed, bounds>>

\* mark_patch_applied: in memory, then in the task file; when that raises the
\* page hears of an error, with the patched project on disk.
MarkPatchApplied ==
    /\ agent.at = "mark"
    /\ \/ AgentAt("answer") /\ applied' = "file" /\ UNCHANGED events
       \/ Event /\ agent' = NoAgent /\ applied' = "memory"
    /\ UNCHANGED <<page, file, kept, queue, failed, made, opened, torn>>

\* commitSaved(() => result.project), persistCommandHistory
CommitPatched ==
    /\ agent.at = "answer" /\ agent' = NoAgent
    /\ LET c == [Command(value, agent.project, TRUE, 0) EXCEPT !.id = agent.project.n] IN
        /\ stacks' = Push(stacks, c)
        /\ torn' = (torn \/ Hole(Append(stacks.undo, c)))
    /\ value' = agent.project /\ dirty' = FALSE
    /\ TouchHistory
    /\ UNCHANGED <<stored, failed, made, events, opened>>

-----------------------------------------------------------------------------
HistoryInit ==
    /\ value = First /\ file = First /\ dirty = FALSE
    /\ stacks = NoStacks /\ kept = NoStacks
    /\ queue = <<>> /\ agent = NoAgent
    /\ applied = "no" /\ failed = FALSE /\ torn = FALSE
    /\ made = 0 /\ events = 0 /\ opened = 0
    /\ compared \in BOOLEAN /\ unmarked = FALSE

EndsUnmarked == opened' # opened /\ (agent.at = "mark" \/ applied = "memory")

HistoryStep ==
    \/ Edit \/ RestoreCommand \/ Undo \/ Redo \/ UndoCategory
    \/ ToggleCommandPinned \/ ClearUnpinnedHistory
    \/ SaveCommandHistory \/ Save \/ Open
    \/ ApplyAgentPlan \/ AgentSaves
    \/ SavePatched \/ RefusePatch \/ MarkPatchApplied \/ CommitPatched
HistoryNext ==
    /\ HistoryStep
    /\ unmarked' = (unmarked \/ EndsUnmarked) /\ UNCHANGED compared

HistorySpec == HistoryInit /\ [][HistoryNext]_commandHistory

-----------------------------------------------------------------------------
HistoryTypeOK ==
    /\ \A c, d \in Commands(stacks) : c.id = d.id => c = d
    /\ Len(stacks.undo) + Len(stacks.redo) <= Limit
    /\ Len(queue) <= MaxQueue
    /\ agent.at \in {"idle", "save", "apply", "mark", "answer"}
    /\ applied \in {"no", "memory", "file"}

\* As long as no pin has kept a command over a hole and no history was restored
\* beside another content, undo and redo walk a line of contents and lose none
\* of it (useCommandHistory commit, undo, redo, undoCategory, restoreHistory).
Line == INSTANCE UndoLine WITH
    past <- [i \in 1..Len(stacks.undo) |-> stacks.undo[i].before],
    present <- value,
    future <- [i \in 1..Len(stacks.redo) |-> stacks.redo[Len(stacks.redo) + 1 - i].after],
    off <- torn
UndoIsLine == Line!Spec

\* Under the same condition a category is marked as undone exactly while the
\* command that undid it is applied, so that it can be undone again afterwards
\* (undoCategory, onUndo, onRedo, restoreHistory).
CategoryMarks ==
    ~torn =>
        /\ \A c \in Elements(stacks.undo) : c.agents =>
            (c.undone <=> \E e \in Elements(stacks.undo) : e.effect = c.id)
        /\ \A c \in Elements(stacks.redo) : ~c.undone

\* With nothing under way the file has the history of the page, unless the last
\* save failed or more is pinned than a stack may hold.
HistoryCatchesUp ==
    queue = <<>> /\ ~failed /\ Cardinality({c \in Commands(stacks) : c.pinned}) <= Limit
        => kept = stacks

\* The operations of a plan are not applied to a project that has them, not
\* even when the application ends between the save and the mark: there the check
\* for conflicts refuses them, except, a fault of the code, where it does not
\* look (apply_patch_to_project, mark_patch_applied, _operation_scopes).
PatchLandsOnce ==
    [][agent.at = "apply" /\ agent'.at = "mark" =>
          ~agent.project.ops \/ (unmarked /\ ~compared)]_commandHistory
=============================================================================
