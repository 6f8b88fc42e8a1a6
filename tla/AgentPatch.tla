----------------------------- MODULE AgentPatch -----------------------------
(***************************************************************************)
(* What the Agent may change in a project and how its plan is applied: the *)
(* tools that propose operations (AgentToolRegistry), the plan a run ends  *)
(* with, the version of the project a task remembers and the scopes of its *)
(* operations (_project_version, _operation_scopes), the check for         *)
(* conflicts, the validation and the application of chosen operations      *)
(* (check_patch_preconditions, _apply_operations), and the tasks that are  *)
(* made from another one (rebase_patch, restart_from_checkpoint, ...).     *)
(*                                                                         *)
(* The user edits the project meanwhile.  A content is a number: 0 and 1   *)
(* are the user's, the others the patches'.  AgentTasks has the statuses   *)
(* and the worker of the tasks.                                            *)
(***************************************************************************)
EXTENDS Integers, Sequences, FiniteSets

CONSTANTS
    Fragment, Character, Asset, Scene,
    Unplaced,
    MaxMade     \* edits of the user, operations and further tasks together

VARIABLES
    project,    \* what is there, the contents, and what refers to what
    tasks,
    made, patches

plans == <<project, tasks, made, patches>>

Make == made < MaxMade /\ made' = made + 1

Named == Fragment \cup Character \cup Asset \cup Scene
Whole == {"meta", "map", "rest"}
Item == Named \cup Whole

\* The operations, by what they change: "script" stands for add_blocks,
\* insert_blocks, update_blocks, move_blocks and update_branch, "create" for
\* create_fragment and create_chapter; update_narrative_map is "map" for the
\* layout and "link" for a connection, which appends a jump to a script; "meta" is
\* update_project, and "rest" stands for a variable and for the memory.
Places(kind) ==
    CASE kind \in {"script", "link"} -> Fragment
      [] kind = "create" -> {Unplaced}
      [] kind = "character" -> Character \cup {Unplaced}
      [] kind = "scene" -> Scene \cup {Unplaced}
      [] kind = "asset" -> Asset
      [] OTHER -> {kind}
\* What an operation may refer to, as far as the code looks: the voice and the
\* background of a block and the references of the memory are never looked at.
Referable(kind) ==
    CASE kind \in {"script", "create"} -> Named
      [] kind = "link" -> Fragment
      [] kind \in {"character", "scene"} -> Asset
      [] kind = "asset" -> Character
      [] OTHER -> {}
Kind == {"script", "create", "link", "character", "scene", "asset"} \cup Whole

\* An id is no name of a kind, and that of a scene is no other's (the scopes of
\* the code carry the kind before the id).
ASSUME IdsAssumption ==
    /\ (Named \cup {Unplaced}) \cap Kind = {} /\ Unplaced \notin Named
    /\ Scene \cap (Fragment \cup Character \cup Asset) = {}

\* The kinds the final answer of a model may hold (_parse_plan).
Written == Kind \ {"scene", "link", "map"}

-----------------------------------------------------------------------------
(* Versions *)

Content(p, x) ==
    IF x \in p.has \cup Whole THEN <<p.text[x], p.uses[x]>> ELSE <<>>
Contents(p, S) == [x \in S |-> Content(p, x)]

\* What an operation writes over: the items of its kind, when it makes one.  The
\* jump of a connection is put after what a script holds.
Target(p, op) ==
    IF op.kind = "link" THEN <<>>
    ELSE IF op.at # Unplaced THEN Content(p, op.at)
    ELSE CASE op.kind = "character" -> Contents(p, Character)
           [] op.kind = "scene" -> Contents(p, Scene)
           [] OTHER -> p.has \cap Fragment

\* _operation_scopes
Scope(op) ==
    IF op.kind \in {"map", "link"} THEN "meta"
    ELSE IF op.at = Unplaced THEN op.kind ELSE op.at

\* _project_version: the hash of a scope.  There is none for a scene.
Version(p, scope) ==
    CASE scope = "create" -> p.has \cap Fragment
      [] scope = "character" -> Contents(p, Character)
      [] scope = "scene" -> Contents(p, Scene)
      [] scope \in Scene -> <<>>
      [] OTHER -> Content(p, scope)

-----------------------------------------------------------------------------
(* The user *)

Edited(p) ==
    /\ Make
    /\ project' = p
    /\ UNCHANGED <<tasks, patches>>

\* Also back to what it was.
Change == \E x \in project.has \cup Whole, n \in {0, 1} :
    /\ n # project.text[x]
    /\ Edited([project EXCEPT !.text[x] = n])
Add == \E x \in Named \ project.has :
    Edited([project EXCEPT !.has = @ \cup {x}])
Remove == \E x \in project.has :
    Edited([project EXCEPT !.has = @ \ {x}, !.text[x] = 0, !.uses[x] = {}])

-----------------------------------------------------------------------------
(* Tasks *)

Ids == 1..Len(tasks)

\* The registry works on the copy of the project, the plan is compared with the
\* version of the project that the task remembers.
TaskRecord(parent, operations, attempt) ==
    [parent |-> parent, project |-> project, version |-> project,
     operations |-> operations, attempt |-> attempt, done |-> FALSE, applied |-> {}]
Enqueue(task) ==
    /\ Make
    /\ tasks' = Append(tasks, task)
    /\ UNCHANGED <<project, patches>>

\* start_task
Start == Enqueue(TaskRecord(0, <<>>, 1))

\* _validated_operation_indexes of a plan
Indexes(t) == IF t.done THEN SUBSET (1..Len(t.operations)) \ {{}} ELSE {}

\* Some operations of a plan are to be planned anew, on the project as it is.
Retry(i) == Indexes(tasks[i]) # {} /\ Enqueue(TaskRecord(i, <<>>, 1))
Rebase(i) == Indexes(tasks[i]) # {} /\ Enqueue(TaskRecord(i, <<>>, 1))
Replan == \E i \in Ids : Retry(i) \/ Rebase(i)

\* restart_from_checkpoint: every round left one, with what was proposed so far.
Restart == \E i \in Ids : \E k \in 1..Len(tasks[i].operations) :
    Enqueue(TaskRecord(i, SubSeq(tasks[i].operations, 1, k), tasks[i].attempt + 1))

\* resume_task, of a task that was paused or interrupted between two rounds.
Resume == \E i \in Ids :
    /\ ~tasks[i].done
    /\ tasks[i].attempt = 1
    /\ tasks' = [tasks EXCEPT ![i].project = project, ![i].attempt = @ + 1]
    /\ UNCHANGED <<project, made, patches>>

-----------------------------------------------------------------------------
(* A run *)

Operation(p, kind, at, uses) ==
    LET op == [kind |-> kind, at |-> at, uses |-> uses]
    IN  [kind |-> kind, at |-> at, uses |-> uses, seen |-> Target(p, op)]

Plan(i, op) == tasks' = [tasks EXCEPT ![i].operations = Append(@, op)]
Uses(kind) == IF Referable(kind) = {} THEN {{}} ELSE {{x} : x \in Referable(kind)}

\* What is changed and what is referred to must be there.  A variable need not be.
IsKnown(p, op) == op.at \in p.has \cup Whole \cup {Unplaced} /\ op.uses \subseteq p.has

Propose(i, kinds) == \E kind \in kinds : \E at \in Places(kind), uses \in Uses(kind) :
    LET t == tasks[i]
        op == Operation(t.project, kind, at, uses)
    IN /\ Make
       /\ ~t.done
       /\ IsKnown(t.project, op)
       /\ kind = "link" => at \notin uses
       /\ Plan(i, op)
       /\ UNCHANGED <<project, patches>>

ProposeScript == \E i \in Ids : Propose(i, {"script"})
ProposeCreate == \E i \in Ids : Propose(i, {"create"})
ProposeCharacter == \E i \in Ids : Propose(i, {"character"})
ProposeAsset == \E i \in Ids : Propose(i, {"asset"})
ProposeScene == \E i \in Ids : Propose(i, {"scene"})
ProposeMap == \E i \in Ids : Propose(i, {"map", "link"})
ProposeMeta == \E i \in Ids : Propose(i, {"meta"})
ProposeRest == \E i \in Ids : Propose(i, {"rest"})

\* The run ends.  Its answer may hold an operation that no tool looked at; one
\* that was proposed before is not taken twice.
Finish == \E i \in Ids :
    LET t == tasks[i] IN
    /\ ~t.done
    /\ \/ /\ tasks' = [tasks EXCEPT ![i].done = TRUE]
          /\ UNCHANGED made
       \/ \E kind \in Written : \E at \in Places(kind), uses \in Uses(kind) :
            LET op == Operation(t.project, kind, at, uses) IN
            /\ Make
            /\ \A k \in 1..Len(t.operations) : t.operations[k] # op
            /\ tasks' = [tasks EXCEPT ![i].done = TRUE,
                                      ![i].operations = Append(@, op)]
    /\ UNCHANGED <<project, patches>>

-----------------------------------------------------------------------------
(* The application *)

\* The mutant takes the version of the project when the plan is applied.
ExpectedNow(t, op) == Version(project, Scope(op))
\* _patch_preconditions
Expected(t, op) == Version(t.version, Scope(op))

\* check_patch_preconditions
Unchanged(t, op) == Version(project, Scope(op)) = Expected(t, op)

\* _apply_operations, its first loop
Valid(t, op) == IsKnown(project, op)

\* _apply_operations, its second loop: `new` are the fragment, the character and
\* the scene that an operation makes or, by its name, finds.
Place(op, new) == IF op.at = Unplaced THEN new[op.kind] ELSE op.at
Patched(p, ops, new) ==
    LET places == {Place(op, new) : op \in ops}
    IN  [has |-> p.has \cup (places \cap Named),
         text |-> [x \in Item |-> IF x \in places THEN patches + 2 ELSE p.text[x]],
         uses |-> [x \in Item |->
            p.uses[x] \cup UNION {op.uses : op \in {o \in ops : Place(o, new) = x}}]]

\* A patch that makes a fragment needs a name that is free: Fragment is a bound.
New(ops) ==
    {new \in [create : Fragment, character : Character, scene : Scene] :
        (\E op \in ops : op.kind = "create") => new.create \notin project.has}

\* apply_ai_patch.  A patch that is refused changes nothing.
Apply == \E i \in Ids : \E indexes \in Indexes(tasks[i]) :
    LET t == tasks[i]
        ops == {t.operations[k] : k \in indexes}
    IN /\ indexes \cap t.applied = {}
       /\ \A op \in ops : Unchanged(t, op) /\ Valid(t, op)
       /\ \E new \in New(ops) : project' = Patched(project, ops, new)
       /\ tasks' = [tasks EXCEPT ![i].applied = @ \cup indexes]
       /\ patches' = patches + 1
       /\ UNCHANGED made

-----------------------------------------------------------------------------

PlansInit ==
    /\ project = [has |-> Named \ {CHOOSE f \in Fragment : TRUE},
                  text |-> [x \in Item |-> 0], uses |-> [x \in Item |-> {}]]
    /\ tasks = <<TaskRecord(0, <<>>, 1)>>
    /\ made = 0 /\ patches = 0

PlansNext ==
    \/ Change \/ Add \/ Remove
    \/ Start \/ Replan \/ Restart \/ Resume
    \/ ProposeScript \/ ProposeCreate \/ ProposeCharacter \/ ProposeAsset
    \/ ProposeScene \/ ProposeMap \/ ProposeMeta \/ ProposeRest
    \/ Finish
    \/ Apply

PlansSpec == PlansInit /\ [][PlansNext]_plans

Applied(i) ==
    IF i \in Ids THEN {tasks[i].operations[k] : k \in tasks'[i].applied \ tasks[i].applied}
    ELSE {}

\* "冲突候选不会静默写入" (README.md:79): what an applied operation changes is
\* still as it was in the project that the operation was made for.
KeepsEdits ==
    \A i \in Ids : \A op \in Applied(i) : Target(project, op) = op.seen
PatchKeepsEdits == [][KeepsEdits]_plans

\* That holds of the first attempt at a task, except for the operations whose
\* scope is not what they change: a scene that is named by its id, and the map.
KeepsMostEdits ==
    \A i \in Ids : \A op \in Applied(i) :
        \/ tasks[i].attempt > 1
        \/ op.kind = "map"
        \/ op.kind = "scene" /\ op.at # Unplaced
        \/ Target(project, op) = op.seen
FirstPatchKeepsEdits == [][KeepsMostEdits]_plans
=============================================================================
