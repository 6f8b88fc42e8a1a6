----------------------------- MODULE AgentTasks -----------------------------
(***************************************************************************)
(* The Agent task queue of the editor: backend/agent_tasks.py, class       *)
(* AgentTaskManager, together with the call-backs that                     *)
(* backend/ai_service.py makes into it while a task runs.                  *)
(*                                                                         *)
(* Two threads share the state.  The GUI thread runs one RPC handler at a  *)
(* time (start, pause, resume, cancel, list, ...), each under the manager's*)
(* lock, so a handler is one action.  The worker thread takes the lock only*)
(* in places: every stretch of it between two lock sections is a value of  *)
(* the variable worker, and the handlers interleave with it there.         *)
(*                                                                         *)
(* _append_event_locked writes the whole task file each time it is called. *)
(* The write may raise OSError (os.replace fails on Windows while another  *)
(* reader holds the file); the code after it is then not executed.         *)
(***************************************************************************)
EXTENDS Naturals, Sequences, FiniteSets

CONSTANTS
    Task,        \* identifiers a task may get (uuid4 in the code)
    None,        \* no active task
    Pill,        \* the None that stop() puts in the queue
    MaxAttempt,  \* bound on the attempts of a task (the code has none)
    Again,       \* the tasks that may get more than one attempt (a bound)
    MaxRound,    \* tool rounds of one run (8 in _run_tool_loop)
    Models,      \* number of candidate models ai_service.run may try
    MaxFaults    \* bound on the number of failing task-file writes

ASSUME TaskAssumption == None \notin Task /\ Pill \notin Task /\ None # Pill
ASSUME BoundsAssumption ==
    /\ MaxAttempt \in Nat \ {0}
    /\ Again \subseteq Task
    /\ MaxRound \in Nat \ {0}
    /\ Models \in Nat \ {0}
    /\ MaxFaults \in Nat

ActiveStatuses == {"queued", "running", "pausing", "paused", "cancelling"}
TerminalStatuses == {"completed", "failed", "cancelled"}
Status == ActiveStatuses \cup TerminalStatuses \cup {"interrupted", "absent"}

(***************************************************************************)
(* What a task record holds, reduced to what control depends on: ckpt is   *)
(* the round executionCheckpoint resumes at (0 without one), high the last *)
(* round in the checkpoints list.                                          *)
(***************************************************************************)
Record == [status : Status, attempt : 0..MaxAttempt,
           ckpt : 0..MaxRound, high : 0..MaxRound]
NoRecord == [status |-> "absent", attempt |-> 0, ckpt |-> 0, high |-> 0]

WorkerStates == {"none", "loop", "get", "got", "run", "provider", "final",
                 "tools", "finish", "except", "fin", "finDying", "dead"}
Outcomes == {"none", "paused", "cancelled", "interrupted", "failed"}

VARIABLES
    mem,       \* _tasks: the records the manager holds
    disk,      \* .slide/agent/sessions/<id>.json
    queue,     \* _queue
    active,    \* _active_task_id
    ctlCancel, \* tasks whose TaskControl.cancel event is set
    ctlPause,  \* tasks whose TaskControl.pause event is set
    reqCancel, \* tasks whose TaskControl.cancellation is cancelled
    projects,  \* tasks with an entry in _projects
    stopFlag,  \* _stop
    app,       \* the process: "up", the steps of stop(), "down"
    listed,    \* the panel has listed the tasks since the process started
    worker,    \* where the worker thread is; "none": no thread was started
    cur,       \* the worker's task_id
    base,      \* the round the worker's execution_checkpoint resumes at
    round,     \* round_index of the tool loop
    tries,     \* candidate models tried by this run
    outcome,   \* the exception on its way to the worker's except clauses
    lastRun,   \* history: the last attempt of the task handed to the AI
    faults     \* failing writes so far

control == <<ctlCancel, ctlPause, reqCancel>>
run == <<cur, base, round, tries, outcome>>
vars == <<mem, disk, queue, active, control, projects, stopFlag, app, listed,
          worker, run, lastRun, faults>>

-----------------------------------------------------------------------------
(* Helpers *)

\* A write succeeds or raises; the second only while the fault bound allows.
WriteOutcomes == IF faults < MaxFaults THEN BOOLEAN ELSE {TRUE}
CountFault(ok) == faults' = IF ok THEN faults ELSE faults + 1

\* _append_event_locked: the record changes in memory, then the file is
\* written (temporary file and os.replace: the old file survives a failure).
AppendEvent(t, rec, ok) ==
    /\ mem' = [mem EXCEPT ![t] = rec]
    /\ disk' = IF ok THEN [disk EXCEPT ![t] = rec] ELSE disk
    /\ CountFault(ok)

\* _find_task_locked: memory first, then the file, which it caches in memory.
Found(t) == IF mem[t] # NoRecord THEN mem[t] ELSE disk[t]

\* The panel only knows ids it listed or started since the process began.
Known(t) == mem[t] # NoRecord \/ (listed /\ disk[t] # NoRecord)

WorkerAlive == worker \notin {"none", "dead"}

\* _ensure_worker_locked, then _queue.put.  Mutant: the active task is taken
\* to be in the worker's hands already.
EnsureWorkerAndPutUnlessActive(t) ==
    /\ worker' = IF WorkerAlive THEN worker ELSE "loop"
    /\ stopFlag' = IF WorkerAlive THEN stopFlag ELSE FALSE
    /\ queue' = IF active = t THEN queue ELSE Append(queue, t)
EnsureWorkerAndPut(t) ==
    /\ worker' = IF WorkerAlive THEN worker ELSE "loop"
    /\ stopFlag' = IF WorkerAlive THEN stopFlag ELSE FALSE
    /\ queue' = Append(queue, t)

\* A new TaskControl, or resume_task's clear() calls and new RequestCancellation.
\* Mutant: the old RequestCancellation stays.
KeepAbortedRequest(t) ==
    /\ ctlCancel' = ctlCancel \ {t}
    /\ ctlPause' = ctlPause \ {t}
    /\ reqCancel' = reqCancel
ClearControl(t) ==
    /\ ctlCancel' = ctlCancel \ {t}
    /\ ctlPause' = ctlPause \ {t}
    /\ reqCancel' = reqCancel \ {t}

\* Statuses with which the worker's finally clause keeps the project.  Mutant:
\* a task resumed before the clause is forgotten.
KeptWithoutQueued == {"paused", "interrupted"}
KeptStatuses == {"paused", "interrupted", "queued"}

\* pause_task: a task that has not started is paused at once.  Mutant: it is
\* left to the worker.
AlwaysPausing(status) == "pausing"
StatusAfterPause(status) == IF status = "queued" THEN "paused" ELSE "pausing"

\* cancel_task refuses the other statuses.  Mutant: not the terminal ones.
CancellableWhenDone(status) == status # "interrupted"
Cancellable(status) == status \notin TerminalStatuses \cup {"interrupted"}

\* What stop and list_tasks make of a task that will not go on by itself.
\* Mutant: it starts over.
InterruptedFromScratch(rec) ==
    [rec EXCEPT !.status = "interrupted", !.ckpt = 0]
Interrupted(rec) == [rec EXCEPT !.status = "interrupted"]

\* The worker's test of a queue entry: a stale one is skipped.  Mutants: only
\* an ended task is skipped; only a missing one.
NotEnded == mem[cur].status \notin TerminalStatuses
StillThere == mem[cur] # NoRecord
StillQueued == mem[cur].status = "queued"

\* range(start_round, 8).  Mutant: one round more.
OneRoundMore == round <= MaxRound
RoundsLeft == round < MaxRound

\* _checkpoint: what it raises for the worker's task ("none": it returns).
Raised ==
    CASE stopFlag -> "interrupted"
      [] ~stopFlag /\ cur \in ctlCancel -> "cancelled"
      [] ~stopFlag /\ cur \notin ctlCancel /\ cur \in ctlPause -> "paused"
      [] OTHER -> "none"

\* The locals of the worker's loop body, when the body is left.
ForgetRun ==
    cur' = None /\ base' = 0 /\ round' = 0 /\ tries' = 0 /\ outcome' = "none"

Init ==
    /\ mem = [t \in Task |-> NoRecord]
    /\ disk = [t \in Task |-> NoRecord]
    /\ queue = <<>>
    /\ active = None
    /\ ctlCancel = {} /\ ctlPause = {} /\ reqCancel = {}
    /\ projects = {}
    /\ stopFlag = FALSE
    /\ app = "up"
    /\ listed = FALSE
    /\ worker = "none"
    /\ cur = None /\ base = 0 /\ round = 0 /\ tries = 0 /\ outcome = "none"
    /\ lastRun = [t \in Task |-> 0]
    /\ faults = 0

-----------------------------------------------------------------------------
(* RPC handlers, on the GUI thread *)

\* The locked part of _enqueue_new_task and restart_from_checkpoint: a fresh
\* task t with record rec, made from the task source (t itself when there is
\* none), which is cached.  writes is the number of events appended; when the
\* second of two raises, the first has already written the file.
EnqueueNewTask(t, rec, source, writes) ==
    /\ mem[t] = NoRecord /\ disk[t] = NoRecord
    /\ projects' = projects \cup {t}
    /\ mem' = [mem EXCEPT ![source] = Found(source), ![t] = rec]
    /\ ClearControl(t)
    /\ \E ok \in WriteOutcomes :
        /\ CountFault(ok)
        /\ IF ok
           THEN /\ disk' = [disk EXCEPT ![t] = rec]
                /\ EnsureWorkerAndPut(t)
           ELSE /\ \/ disk' = disk
                   \/ writes > 1 /\ disk' = [disk EXCEPT ![t] = rec]
                /\ UNCHANGED <<worker, stopFlag, queue>>
    /\ UNCHANGED <<active, app, listed, run, lastRun>>

NewRecord(attempt, ckpt) ==
    [status |-> "queued", attempt |-> attempt, ckpt |-> ckpt, high |-> ckpt]

StartTask(t) ==
    /\ app = "up"
    /\ EnqueueNewTask(t, NewRecord(1, 0), t, 1)

\* retry_remaining_operations and rebase_patch: a new task for operations of
\* a plan, which only a completed task has.
RetryOperations(source, t) ==
    /\ app = "up" /\ Known(source)
    /\ Found(source).status = "completed"
    /\ EnqueueNewTask(t, NewRecord(1, 0), source, 2)

\* restart_from_checkpoint: a new task that resumes at an old checkpoint.
RestartFromCheckpoint(source, t) ==
    /\ app = "up" /\ Known(source)
    /\ t \in Again /\ Found(source).attempt < MaxAttempt
    /\ \E step \in 1..Found(source).high :
        EnqueueNewTask(t, NewRecord(Found(source).attempt + 1, step), source, 2)

\* get_task, and every other handler that finds the task and then refuses.
GetTask(t) ==
    /\ app = "up" /\ Known(t)
    /\ mem' = [mem EXCEPT ![t] = Found(t)]
    /\ UNCHANGED <<disk, queue, active, control, projects, stopFlag, app,
                   listed, worker, run, lastRun, faults>>

\* list_tasks: files of tasks that were active when an earlier process died
\* are rewritten as interrupted, but not cached.
ListTasks ==
    /\ app = "up"
    /\ \E ok \in WriteOutcomes, written \in SUBSET Task :
        LET stale == {t \in Task : mem[t] = NoRecord
                                   /\ disk[t].status \in ActiveStatuses}
        IN  /\ IF ok THEN written = stale
                     ELSE written \subseteq stale /\ written # stale
            /\ disk' = [t \in Task |->
                          IF t \in written
                          THEN Interrupted(disk[t]) ELSE disk[t]]
            /\ listed' = (listed \/ ok)
            /\ CountFault(ok)
    /\ UNCHANGED <<mem, queue, active, control, projects, stopFlag, app,
                   worker, run, lastRun>>

PauseTask(t) ==
    LET task == Found(t)
    IN  /\ app = "up" /\ Known(t)
        /\ task.status \in {"queued", "running", "pausing"}
        /\ ctlPause' = ctlPause \cup {t}
        /\ reqCancel' = reqCancel \cup {t}
        /\ \E ok \in WriteOutcomes :
            AppendEvent(t, [task EXCEPT !.status = StatusAfterPause(@)], ok)
        /\ UNCHANGED <<queue, active, ctlCancel, projects, stopFlag, app,
                       listed, worker, run, lastRun>>

ResumeTask(t) ==
    LET task == Found(t)
    IN  /\ app = "up" /\ Known(t)
        /\ task.status \in {"paused", "interrupted"}
        /\ t \in Again /\ task.attempt < MaxAttempt
        /\ ClearControl(t)
        /\ projects' = projects \cup {t}
        /\ \E ok \in WriteOutcomes :
            /\ AppendEvent(t, [task EXCEPT !.status = "queued",
                                           !.attempt = @ + 1], ok)
            /\ IF ok THEN EnsureWorkerAndPut(t)
                     ELSE UNCHANGED <<worker, stopFlag, queue>>
        /\ UNCHANGED <<active, app, listed, run, lastRun>>

CancelTask(t) ==
    LET task == Found(t)
        next == IF active = t THEN "cancelling" ELSE "cancelled"
    IN  /\ app = "up" /\ Known(t)
        /\ Cancellable(task.status)
        /\ ctlCancel' = ctlCancel \cup {t}
        /\ ctlPause' = ctlPause \ {t}
        /\ reqCancel' = reqCancel \cup {t}
        /\ \E ok \in WriteOutcomes :
            AppendEvent(t, [task EXCEPT !.status = next], ok)
        /\ UNCHANGED <<queue, active, projects, stopFlag, app, listed, worker,
                       run, lastRun>>

-----------------------------------------------------------------------------
(* stop(), when the Qt event loop has ended: no handler runs any more *)

StopSignal ==
    /\ app = "up"
    /\ app' = "stopping"
    /\ stopFlag' = TRUE
    /\ UNCHANGED <<mem, disk, queue, active, control, projects, listed, worker,
                   run, lastRun, faults>>

\* The locked loop over _tasks; a write that raises ends it, and stop() too.
StopMark ==
    /\ app = "stopping"
    /\ \E ok \in WriteOutcomes, marked \in SUBSET Task :
        LET live == {t \in Task : mem[t].status \in ActiveStatuses}
            Interrupt(recs, S) ==
                [t \in Task |-> IF t \in S THEN Interrupted(mem[t])
                                          ELSE recs[t]]
        IN  /\ CountFault(ok)
            /\ IF ok
               THEN /\ marked = live
                    /\ mem' = Interrupt(mem, live)
                    /\ app' = "marked"
               ELSE /\ marked \subseteq live
                    /\ \E failed \in live \ marked :
                         mem' = Interrupt(mem, marked \cup {failed})
                    /\ app' = "stopped"
            /\ disk' = Interrupt(disk, marked)
            /\ ctlCancel' = ctlCancel \cup marked
            /\ reqCancel' = reqCancel \cup marked
    /\ UNCHANGED <<queue, active, ctlPause, projects, stopFlag, listed, worker,
                   run, lastRun>>

StopPill ==
    /\ app = "marked"
    /\ app' = "stopped"
    /\ queue' = Append(queue, Pill)
    /\ UNCHANGED <<mem, disk, active, control, projects, stopFlag, listed,
                   worker, run, lastRun, faults>>

\* The process ends, after stop() or by a crash or kill at any moment; the
\* worker is a daemon thread and ends with it.  Only the files survive.
ProcessEnds ==
    /\ app # "down"
    /\ app' = "down"
    /\ mem' = [t \in Task |-> NoRecord]
    /\ queue' = <<>>
    /\ active' = None
    /\ ctlCancel' = {} /\ ctlPause' = {} /\ reqCancel' = {}
    /\ projects' = {}
    /\ stopFlag' = FALSE
    /\ listed' = FALSE
    /\ worker' = "none"
    /\ ForgetRun
    /\ UNCHANGED <<disk, lastRun, faults>>

ProcessStarts ==
    /\ app = "down"
    /\ app' = "up"
    /\ UNCHANGED <<mem, disk, queue, active, control, projects, stopFlag,
                   listed, worker, run, lastRun, faults>>

-----------------------------------------------------------------------------
(* The worker thread *)

WorkerLoop ==
    /\ worker = "loop"
    /\ worker' = IF stopFlag THEN "dead" ELSE "get"
    /\ UNCHANGED <<mem, disk, queue, active, control, projects, stopFlag, app,
                   listed, run, lastRun, faults>>

WorkerGet ==
    /\ worker = "get" /\ queue # <<>>
    /\ queue' = Tail(queue)
    /\ IF Head(queue) = Pill
       THEN worker' = "dead" /\ cur' = cur
       ELSE worker' = "got" /\ cur' = Head(queue)
    /\ UNCHANGED <<mem, disk, active, control, projects, stopFlag, app, listed,
                   base, round, tries, outcome, lastRun, faults>>

\* The queue entry is stale: the task is no longer queued.
WorkerSkip ==
    /\ worker = "got"
    /\ ~StillQueued
    /\ worker' = "loop"
    /\ ForgetRun
    /\ UNCHANGED <<mem, disk, queue, active, control, projects, stopFlag, app,
                   listed, lastRun, faults>>

\* A failing write, or a task without a project, raises outside the try: the
\* thread dies with the task running and active.
WorkerBegin ==
    /\ worker = "got"
    /\ StillQueued
    /\ active' = cur
    /\ \E ok \in WriteOutcomes :
        /\ AppendEvent(cur, [mem[cur] EXCEPT !.status = "running"], ok)
        /\ IF ok /\ cur \in projects
           THEN /\ worker' = "run"
                /\ lastRun' = [lastRun EXCEPT ![cur] = mem[cur].attempt]
                /\ base' = mem[cur].ckpt
                /\ round' = mem[cur].ckpt
                /\ tries' = 1
                /\ UNCHANGED <<cur, outcome>>
           ELSE /\ worker' = "dead"
                /\ ForgetRun
                /\ lastRun' = lastRun
    /\ UNCHANGED <<queue, control, projects, stopFlag, app, listed>>

\* An exception leaves ai_service.run and heads for the except clauses.
RaiseWith(exception) ==
    /\ worker' = "except"
    /\ outcome' = exception

\* The head of a tool round: checkpoint(), then the "thinking" event.  It also
\* stands for what run does before it: without an API key, with a damaged
\* checkpoint or with the circuits of all candidates open it raises.
RoundBegin ==
    /\ worker = "run"
    /\ \/ /\ Raised # "none"
          /\ RaiseWith(Raised)
          /\ UNCHANGED <<mem, disk, faults>>
       \/ /\ Raised = "none"
          /\ RaiseWith("failed")
          /\ UNCHANGED <<mem, disk, faults>>
       \/ /\ Raised = "none" /\ RoundsLeft
          /\ \E ok \in WriteOutcomes :
              /\ AppendEvent(cur, mem[cur], ok)
              /\ IF ok THEN worker' = "provider" /\ outcome' = outcome
                       ELSE RaiseWith("failed")
    /\ UNCHANGED <<queue, active, control, projects, stopFlag, app, listed,
                   cur, base, round, tries, lastRun>>

\* The provider answers: a final text, or tool calls.
ProviderAnswers ==
    /\ worker = "provider"
    /\ worker' \in {"final", "tools"}
    /\ UNCHANGED <<mem, disk, queue, active, control, projects, stopFlag, app,
                   listed, run, lastRun, faults>>

\* ProviderRequestCancelled: the request was aborted by pause, cancel or stop.
\* Otherwise the provider or a tool raises something run does not catch.
ProviderRaises ==
    /\ worker = "provider"
    /\ \/ cur \in reqCancel /\ RaiseWith("cancelled")
       \/ RaiseWith("failed")
    /\ UNCHANGED <<mem, disk, queue, active, control, projects, stopFlag, app,
                   listed, cur, base, round, tries, lastRun, faults>>

\* ProviderUnavailableError: the next candidate model runs the tool loop from
\* the checkpoint this run was given, not from the ones saved since.
ProviderUnavailable ==
    /\ worker = "provider"
    /\ IF tries < Models
       THEN /\ tries' = tries + 1
            /\ round' = base
            /\ worker' = "run" /\ outcome' = outcome
       ELSE /\ RaiseWith("failed")
            /\ UNCHANGED <<tries, round>>
    /\ UNCHANGED <<mem, disk, queue, active, control, projects, stopFlag, app,
                   listed, cur, base, lastRun, faults>>

\* checkpoint() after a final answer, then _parse_plan, which may raise; no
\* request of the user is looked at any more.
FinalAnswer ==
    /\ worker = "final"
    /\ \/ Raised # "none" /\ RaiseWith(Raised)
       \/ Raised = "none" /\ RaiseWith("failed")
       \/ Raised = "none" /\ worker' = "finish" /\ outcome' = outcome
    /\ UNCHANGED <<mem, disk, queue, active, control, projects, stopFlag, app,
                   listed, cur, base, round, tries, lastRun, faults>>

\* checkpoint(), the tools, and _save_execution_checkpoint.
ToolCalls ==
    /\ worker = "tools"
    /\ \/ /\ Raised # "none"
          /\ RaiseWith(Raised)
          /\ UNCHANGED <<mem, disk, faults, round>>
       \/ /\ Raised = "none"
          /\ \E ok \in WriteOutcomes :
              /\ AppendEvent(cur, [mem[cur] EXCEPT !.ckpt = round + 1,
                                     !.high = IF round + 1 > @ THEN round + 1
                                              ELSE @], ok)
              /\ IF ok THEN worker' = "run" /\ outcome' = outcome
                       ELSE RaiseWith("failed")
          /\ round' = round + 1
    /\ UNCHANGED <<queue, active, control, projects, stopFlag, app, listed,
                   cur, base, tries, lastRun>>

\* The locked block that completes the task, still inside the try: a failing
\* write is caught by `except Exception`.
WorkerComplete ==
    /\ worker = "finish"
    /\ \E ok \in WriteOutcomes :
        /\ AppendEvent(cur, [mem[cur] EXCEPT !.status = "completed",
                                             !.ckpt = 0], ok)
        /\ IF ok THEN worker' = "fin" /\ outcome' = outcome
                 ELSE RaiseWith("failed")
    /\ UNCHANGED <<queue, active, control, projects, stopFlag, app, listed,
                   cur, base, round, tries, lastRun>>

\* The status the except clauses give the task.  AgentTaskPaused does not look
\* at the status; the cancelled clause does.
StatusAfter ==
    LET status == mem[cur].status
    IN  CASE outcome = "paused" -> "paused"
          [] outcome = "failed" -> "failed"
          [] outcome = "cancelled" /\ status # "interrupted"
                /\ (cur \in ctlPause \/ status = "pausing") -> "paused"
          [] outcome = "cancelled" /\ status # "interrupted"
                /\ ~(cur \in ctlPause \/ status = "pausing") -> "cancelled"
          [] OTHER -> status

WorkerExcept ==
    /\ worker = "except"
    /\ IF outcome = "interrupted"
          \/ (outcome = "cancelled" /\ mem[cur].status = "interrupted")
       THEN worker' = "fin" /\ UNCHANGED <<mem, disk, faults>>
       ELSE \E ok \in WriteOutcomes :
              /\ AppendEvent(cur, [mem[cur] EXCEPT !.status = StatusAfter], ok)
              /\ worker' = IF ok THEN "fin" ELSE "finDying"
    /\ UNCHANGED <<queue, active, control, projects, stopFlag, app, listed,
                   run, lastRun>>

\* The finally clause, in a lock section of its own.
WorkerFinally ==
    /\ worker \in {"fin", "finDying"}
    /\ active' = IF active = cur THEN None ELSE active
    /\ projects' = IF mem[cur].status \in KeptStatuses
                   THEN projects ELSE projects \ {cur}
    /\ worker' = IF worker = "fin" THEN "loop" ELSE "dead"
    /\ ForgetRun
    /\ UNCHANGED <<mem, disk, queue, control, stopFlag, app, listed, lastRun,
                   faults>>

-----------------------------------------------------------------------------

UserStep ==
    \/ \E t \in Task : \/ StartTask(t) \/ GetTask(t) \/ PauseTask(t)
                       \/ ResumeTask(t) \/ CancelTask(t)
    \/ \E s, t \in Task : RetryOperations(s, t) \/ RestartFromCheckpoint(s, t)
    \/ ListTasks

ProcessStep == StopSignal \/ StopMark \/ StopPill \/ ProcessEnds \/ ProcessStarts

WorkerStep ==
    \/ WorkerLoop \/ WorkerGet \/ WorkerSkip \/ WorkerBegin
    \/ RoundBegin \/ ProviderAnswers \/ ProviderRaises \/ ProviderUnavailable
    \/ FinalAnswer \/ ToolCalls
    \/ WorkerComplete \/ WorkerExcept \/ WorkerFinally

\* stop() runs on to its end, and then the process exits.
Shutdown == StopMark \/ StopPill \/ (app = "stopped" /\ ProcessEnds)

Next == UserStep \/ ProcessStep \/ WorkerStep

Spec == Init /\ [][Next]_vars

(***************************************************************************)
(* Only the program's own threads are fair: the worker, because the system *)
(* runs a ready thread and a provider request ends (time-out or abort);    *)
(* and stop(), once it has been entered.  Nothing makes the user press a   *)
(* button or close the program.                                            *)
(***************************************************************************)
FairSpec == Spec /\ WF_vars(WorkerStep) /\ WF_vars(Shutdown)

-----------------------------------------------------------------------------
(* Properties *)

TypeOK ==
    /\ mem \in [Task -> Record]
    /\ disk \in [Task -> Record]
    /\ queue \in Seq(Task \cup {Pill})
    /\ active \in Task \cup {None}
    /\ ctlCancel \subseteq Task /\ ctlPause \subseteq Task
    /\ reqCancel \subseteq Task /\ projects \subseteq Task
    /\ stopFlag \in BOOLEAN /\ listed \in BOOLEAN
    /\ app \in {"up", "stopping", "marked", "stopped", "down"}
    /\ worker \in WorkerStates
    /\ cur \in Task \cup {None}
    /\ base \in 0..MaxRound /\ round \in 0..MaxRound
    /\ tries \in 0..Models
    /\ outcome \in Outcomes
    /\ lastRun \in [Task -> 0..MaxAttempt]
    /\ faults \in 0..MaxFaults

\* The worker is somewhere between the start of cur and its last lock section.
Executing == worker \in {"run", "provider", "final", "tools", "finish",
                        "except"}

\* A queued task can still run: its entry is in the queue or in the hands of
\* a live worker, also after a pause and a resume left a second, stale entry
\* there, or while the worker is between two lock sections of the last run.
\* (A write that fails outside the worker's try kills the thread.)
QueuedIsReachable ==
    \A t \in Task : faults = 0 /\ app = "up" /\ mem[t].status = "queued" =>
        /\ WorkerAlive
        /\ \/ \E i \in 1..Len(queue) : queue[i] = t
           \/ worker = "got" /\ cur = t

\* A queued task starts clean: no pause, cancel or aborted request of an
\* earlier attempt is left to end the next one, and it has the project that
\* the worker copies outside its try (the lookup would kill the thread).
QueuedIsFresh ==
    \A t \in Task : mem[t].status = "queued" =>
        /\ t \notin ctlCancel \cup ctlPause \cup reqCancel
        /\ t \in projects

\* A task shown as running or pausing is the active one and the worker is
\* executing it, so its pause or completion is still to come, unless a write
\* has failed.
RunningIsOwned ==
    \A t \in Task : faults = 0 /\ app = "up"
                       /\ mem[t].status \in {"running", "pausing"} =>
        active = t /\ cur = t /\ Executing

\* No attempt of a task is handed to the AI twice, whatever stale entries the
\* queue holds and whenever the process died: each costs provider calls.
AttemptRunsOnce ==
    [][worker = "got" /\ worker' = "run" => mem[cur].attempt > lastRun[cur]]_vars

\* What the user saw end stays ended: a worker that still held the task, a
\* restart of the process or a later handler never takes a terminal status
\* that reached the file back.
TerminalIsFinal ==
    [][\A t \in Task : disk[t].status \in TerminalStatuses =>
          /\ disk'[t] = disk[t]
          /\ mem'[t] \in {disk[t], NoRecord}]_vars

\* A saved execution checkpoint is given up only when the task ends or when
\* another candidate model redoes its rounds: no pause, resume, crash, failed
\* write or restart loses the finished tool calls of a task that can go on.
CheckpointSurvives ==
    [][\A t \in Task : disk'[t].ckpt < disk[t].ckpt =>
          \/ disk'[t].status \in TerminalStatuses
          \/ cur = t /\ tries > 1]_vars

\* Work never hangs in the queue, in execution or in a pause request: the
\* worker alone brings it to another status, whatever the user does.
WorkSettles ==
    \A t \in Task :
        mem[t].status \in {"queued", "running", "pausing"}
            ~> mem[t].status \notin {"queued", "running", "pausing"}

\* "Provider-level abort" (README): a task that is being cancelled reaches an
\* end without another click.  The code does not provide it: a cancel between
\* the worker's except clause and its finally clause finds the task still
\* active, marks it cancelling, and nobody is left to finish it.
CancelSettles ==
    \A t \in Task :
        mem[t].status = "cancelling" ~> mem[t].status # "cancelling"

=============================================================================
