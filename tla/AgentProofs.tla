---------------------------- MODULE AgentProofs ----------------------------
(***************************************************************************)
(* Proofs about the tasks of the Agent and the plans they end with.        *)
(***************************************************************************)
EXTENDS AgentTasks, AgentPatch, SequenceTheorems, TLAPS

-----------------------------------------------------------------------------
(***************************************************************************)
(* Proofs about AgentTasks, for any number of tasks, attempts, tool rounds,*)
(* candidate models and failing writes.                                    *)
(*                                                                         *)
(* The argument has four layers.  TypeInv is TypeOK with what the worker's *)
(* place says of its locals; it is inductive on its own.  On top of it,    *)
(* IInv relates the two copies of a record (memory and file) to the last   *)
(* attempt that was run; QueuedIsFresh and AttemptRunsOnce follow from it. *)
(* EndsInv adds what the two copies say of ends and checkpoints, for       *)
(* TerminalIsFinal and CheckpointSurvives.  OwnInv says, as long as no     *)
(* write failed, who holds a task, for RunningIsOwned and                  *)
(* QueuedIsReachable.                                                      *)
(***************************************************************************)
-----------------------------------------------------------------------------
(* Type correctness *)

\* Away from the queue the worker has a task; within a round, a round number.
Busy == {"got", "run", "provider", "final", "tools", "finish", "except", "fin",
         "finDying"}
WorkerLocals ==
    /\ worker \in Busy => cur \in Task
    /\ worker \in {"provider", "final", "tools"} => round < MaxRound

TypeInv == TypeOK /\ WorkerLocals

\* NoRecord is a record, with a status no task ever has.
LEMMA NoRecordType == NoRecord \in Record /\ NoRecord.status = "absent"
  BY BoundsAssumption DEF NoRecord, Record, Status

\* A record made for a fresh task is well formed.
LEMMA NewRecordType ==
  ASSUME NEW attempt \in 1..MaxAttempt, NEW ckpt \in 0..MaxRound
  PROVE  /\ NewRecord(attempt, ckpt) \in Record
         /\ NewRecord(attempt, ckpt).status = "queued"
         /\ NewRecord(attempt, ckpt).attempt = attempt
  BY BoundsAssumption DEF NewRecord, Record, Status, ActiveStatuses

\* What the handlers find is a record.
LEMMA FoundType ==
  ASSUME TypeOK, NEW t \in Task
  PROVE  Found(t) \in Record
  BY DEF TypeOK, Found

\* Counting a write keeps the fault count within its bound.
LEMMA CountFaultType ==
  ASSUME TypeOK, NEW ok \in WriteOutcomes, CountFault(ok)
  PROVE  faults' \in 0..MaxFaults
  <1>1. CASE faults < MaxFaults
    BY <1>1, BoundsAssumption DEF TypeOK, WriteOutcomes, CountFault
  <1>2. CASE ~(faults < MaxFaults)
    <2>1. ok = TRUE
      BY <1>2 DEF WriteOutcomes
    <2> QED
      BY <2>1 DEF TypeOK, CountFault
  <1> QED
    BY <1>1, <1>2

\* Appending an event keeps both copies of the records well formed.
LEMMA AppendEventType ==
  ASSUME TypeOK, NEW t \in Task, NEW rec \in Record, NEW ok \in WriteOutcomes,
         AppendEvent(t, rec, ok)
  PROVE  /\ mem' \in [Task -> Record]
         /\ disk' \in [Task -> Record]
         /\ faults' \in 0..MaxFaults
  <1>1. CountFault(ok)
    BY DEF AppendEvent
  <1>2. faults' \in 0..MaxFaults
    BY <1>1, CountFaultType
  <1> QED
    BY <1>2 DEF AppendEvent, TypeOK

\* So does putting a task in the queue, whatever the state of the worker.
LEMMA PutType ==
  ASSUME TypeInv, NEW t \in Task, EnsureWorkerAndPut(t), UNCHANGED run
  PROVE  /\ queue' \in Seq(Task \cup {Pill})
         /\ stopFlag' \in BOOLEAN
         /\ worker' \in WorkerStates
         /\ WorkerLocals'
  <1>1. queue \in Seq(Task \cup {Pill}) /\ t \in Task \cup {Pill}
    BY DEF TypeInv, TypeOK
  <1>2. queue' \in Seq(Task \cup {Pill})
    BY <1>1 DEF EnsureWorkerAndPut
  <1>3. stopFlag' \in BOOLEAN /\ worker' \in WorkerStates
    BY DEF TypeInv, TypeOK, EnsureWorkerAndPut, WorkerStates
  <1>4. worker' = worker \/ worker' = "loop"
    BY DEF EnsureWorkerAndPut
  <1>5. WorkerLocals'
    BY <1>4 DEF TypeInv, WorkerLocals, Busy, run
  <1> QED
    BY <1>2, <1>3, <1>5

\* A fresh task, the common part of three handlers.
LEMMA EnqueueType ==
  ASSUME TypeInv, NEW t \in Task, NEW rec \in Record, NEW source \in Task,
         NEW writes, EnqueueNewTask(t, rec, source, writes)
  PROVE  TypeInv'
  <1>1. Found(source) \in Record
    BY FoundType DEF TypeInv
  <1>2. PICK ok \in WriteOutcomes :
          /\ CountFault(ok)
          /\ IF ok
             THEN /\ disk' = [disk EXCEPT ![t] = rec]
                  /\ EnsureWorkerAndPut(t)
             ELSE /\ \/ disk' = disk
                     \/ writes > 1 /\ disk' = [disk EXCEPT ![t] = rec]
                  /\ UNCHANGED <<worker, stopFlag, queue>>
    BY DEF EnqueueNewTask
  <1>3. UNCHANGED <<active, app, listed, run, lastRun>>
    BY DEF EnqueueNewTask
  <1>4. faults' \in 0..MaxFaults
    BY <1>2, CountFaultType DEF TypeInv
  <1>5. mem' \in [Task -> Record] /\ disk' \in [Task -> Record]
    BY <1>1, <1>2 DEF TypeInv, TypeOK, EnqueueNewTask
  <1>6. /\ queue' \in Seq(Task \cup {Pill}) /\ stopFlag' \in BOOLEAN
        /\ worker' \in WorkerStates /\ WorkerLocals'
    <2>1. CASE ok
      BY <2>1, <1>2, <1>3, PutType
    <2>2. CASE ~ok
      BY <2>2, <1>2, <1>3 DEF TypeInv, TypeOK, WorkerLocals, run
    <2> QED
      BY <2>1, <2>2
  <1> QED
    BY <1>3, <1>4, <1>5, <1>6
    DEF TypeInv, TypeOK, EnqueueNewTask, ClearControl, run

\* The initial state.
LEMMA InitType == Init => TypeInv
  <1> SUFFICES ASSUME Init PROVE TypeInv
    OBVIOUS
  <1>1. mem \in [Task -> Record] /\ disk \in [Task -> Record]
    BY NoRecordType DEF Init
  <1>2. queue \in Seq(Task \cup {Pill})
    BY DEF Init
  <1>3. /\ lastRun \in [Task -> 0..MaxAttempt] /\ faults \in 0..MaxFaults
        /\ base \in 0..MaxRound /\ round \in 0..MaxRound /\ tries \in 0..Models
    BY BoundsAssumption DEF Init
  <1>4. WorkerLocals
    BY DEF Init, WorkerLocals, Busy
  <1> QED
    BY <1>1, <1>2, <1>3, <1>4
    DEF Init, TypeInv, TypeOK, WorkerStates, Outcomes

\* The RPC handlers.
LEMMA UserStepType == TypeInv /\ UserStep => TypeInv'
  <1> SUFFICES ASSUME TypeInv, UserStep
               PROVE  TypeInv'
    OBVIOUS
  <1>1. ASSUME NEW t \in Task, StartTask(t)
        PROVE  TypeInv'
    BY <1>1, EnqueueType, NewRecordType, BoundsAssumption DEF StartTask
  <1>2. ASSUME NEW s \in Task, NEW t \in Task, RetryOperations(s, t)
        PROVE  TypeInv'
    BY <1>2, EnqueueType, NewRecordType, BoundsAssumption DEF RetryOperations
  <1>3. ASSUME NEW s \in Task, NEW t \in Task, RestartFromCheckpoint(s, t)
        PROVE  TypeInv'
    <2>1. Found(s) \in Record
      BY FoundType DEF TypeInv
    <2>2. PICK step \in 1..Found(s).high :
            EnqueueNewTask(t, NewRecord(Found(s).attempt + 1, step), s, 2)
      BY <1>3 DEF RestartFromCheckpoint
    <2>3. Found(s).attempt + 1 \in 1..MaxAttempt /\ step \in 0..MaxRound
      BY <1>3, <2>1, BoundsAssumption DEF RestartFromCheckpoint, Record
    <2> QED
      BY <2>2, <2>3, EnqueueType, NewRecordType
  <1>4. ASSUME NEW t \in Task, GetTask(t)
        PROVE  TypeInv'
    <2>1. mem' \in [Task -> Record]
      BY <1>4, FoundType DEF TypeInv, TypeOK, GetTask
    <2> QED
      BY <1>4, <2>1 DEF TypeInv, TypeOK, WorkerLocals, GetTask, control, run
  <1>5. ASSUME NEW t \in Task, PauseTask(t)
        PROVE  TypeInv'
    <2> DEFINE rec == [Found(t) EXCEPT !.status = StatusAfterPause(@)]
    <2>1. PICK ok \in WriteOutcomes : AppendEvent(t, rec, ok)
      BY <1>5 DEF PauseTask
    <2>2. rec \in Record
      <3>1. Found(t) \in Record
        BY FoundType DEF TypeInv
      <3>2. StatusAfterPause(Found(t).status) \in Status
        BY DEF StatusAfterPause, Status, ActiveStatuses
      <3> QED
        BY <3>1, <3>2 DEF Record
    <2>3. mem' \in [Task -> Record] /\ disk' \in [Task -> Record]
          /\ faults' \in 0..MaxFaults
      BY <2>1, <2>2, AppendEventType DEF TypeInv
    <2> QED
      BY <1>5, <2>3 DEF TypeInv, TypeOK, WorkerLocals, PauseTask, run
  <1>6. ASSUME NEW t \in Task, ResumeTask(t)
        PROVE  TypeInv'
    <2> DEFINE rec == [Found(t) EXCEPT !.status = "queued",
                                       !.attempt = @ + 1]
    <2>1. PICK ok \in WriteOutcomes :
            /\ AppendEvent(t, rec, ok)
            /\ IF ok THEN EnsureWorkerAndPut(t)
                     ELSE UNCHANGED <<worker, stopFlag, queue>>
      BY <1>6 DEF ResumeTask
    <2>2. rec \in Record
      <3>1. Found(t) \in Record
        BY FoundType DEF TypeInv
      <3>2. Found(t).attempt < MaxAttempt
        BY <1>6 DEF ResumeTask
      <3>3. Found(t).attempt + 1 \in 0..MaxAttempt
        BY <3>1, <3>2, BoundsAssumption DEF Record
      <3> QED
        BY <3>1, <3>3 DEF Record, Status, ActiveStatuses
    <2>3. mem' \in [Task -> Record] /\ disk' \in [Task -> Record]
          /\ faults' \in 0..MaxFaults
      BY <2>1, <2>2, AppendEventType DEF TypeInv
    <2>4. UNCHANGED <<active, app, listed, run, lastRun>>
      BY <1>6 DEF ResumeTask
    <2>5. /\ queue' \in Seq(Task \cup {Pill}) /\ stopFlag' \in BOOLEAN
          /\ worker' \in WorkerStates /\ WorkerLocals'
      <3>1. CASE ok
        BY <3>1, <2>1, <2>4, PutType
      <3>2. CASE ~ok
        BY <3>2, <2>1, <2>4 DEF TypeInv, TypeOK, WorkerLocals, run
      <3> QED
        BY <3>1, <3>2
    <2> QED
      BY <1>6, <2>3, <2>4, <2>5
      DEF TypeInv, TypeOK, ResumeTask, ClearControl, run
  <1>7. ASSUME NEW t \in Task, CancelTask(t)
        PROVE  TypeInv'
    <2> DEFINE rec == [Found(t) EXCEPT !.status =
                         IF active = t THEN "cancelling" ELSE "cancelled"]
    <2>1. PICK ok \in WriteOutcomes : AppendEvent(t, rec, ok)
      BY <1>7 DEF CancelTask
    <2>2. rec \in Record
      BY FoundType DEF TypeInv, Record, Status, ActiveStatuses,
                       TerminalStatuses
    <2>3. mem' \in [Task -> Record] /\ disk' \in [Task -> Record]
          /\ faults' \in 0..MaxFaults
      BY <2>1, <2>2, AppendEventType DEF TypeInv
    <2> QED
      BY <1>7, <2>3 DEF TypeInv, TypeOK, WorkerLocals, CancelTask, run
  <1>8. CASE ListTasks
    <2>1. PICK ok \in WriteOutcomes, written \in SUBSET Task :
            /\ disk' = [t \in Task |-> IF t \in written
                                       THEN Interrupted(disk[t]) ELSE disk[t]]
            /\ listed' = (listed \/ ok)
            /\ CountFault(ok)
      BY <1>8 DEF ListTasks
    <2>2. faults' \in 0..MaxFaults
      BY <2>1, CountFaultType DEF TypeInv
    <2>3. disk' \in [Task -> Record]
      BY <2>1 DEF TypeInv, TypeOK, Interrupted, Record, Status
    <2>4. listed' \in BOOLEAN
      BY <2>1
    <2> QED
      BY <1>8, <2>2, <2>3, <2>4
      DEF TypeInv, TypeOK, WorkerLocals, ListTasks, control, run
  <1> QED
    BY <1>1, <1>2, <1>3, <1>4, <1>5, <1>6, <1>7, <1>8 DEF UserStep

\* What StopMark does, successful or not: the files in marked are written, the
\* records in S are changed in memory.
Live == {t \in Task : mem[t].status \in ActiveStatuses}
Interrupt(recs, S) ==
    [t \in Task |-> IF t \in S THEN Interrupted(mem[t]) ELSE recs[t]]
StopMarks(ok, marked, S) ==
    /\ marked \subseteq S
    /\ CountFault(ok)
    /\ disk' = Interrupt(disk, marked)
    /\ mem' = Interrupt(mem, S)
    /\ app' \in {"marked", "stopped"}
    /\ ctlCancel' = ctlCancel \cup marked
    /\ reqCancel' = reqCancel \cup marked

LEMMA StopMarkShape ==
  ASSUME StopMark
  PROVE  \E ok \in WriteOutcomes, marked \in SUBSET Live, S \in SUBSET Live :
           StopMarks(ok, marked, S)
  <1>1. PICK ok \in WriteOutcomes, marked \in SUBSET Task :
          /\ CountFault(ok)
          /\ IF ok
             THEN /\ marked = Live
                  /\ mem' = Interrupt(mem, Live)
                  /\ app' = "marked"
             ELSE /\ marked \subseteq Live
                  /\ \E failed \in Live \ marked :
                       mem' = Interrupt(mem, marked \cup {failed})
                  /\ app' = "stopped"
          /\ disk' = Interrupt(disk, marked)
          /\ ctlCancel' = ctlCancel \cup marked
          /\ reqCancel' = reqCancel \cup marked
    BY DEF StopMark, Live, Interrupt
  <1>2. CASE ok
    BY <1>1, <1>2 DEF StopMarks
  <1>3. CASE ~ok
    <2>1. PICK failed \in Live : mem' = Interrupt(mem, marked \cup {failed})
      BY <1>1, <1>3
    <2>2. StopMarks(ok, marked, marked \cup {failed})
      BY <1>1, <1>3, <2>1 DEF StopMarks
    <2>3. marked \in SUBSET Live /\ marked \cup {failed} \in SUBSET Live
      BY <1>1, <1>3
    <2> QED
      BY <2>2, <2>3
  <1> QED
    BY <1>2, <1>3

\* stop(), the end of the process and its next start.
LEMMA ProcessStepType == TypeInv /\ ProcessStep => TypeInv'
  <1> SUFFICES ASSUME TypeInv, ProcessStep
               PROVE  TypeInv'
    OBVIOUS
  <1>1. CASE StopSignal
    BY <1>1 DEF TypeInv, TypeOK, WorkerLocals, StopSignal, control, run
  <1>2. CASE StopMark
    <2>1. PICK ok \in WriteOutcomes, marked \in SUBSET Live, S \in SUBSET Live :
            StopMarks(ok, marked, S)
      BY <1>2, StopMarkShape
    <2>2. faults' \in 0..MaxFaults
      BY <2>1, CountFaultType DEF TypeInv, StopMarks
    <2>3. \A t \in Task : Interrupted(mem[t]) \in Record
      BY DEF TypeInv, TypeOK, Interrupted, Record, Status
    <2>4. mem' \in [Task -> Record] /\ disk' \in [Task -> Record]
      BY <2>1, <2>3 DEF TypeInv, TypeOK, StopMarks, Interrupt
    <2> QED
      BY <1>2, <2>1, <2>2, <2>4
      DEF TypeInv, TypeOK, WorkerLocals, StopMark, StopMarks, Live, run
  <1>3. CASE StopPill
    <2>1. queue' \in Seq(Task \cup {Pill})
      BY <1>3 DEF TypeInv, TypeOK, StopPill
    <2> QED
      BY <1>3, <2>1 DEF TypeInv, TypeOK, WorkerLocals, StopPill, control, run
  <1>4. CASE ProcessEnds
    <2>1. mem' \in [Task -> Record]
      BY <1>4, NoRecordType DEF ProcessEnds
    <2>2. /\ base' \in 0..MaxRound /\ round' \in 0..MaxRound
          /\ tries' \in 0..Models
      BY <1>4, BoundsAssumption DEF ProcessEnds, ForgetRun
    <2>3. queue' \in Seq(Task \cup {Pill})
      BY <1>4 DEF ProcessEnds
    <2> QED
      BY <1>4, <2>1, <2>2, <2>3
      DEF TypeInv, TypeOK, WorkerLocals, WorkerStates, Outcomes, Busy,
          ProcessEnds, ForgetRun
  <1>5. CASE ProcessStarts
    BY <1>5 DEF TypeInv, TypeOK, WorkerLocals, ProcessStarts, control, run
  <1> QED
    BY <1>1, <1>2, <1>3, <1>4, <1>5 DEF ProcessStep

\* The worker's locals are forgotten when it leaves the body of its loop.
LEMMA ForgetRunType ==
  ASSUME ForgetRun
  PROVE  /\ cur' \in Task \cup {None} /\ base' \in 0..MaxRound
         /\ round' \in 0..MaxRound /\ tries' \in 0..Models
         /\ outcome' \in Outcomes
  BY BoundsAssumption DEF ForgetRun, Outcomes

\* The worker takes a task, drops it, or starts to run it.
LEMMA WorkerStartType ==
  TypeInv /\ (WorkerLoop \/ WorkerGet \/ WorkerSkip \/ WorkerBegin) => TypeInv'
  <1> SUFFICES ASSUME TypeInv,
                      WorkerLoop \/ WorkerGet \/ WorkerSkip \/ WorkerBegin
               PROVE  TypeInv'
    OBVIOUS
  <1>1. CASE WorkerLoop
    BY <1>1 DEF TypeInv, TypeOK, WorkerLocals, WorkerStates, Busy, WorkerLoop,
                control, run
  <1>2. CASE WorkerGet
    <2>1. queue \in Seq(Task \cup {Pill}) /\ queue # <<>>
      BY <1>2 DEF TypeInv, TypeOK, WorkerGet
    <2>2. queue' \in Seq(Task \cup {Pill}) /\ Head(queue) \in Task \cup {Pill}
      BY <1>2, <2>1 DEF WorkerGet
    <2>3. cur' \in Task \cup {None} /\ worker' \in {"dead", "got"}
          /\ (worker' = "got" => cur' \in Task)
      BY <1>2, <2>2 DEF TypeInv, TypeOK, WorkerGet
    <2> QED
      BY <1>2, <2>2, <2>3
      DEF TypeInv, TypeOK, WorkerLocals, WorkerStates, Busy, WorkerGet, control
  <1>3. CASE WorkerSkip
    <2>1. ForgetRun /\ worker' = "loop"
      BY <1>3 DEF WorkerSkip
    <2> QED
      BY <1>3, <2>1, ForgetRunType
      DEF TypeInv, TypeOK, WorkerLocals, WorkerStates, Busy, WorkerSkip, control
  <1>4. CASE WorkerBegin
    <2> DEFINE rec == [mem[cur] EXCEPT !.status = "running"]
    <2>1. cur \in Task /\ mem[cur] \in Record
      BY <1>4 DEF TypeInv, TypeOK, WorkerLocals, Busy, WorkerBegin
    <2>2. PICK ok \in WriteOutcomes :
            /\ AppendEvent(cur, rec, ok)
            /\ IF ok /\ cur \in projects
               THEN /\ worker' = "run"
                    /\ lastRun' = [lastRun EXCEPT ![cur] = mem[cur].attempt]
                    /\ base' = mem[cur].ckpt
                    /\ round' = mem[cur].ckpt
                    /\ tries' = 1
                    /\ UNCHANGED <<cur, outcome>>
               ELSE /\ worker' = "dead"
                    /\ ForgetRun
                    /\ lastRun' = lastRun
      BY <1>4 DEF WorkerBegin
    <2>3. rec \in Record
      BY <2>1 DEF Record, Status, ActiveStatuses
    <2>4. mem' \in [Task -> Record] /\ disk' \in [Task -> Record]
          /\ faults' \in 0..MaxFaults
      BY <2>1, <2>2, <2>3, AppendEventType DEF TypeInv
    <2>5. lastRun' \in [Task -> 0..MaxAttempt] /\ worker' \in {"run", "dead"}
      BY <2>1, <2>2 DEF TypeInv, TypeOK, Record
    <2>6. /\ cur' \in Task \cup {None} /\ base' \in 0..MaxRound
          /\ round' \in 0..MaxRound /\ tries' \in 0..Models
          /\ outcome' \in Outcomes
          /\ worker' = "run" => cur' \in Task
      <3>1. CASE ok /\ cur \in projects
        BY <2>1, <2>2, <3>1, BoundsAssumption DEF TypeInv, TypeOK, Record
      <3>2. CASE ~(ok /\ cur \in projects)
        BY <2>2, <3>2, ForgetRunType
      <3> QED
        BY <3>1, <3>2
    <2> QED
      BY <1>4, <2>1, <2>4, <2>5, <2>6
      DEF TypeInv, TypeOK, WorkerLocals, WorkerStates, Busy, WorkerBegin,
          control
  <1> QED
    BY <1>1, <1>2, <1>3, <1>4

\* The tool rounds.
LEMMA WorkerRunType ==
  TypeInv /\ (RoundBegin \/ ProviderAnswers \/ ProviderRaises
              \/ ProviderUnavailable \/ FinalAnswer \/ ToolCalls) => TypeInv'
  <1> SUFFICES ASSUME TypeInv,
                      RoundBegin \/ ProviderAnswers \/ ProviderRaises
                      \/ ProviderUnavailable \/ FinalAnswer \/ ToolCalls
               PROVE  TypeInv'
    OBVIOUS
  <1>a. /\ worker \in Busy /\ cur \in Task /\ mem[cur] \in Record
        /\ round \in 0..MaxRound /\ round + 1 \in Nat
    BY BoundsAssumption
    DEF TypeInv, TypeOK, WorkerLocals, Busy, RoundBegin, ProviderAnswers,
        ProviderRaises, ProviderUnavailable, FinalAnswer, ToolCalls
  <1>b. Raised \in Outcomes
    BY DEF Raised, Outcomes
  <1>1. CASE RoundBegin
    <2>1. /\ worker' \in {"except", "provider"}
          /\ worker' = "provider" => round < MaxRound
          /\ outcome' \in Outcomes
      BY <1>1, <1>b DEF TypeInv, TypeOK, RoundBegin, RaiseWith, RoundsLeft,
                        Outcomes
    <2>2. \/ UNCHANGED <<mem, disk, faults>>
          \/ \E ok \in WriteOutcomes : AppendEvent(cur, mem[cur], ok)
      BY <1>1 DEF RoundBegin
    <2>3. mem' \in [Task -> Record] /\ disk' \in [Task -> Record]
          /\ faults' \in 0..MaxFaults
      BY <1>a, <2>2, AppendEventType DEF TypeInv, TypeOK
    <2> QED
      BY <1>1, <1>a, <2>1, <2>3
      DEF TypeInv, TypeOK, WorkerLocals, WorkerStates, Busy, RoundBegin, control
  <1>2. CASE ProviderAnswers
    BY <1>2, <1>a DEF TypeInv, TypeOK, WorkerLocals, WorkerStates, Busy,
                      ProviderAnswers, control, run
  <1>3. CASE ProviderRaises
    BY <1>3, <1>a DEF TypeInv, TypeOK, WorkerLocals, WorkerStates, Busy,
                      Outcomes, RaiseWith, ProviderRaises, control
  <1>4. CASE ProviderUnavailable
    <2>1. tries' \in 0..Models /\ round' \in 0..MaxRound
          /\ worker' \in {"run", "except"} /\ outcome' \in Outcomes
      BY <1>4, BoundsAssumption
      DEF TypeInv, TypeOK, ProviderUnavailable, RaiseWith, Outcomes
    <2> QED
      BY <1>4, <1>a, <2>1
      DEF TypeInv, TypeOK, WorkerLocals, WorkerStates, Busy,
          ProviderUnavailable, control
  <1>5. CASE FinalAnswer
    <2>1. worker' \in {"except", "finish"} /\ outcome' \in Outcomes
      BY <1>5, <1>b DEF TypeInv, TypeOK, FinalAnswer, RaiseWith, Outcomes
    <2> QED
      BY <1>5, <1>a, <2>1
      DEF TypeInv, TypeOK, WorkerLocals, WorkerStates, Busy, FinalAnswer, control
  <1>6. CASE ToolCalls
    <2> DEFINE rec == [mem[cur] EXCEPT !.ckpt = round + 1,
                                       !.high = IF round + 1 > @ THEN round + 1
                                                ELSE @]
    <2>1. round + 1 \in 0..MaxRound
      BY <1>6, <1>a, BoundsAssumption DEF TypeInv, WorkerLocals, ToolCalls
    <2>2. rec \in Record
      <3>1. (IF round + 1 > mem[cur].high THEN round + 1 ELSE mem[cur].high)
              \in 0..MaxRound
        BY <1>a, <2>1 DEF Record
      <3> QED
        BY <1>a, <2>1, <3>1 DEF Record
    <2>3. \/ UNCHANGED <<mem, disk, faults>>
          \/ \E ok \in WriteOutcomes : AppendEvent(cur, rec, ok)
      BY <1>6 DEF ToolCalls
    <2>4. mem' \in [Task -> Record] /\ disk' \in [Task -> Record]
          /\ faults' \in 0..MaxFaults
      BY <1>a, <2>2, <2>3, AppendEventType DEF TypeInv, TypeOK
    <2>5. /\ worker' \in {"except", "run"} /\ outcome' \in Outcomes
          /\ round' \in 0..MaxRound
      BY <1>6, <1>b, <2>1 DEF TypeInv, TypeOK, ToolCalls, RaiseWith, Outcomes
    <2> QED
      BY <1>6, <1>a, <2>4, <2>5
      DEF TypeInv, TypeOK, WorkerLocals, WorkerStates, Busy, ToolCalls, control
  <1> QED
    BY <1>1, <1>2, <1>3, <1>4, <1>5, <1>6

\* The end of a run.
LEMMA WorkerEndType ==
  TypeInv /\ (WorkerComplete \/ WorkerExcept \/ WorkerFinally) => TypeInv'
  <1> SUFFICES ASSUME TypeInv, WorkerComplete \/ WorkerExcept \/ WorkerFinally
               PROVE  TypeInv'
    OBVIOUS
  <1>a. worker \in Busy /\ cur \in Task /\ mem[cur] \in Record
    BY DEF TypeInv, TypeOK, WorkerLocals, Busy, WorkerComplete, WorkerExcept,
           WorkerFinally
  <1>1. CASE WorkerComplete
    <2> DEFINE rec == [mem[cur] EXCEPT !.status = "completed", !.ckpt = 0]
    <2>1. rec \in Record
      <3>1. "completed" \in Status /\ 0 \in 0..MaxRound
        BY BoundsAssumption DEF Status, TerminalStatuses
      <3> QED
        BY <1>a, <3>1 DEF Record
    <2>2. PICK ok \in WriteOutcomes :
            /\ AppendEvent(cur, rec, ok)
            /\ IF ok THEN worker' = "fin" /\ outcome' = outcome
                     ELSE RaiseWith("failed")
      BY <1>1 DEF WorkerComplete
    <2>3. mem' \in [Task -> Record] /\ disk' \in [Task -> Record]
          /\ faults' \in 0..MaxFaults
      BY <1>a, <2>1, <2>2, AppendEventType DEF TypeInv
    <2>4. worker' \in {"except", "fin"} /\ outcome' \in Outcomes
      BY <2>2 DEF TypeInv, TypeOK, RaiseWith, Outcomes
    <2> QED
      BY <1>1, <1>a, <2>3, <2>4
      DEF TypeInv, TypeOK, WorkerLocals, WorkerStates, Busy, WorkerComplete,
          control
  <1>2. CASE WorkerExcept
    <2> DEFINE rec == [mem[cur] EXCEPT !.status = StatusAfter]
    <2>1. StatusAfter \in Status
      BY <1>a DEF StatusAfter, Record, Status, ActiveStatuses, TerminalStatuses
    <2>2. rec \in Record
      BY <1>a, <2>1 DEF Record
    <2>3. /\ worker' \in {"fin", "finDying"}
          /\ \/ UNCHANGED <<mem, disk, faults>>
             \/ \E ok \in WriteOutcomes : AppendEvent(cur, rec, ok)
      BY <1>2 DEF WorkerExcept
    <2>4. mem' \in [Task -> Record] /\ disk' \in [Task -> Record]
          /\ faults' \in 0..MaxFaults
      BY <1>a, <2>2, <2>3, AppendEventType DEF TypeInv, TypeOK
    <2> QED
      BY <1>2, <1>a, <2>3, <2>4
      DEF TypeInv, TypeOK, WorkerLocals, WorkerStates, Busy, WorkerExcept,
          control, run
  <1>3. CASE WorkerFinally
    <2>1. ForgetRun /\ worker' \in {"loop", "dead"}
          /\ active' \in Task \cup {None} /\ projects' \subseteq Task
      BY <1>3 DEF TypeInv, TypeOK, WorkerFinally
    <2> QED
      BY <1>3, <2>1, ForgetRunType
      DEF TypeInv, TypeOK, WorkerLocals, WorkerStates, Busy, WorkerFinally,
          control
  <1> QED
    BY <1>1, <1>2, <1>3

\* Every step keeps TypeInv.
LEMMA StepType == TypeInv /\ [Next]_vars => TypeInv'
  <1>1. TypeInv /\ WorkerStep => TypeInv'
    BY WorkerStartType, WorkerRunType, WorkerEndType DEF WorkerStep
  <1>2. TypeInv /\ UNCHANGED vars => TypeInv'
    BY DEF TypeInv, TypeOK, WorkerLocals, vars, control, run
  <1> QED
    BY <1>1, <1>2, UserStepType, ProcessStepType DEF Next

LEMMA TypeInvariant == Spec => []TypeInv
  BY InitType, StepType, PTL DEF Spec

\* Every reachable state of the task queue is well formed: no worker step runs
\* without a task and no tool round goes past the last one.
THEOREM TypeCorrect == Spec => []TypeOK
  <1>1. TypeInv => TypeOK
    BY DEF TypeInv
  <1> QED
    BY <1>1, TypeInvariant, PTL

-----------------------------------------------------------------------------
(* Memory, files and attempts *)

\* Once the panel has listed the tasks, a file that is not cached belongs to a
\* task that is not active: list_tasks has rewritten the others.
ListedInv ==
    listed => \A t \in Task :
        mem[t] = NoRecord => disk[t].status \notin ActiveStatuses

\* The task the worker runs is cached.
Running == {"run", "provider", "final", "tools", "finish", "except"}
CurKnown == worker \in Running => mem[cur].status # "absent"

\* The file never counts more attempts than the memory, nor fewer than were
\* run; a queued task waits with an attempt that was not run.
AttemptInv ==
    \A t \in Task :
        /\ lastRun[t] <= disk[t].attempt
        /\ mem[t] # NoRecord => disk[t].attempt <= mem[t].attempt
        /\ mem[t].status = "queued" => lastRun[t] < mem[t].attempt

Safe == ListedInv /\ CurKnown /\ AttemptInv /\ QueuedIsFresh

IInv == TypeInv /\ Safe

\* The file of a task is never ahead of what a handler finds.
LEMMA FoundAttempt ==
  ASSUME IInv, NEW t \in Task
  PROVE  /\ Found(t) \in Record
         /\ lastRun[t] <= disk[t].attempt
         /\ disk[t].attempt <= Found(t).attempt
         /\ lastRun[t] \in Nat /\ disk[t].attempt \in Nat
         /\ Found(t).attempt \in Nat
  <1>1. Found(t) \in Record /\ disk[t] \in Record
    BY FoundType DEF IInv, TypeInv, TypeOK
  <1>2. /\ lastRun[t] \in Nat /\ disk[t].attempt \in Nat
        /\ Found(t).attempt \in Nat
    BY <1>1, BoundsAssumption DEF IInv, TypeInv, TypeOK, Record
  <1>3. disk[t].attempt <= Found(t).attempt
    BY <1>2 DEF IInv, Safe, AttemptInv, Found
  <1> QED
    BY <1>1, <1>2, <1>3 DEF IInv, Safe, AttemptInv

\* Appending an event keeps the relations between the copies, provided the
\* attempt does not go back and grows when the task is queued anew.
LEMMA AppendEventSafe ==
  ASSUME IInv, NEW t \in Task, NEW rec \in Record, NEW ok \in WriteOutcomes,
         AppendEvent(t, rec, ok), UNCHANGED <<listed, lastRun>>,
         rec.status # "absent", Found(t).attempt <= rec.attempt,
         rec.status = "queued" => \/ Found(t).attempt < rec.attempt
                                  \/ /\ mem[t].status = "queued"
                                     /\ mem[t].attempt = rec.attempt
  PROVE  /\ ListedInv' /\ AttemptInv'
         /\ \A s \in Task :
              mem[s].status # "absent" => mem'[s].status # "absent"
  <1>a. /\ mem \in [Task -> Record] /\ disk \in [Task -> Record]
        /\ lastRun \in [Task -> Nat] /\ rec.attempt \in Nat
    <2>1. 0..MaxAttempt \subseteq Nat
      BY BoundsAssumption
    <2>2. lastRun \in [Task -> 0..MaxAttempt]
      BY DEF IInv, TypeInv, TypeOK
    <2>3. lastRun \in [Task -> Nat]
      BY <2>1, <2>2
    <2> QED
      BY <2>1, <2>3 DEF IInv, TypeInv, TypeOK, Record
  <1>b. /\ mem' = [mem EXCEPT ![t] = rec]
        /\ disk' = disk \/ disk' = [disk EXCEPT ![t] = rec]
        /\ listed' = listed /\ lastRun' = lastRun
    BY DEF AppendEvent
  <1>c. rec # NoRecord
    BY NoRecordType
  <1>1. ASSUME NEW s \in Task
        PROVE  mem[s].status # "absent" => mem'[s].status # "absent"
    BY <1>a, <1>b
  <1>2. ListedInv'
    BY <1>a, <1>b, <1>c DEF IInv, Safe, ListedInv
  <1>3. AttemptInv'
    <2> SUFFICES ASSUME NEW s \in Task
                 PROVE  /\ lastRun[s] <= disk'[s].attempt
                        /\ mem'[s] # NoRecord
                             => disk'[s].attempt <= mem'[s].attempt
                        /\ mem'[s].status = "queued"
                             => lastRun[s] < mem'[s].attempt
      BY <1>b DEF AttemptInv
    <2>1. CASE s = t
      <3>1. mem'[t] = rec /\ (disk'[t] = disk[t] \/ disk'[t] = rec)
        BY <1>a, <1>b
      <3>2. lastRun[t] < mem[t].attempt \/ mem[t].status # "queued"
        BY DEF IInv, Safe, AttemptInv
      <3> QED
        BY <2>1, <3>1, <3>2, <1>a, FoundAttempt
    <2>2. CASE s # t
      <3>1. mem'[s] = mem[s] /\ disk'[s] = disk[s]
        BY <2>2, <1>a, <1>b
      <3> QED
        BY <3>1 DEF IInv, Safe, AttemptInv
    <2> QED
      BY <2>1, <2>2
  <1> QED
    BY <1>1, <1>2, <1>3

\* A step that changes the record and the controls of one task only leaves
\* the other queued tasks fresh.
LEMMA FreshKept ==
  ASSUME TypeInv, QueuedIsFresh, NEW t \in Task, NEW rec,
         mem' = [mem EXCEPT ![t] = rec],
         rec.status = "queued" => /\ t \notin ctlCancel' \cup ctlPause'
                                              \cup reqCancel'
                                  /\ t \in projects',
         ctlCancel' \subseteq ctlCancel \cup {t},
         ctlPause' \subseteq ctlPause \cup {t},
         reqCancel' \subseteq reqCancel \cup {t},
         projects \subseteq projects' \cup {t}
  PROVE  QueuedIsFresh'
  <1> SUFFICES ASSUME NEW s \in Task, mem'[s].status = "queued"
               PROVE  /\ s \notin ctlCancel' \cup ctlPause' \cup reqCancel'
                      /\ s \in projects'
    BY DEF QueuedIsFresh
  <1>1. CASE s = t
    BY <1>1 DEF TypeInv, TypeOK
  <1>2. CASE s # t
    <2>1. mem'[s] = mem[s]
      BY <1>2 DEF TypeInv, TypeOK
    <2> QED
      BY <1>2, <2>1 DEF QueuedIsFresh
  <1> QED
    BY <1>1, <1>2

\* A handler either leaves the worker where it is or starts one.
LEMMA CurKnownKept ==
  ASSUME TypeInv, CurKnown, UNCHANGED cur,
         worker' = worker \/ worker' = "loop",
         \A s \in Task : mem[s].status # "absent" => mem'[s].status # "absent"
  PROVE  CurKnown'
  BY DEF TypeInv, WorkerLocals, Busy, CurKnown, Running

\* A task found by a known id is cached, or was listed and is not active.
LEMMA KnownFound ==
  ASSUME IInv, NEW t \in Task, Known(t)
  PROVE  /\ Found(t) # NoRecord
         /\ Found(t) = mem[t] \/ Found(t) = disk[t]
         /\ mem[t] # NoRecord => Found(t) = mem[t]
         /\ Found(t).status = "queued" => Found(t) = mem[t]
  BY DEF Known, Found, IInv, Safe, ListedInv, ActiveStatuses

\* A fresh task starts with no attempt run and with clear controls.
LEMMA EnqueueSafe ==
  ASSUME IInv, NEW t \in Task, NEW source \in Task, NEW writes,
         NEW attempt \in 1..MaxAttempt, NEW ckpt \in 0..MaxRound,
         source = t \/ Known(source),
         EnqueueNewTask(t, NewRecord(attempt, ckpt), source, writes)
  PROVE  IInv'
  <1> DEFINE rec == NewRecord(attempt, ckpt)
  <1>a. /\ rec \in Record /\ rec.status = "queued" /\ rec.attempt = attempt
        /\ rec # NoRecord
    BY NewRecordType, NoRecordType
  <1>b. /\ mem[t] = NoRecord /\ disk[t] = NoRecord
        /\ mem' = [mem EXCEPT ![source] = Found(source), ![t] = rec]
        /\ disk' = disk \/ disk' = [disk EXCEPT ![t] = rec]
        /\ worker' = worker \/ worker' = "loop"
        /\ projects' = projects \cup {t} /\ ClearControl(t)
        /\ UNCHANGED <<active, app, listed, run, lastRun>>
    BY DEF EnqueueNewTask, EnsureWorkerAndPut
  <1>c. TypeInv'
    BY <1>a, EnqueueType DEF IInv
  <1>d. /\ mem \in [Task -> Record] /\ disk \in [Task -> Record]
        /\ NoRecord.status = "absent"
    BY NoRecordType DEF IInv, TypeInv, TypeOK
  <1> HIDE DEF rec
  <1>1. /\ mem'[t] = rec
        /\ \A s \in Task \ {t, source} : mem'[s] = mem[s]
        /\ source # t => mem'[source] = Found(source)
        /\ \A s \in Task \ {t} : disk'[s] = disk[s]
        /\ disk'[t] = disk[t] \/ disk'[t] = rec
    BY <1>b, <1>d
  <1>2. \A s \in Task \ {t} :
          /\ mem'[s] # NoRecord => mem'[s] = Found(s)
          /\ mem[s] # NoRecord => mem'[s] = mem[s]
          /\ mem'[s].status = "queued" => mem'[s] = mem[s]
          /\ mem'[s] = NoRecord => mem[s] = NoRecord
    <2> SUFFICES ASSUME NEW s \in Task \ {t}
                 PROVE  /\ mem'[s] # NoRecord => mem'[s] = Found(s)
                        /\ mem[s] # NoRecord => mem'[s] = mem[s]
                        /\ mem'[s].status = "queued" => mem'[s] = mem[s]
                        /\ mem'[s] = NoRecord => mem[s] = NoRecord
      OBVIOUS
    <2>1. CASE s = source
      BY <2>1, <1>1, KnownFound
    <2>2. CASE s # source
      BY <2>2, <1>1 DEF Found
    <2> QED
      BY <2>1, <2>2
  <1>3. ListedInv'
    BY <1>a, <1>b, <1>1, <1>2 DEF IInv, Safe, ListedInv
  <1>4. CurKnown'
    <2>1. \A s \in Task : mem[s].status # "absent" => mem'[s].status # "absent"
      BY <1>a, <1>b, <1>d, <1>1, <1>2
    <2> QED
      BY <2>1, <1>b, CurKnownKept DEF IInv, Safe, run
  <1>5. AttemptInv'
    <2> SUFFICES ASSUME NEW s \in Task
                 PROVE  /\ lastRun[s] <= disk'[s].attempt
                        /\ mem'[s] # NoRecord
                             => disk'[s].attempt <= mem'[s].attempt
                        /\ mem'[s].status = "queued"
                             => lastRun[s] < mem'[s].attempt
      BY <1>b DEF AttemptInv
    <2>1. CASE s = t
      <3>1. disk[t].attempt = 0 /\ attempt \in Nat /\ 0 < attempt
        BY <1>b, BoundsAssumption DEF NoRecord
      <3> QED
        BY <2>1, <3>1, <1>a, <1>1, FoundAttempt
    <2>2. CASE s # t
      BY <2>2, <1>1, <1>2, FoundAttempt DEF IInv, Safe, AttemptInv
    <2> QED
      BY <2>1, <2>2
  <1>6. QueuedIsFresh'
    <2> SUFFICES ASSUME NEW s \in Task, mem'[s].status = "queued"
                 PROVE  /\ s \notin ctlCancel' \cup ctlPause' \cup reqCancel'
                        /\ s \in projects'
      BY DEF QueuedIsFresh
    <2>1. CASE s = t
      BY <2>1, <1>b DEF ClearControl
    <2>2. CASE s # t
      <3>1. mem[s].status = "queued"
        BY <2>2, <1>2
      <3> QED
        BY <3>1, <1>b DEF IInv, Safe, QueuedIsFresh, ClearControl
    <2> QED
      BY <2>1, <2>2
  <1> QED
    BY <1>c, <1>3, <1>4, <1>5, <1>6 DEF IInv, Safe

LEMMA InitSafe == Init => IInv
  <1> SUFFICES ASSUME Init PROVE IInv
    OBVIOUS
  <1>1. \A t \in Task : mem[t] = NoRecord /\ disk[t] = NoRecord /\ lastRun[t] = 0
    BY DEF Init
  <1>2. NoRecord.status = "absent" /\ NoRecord.attempt = 0
    BY DEF NoRecord
  <1>3. ListedInv /\ CurKnown
    BY DEF Init, ListedInv, CurKnown, Running
  <1>4. AttemptInv /\ QueuedIsFresh
    BY <1>1, <1>2 DEF AttemptInv, QueuedIsFresh
  <1> QED
    BY <1>3, <1>4, InitType DEF IInv, Safe

\* The handlers that change one record.
LEMMA HandlerSafe ==
  ASSUME IInv, NEW t \in Task, PauseTask(t) \/ ResumeTask(t) \/ CancelTask(t)
  PROVE  Safe'
  <1>a. Found(t) \in Record /\ Found(t).attempt \in Nat
    BY FoundAttempt
  <1>b. TypeInv /\ QueuedIsFresh /\ CurKnown
    BY DEF IInv, Safe
  <1>1. CASE PauseTask(t)
    <2> DEFINE status == StatusAfterPause(Found(t).status)
    <2> DEFINE rec == [Found(t) EXCEPT !.status = status]
    <2>1. PICK ok \in WriteOutcomes : AppendEvent(t, rec, ok)
      BY <1>1, <1>a DEF PauseTask, Record
    <2>2. /\ rec \in Record /\ rec.status \notin {"absent", "queued"}
          /\ rec.attempt = Found(t).attempt
      <3>1. status \in Status /\ status \notin {"absent", "queued"}
        BY DEF StatusAfterPause, Status, ActiveStatuses
      <3> QED
        BY <1>a, <3>1 DEF Record
    <2> HIDE DEF rec
    <2>3. /\ UNCHANGED <<listed, lastRun, worker, cur, projects, ctlCancel>>
          /\ ctlPause' = ctlPause \cup {t} /\ reqCancel' = reqCancel \cup {t}
      BY <1>1 DEF PauseTask, run
    <2>4. /\ ListedInv' /\ AttemptInv'
          /\ \A s \in Task :
               mem[s].status # "absent" => mem'[s].status # "absent"
      BY <1>a, <2>1, <2>2, <2>3, AppendEventSafe
    <2>5. QueuedIsFresh'
      BY <1>b, <2>1, <2>2, <2>3, FreshKept DEF AppendEvent
    <2>6. CurKnown'
      BY <1>b, <2>3, <2>4, CurKnownKept
    <2> QED
      BY <2>4, <2>5, <2>6 DEF Safe
  <1>2. CASE ResumeTask(t)
    <2> DEFINE rec == [Found(t) EXCEPT !.status = "queued",
                                       !.attempt = Found(t).attempt + 1]
    <2>1. PICK ok \in WriteOutcomes :
            /\ AppendEvent(t, rec, ok)
            /\ worker' = worker \/ worker' = "loop"
      BY <1>2, <1>a DEF ResumeTask, EnsureWorkerAndPut, Record
    <2>2. /\ rec \in Record /\ rec.status = "queued"
          /\ rec.attempt = Found(t).attempt + 1
      <3>1. "queued" \in Status /\ Found(t).attempt + 1 \in 0..MaxAttempt
        BY <1>2, <1>a, BoundsAssumption
        DEF ResumeTask, Status, ActiveStatuses, Record
      <3> QED
        BY <1>a, <3>1 DEF Record
    <2> HIDE DEF rec
    <2>3. /\ UNCHANGED <<listed, lastRun, cur>> /\ ClearControl(t)
          /\ projects' = projects \cup {t}
      BY <1>2 DEF ResumeTask, run
    <2>4. /\ ListedInv' /\ AttemptInv'
          /\ \A s \in Task :
               mem[s].status # "absent" => mem'[s].status # "absent"
      BY <1>a, <2>1, <2>2, <2>3, AppendEventSafe
    <2>5. QueuedIsFresh'
      BY <1>b, <2>1, <2>2, <2>3, FreshKept DEF AppendEvent, ClearControl
    <2>6. CurKnown'
      BY <1>b, <2>1, <2>3, <2>4, CurKnownKept
    <2> QED
      BY <2>4, <2>5, <2>6 DEF Safe
  <1>3. CASE CancelTask(t)
    <2> DEFINE status == IF active = t THEN "cancelling" ELSE "cancelled"
    <2> DEFINE rec == [Found(t) EXCEPT !.status = status]
    <2>1. PICK ok \in WriteOutcomes : AppendEvent(t, rec, ok)
      BY <1>3 DEF CancelTask
    <2>2. /\ rec \in Record /\ rec.status \notin {"absent", "queued"}
          /\ rec.attempt = Found(t).attempt
      <3>1. status \in Status /\ status \notin {"absent", "queued"}
        BY DEF Status, ActiveStatuses, TerminalStatuses
      <3> QED
        BY <1>a, <3>1 DEF Record
    <2> HIDE DEF rec
    <2>3. /\ UNCHANGED <<listed, lastRun, worker, cur, projects>>
          /\ ctlCancel' = ctlCancel \cup {t} /\ ctlPause' = ctlPause \ {t}
          /\ reqCancel' = reqCancel \cup {t}
      BY <1>3 DEF CancelTask, run
    <2>4. /\ ListedInv' /\ AttemptInv'
          /\ \A s \in Task :
               mem[s].status # "absent" => mem'[s].status # "absent"
      BY <1>a, <2>1, <2>2, <2>3, AppendEventSafe
    <2>5. QueuedIsFresh'
      BY <1>b, <2>1, <2>2, <2>3, FreshKept DEF AppendEvent
    <2>6. CurKnown'
      BY <1>b, <2>3, <2>4, CurKnownKept
    <2> QED
      BY <2>4, <2>5, <2>6 DEF Safe
  <1> QED
    BY <1>1, <1>2, <1>3

\* list_tasks and get_task.
LEMMA ReadSafe ==
  ASSUME IInv, ListTasks \/ \E t \in Task : GetTask(t)
  PROVE  Safe'
  <1>1. CASE ListTasks
    <2> DEFINE stale == {t \in Task : mem[t] = NoRecord
                                     /\ disk[t].status \in ActiveStatuses}
    <2>1. PICK ok \in BOOLEAN, written \in SUBSET Task :
            /\ ok => written = stale
            /\ disk' = [t \in Task |-> IF t \in written
                                       THEN Interrupted(disk[t]) ELSE disk[t]]
            /\ listed' = (listed \/ ok)
      BY <1>1 DEF ListTasks, WriteOutcomes
    <2>2. UNCHANGED <<mem, control, projects, worker, run, lastRun>>
      BY <1>1 DEF ListTasks
    <2>3. \A t \in Task :
            /\ disk'[t].attempt = disk[t].attempt
            /\ disk'[t] = disk[t] \/ disk'[t].status = "interrupted"
      BY <2>1 DEF Interrupted, IInv, TypeInv, TypeOK, Record
    <2>4. ListedInv'
      <3> SUFFICES ASSUME listed', NEW t \in Task, mem[t] = NoRecord
                   PROVE  disk'[t].status \notin ActiveStatuses
        BY <2>2 DEF ListedInv
      <3>1. CASE ok /\ t \in stale
        BY <3>1, <2>1 DEF Interrupted, IInv, TypeInv, TypeOK, Record,
                          ActiveStatuses
      <3>2. CASE ok /\ t \notin stale
        BY <3>2, <2>3 DEF ActiveStatuses
      <3>3. CASE ~ok
        <4>1. disk[t].status \notin ActiveStatuses
          BY <3>3, <2>1 DEF IInv, Safe, ListedInv
        <4> QED
          BY <4>1, <2>3 DEF ActiveStatuses
      <3> QED
        BY <3>1, <3>2, <3>3
    <2>5. AttemptInv'
      BY <2>2, <2>3 DEF IInv, Safe, AttemptInv
    <2>6. CurKnown' /\ QueuedIsFresh'
      BY <2>2 DEF IInv, Safe, CurKnown, QueuedIsFresh, control, run
    <2> QED
      BY <2>4, <2>5, <2>6 DEF Safe
  <1>2. ASSUME NEW t \in Task, GetTask(t)
        PROVE  Safe'
    <2>1. /\ Known(t) /\ mem' = [mem EXCEPT ![t] = Found(t)]
          /\ UNCHANGED <<disk, control, projects, listed, worker, run, lastRun>>
      BY <1>2 DEF GetTask
    <2>2. \A s \in Task :
            /\ mem[s] # NoRecord => mem'[s] = mem[s]
            /\ mem'[s] = NoRecord => mem[s] = NoRecord
            /\ mem'[s] = mem[s] \/ mem'[s] = disk[s]
            /\ mem'[s].status = "queued" => mem'[s] = mem[s]
      BY <2>1, KnownFound DEF IInv, TypeInv, TypeOK
    <2>3. ListedInv'
      BY <2>1, <2>2 DEF IInv, Safe, ListedInv
    <2>4. CurKnown'
      <3>1. \A s \in Task : mem[s].status # "absent" => mem'[s].status # "absent"
        BY <2>2, NoRecordType
      <3> QED
        BY <3>1, <2>1, CurKnownKept DEF IInv, Safe, run
    <2>5. AttemptInv'
      <3> SUFFICES ASSUME NEW s \in Task
                   PROVE  /\ lastRun[s] <= disk[s].attempt
                          /\ mem'[s] # NoRecord
                               => disk[s].attempt <= mem'[s].attempt
                          /\ mem'[s].status = "queued"
                               => lastRun[s] < mem'[s].attempt
        BY <2>1 DEF AttemptInv
      <3> QED
        BY <2>2, FoundAttempt DEF IInv, Safe, AttemptInv
    <2>6. QueuedIsFresh'
      BY <2>1, <2>2 DEF IInv, Safe, QueuedIsFresh, control
    <2> QED
      BY <2>3, <2>4, <2>5, <2>6 DEF Safe
  <1> QED
    BY <1>1, <1>2

LEMMA ProcessStepSafe == IInv /\ ProcessStep => Safe'
  <1> SUFFICES ASSUME IInv, ProcessStep
               PROVE  Safe'
    OBVIOUS
  <1>1. CASE StopMark
    <2>1. PICK ok \in WriteOutcomes, marked \in SUBSET Live, S \in SUBSET Live :
            StopMarks(ok, marked, S)
      BY <1>1, StopMarkShape
    <2>2. UNCHANGED <<ctlPause, projects, listed, worker, cur, lastRun>>
      BY <1>1 DEF StopMark, run
    <2>3. \A t \in Task :
            /\ mem'[t] = mem[t] \/ (t \in S /\ mem'[t] = Interrupted(mem[t]))
            /\ t \in S => mem'[t] = Interrupted(mem[t]) /\ t \in Live
            /\ disk'[t] = disk[t]
               \/ (t \in marked /\ disk'[t] = Interrupted(mem[t]))
            /\ t \in marked => t \in S
      BY <2>1 DEF StopMarks, Interrupt
    <2>4. \A t \in Task : /\ Interrupted(mem[t]).status = "interrupted"
                          /\ Interrupted(mem[t]).attempt = mem[t].attempt
                          /\ Interrupted(mem[t]) # NoRecord
      BY NoRecordType DEF Interrupted, IInv, TypeInv, TypeOK, Record
    <2>5. \A t \in Live : mem[t] # NoRecord
      BY NoRecordType DEF Live, ActiveStatuses
    <2>6. ListedInv'
      BY <2>2, <2>3, <2>4 DEF IInv, Safe, ListedInv, ActiveStatuses
    <2>7. CurKnown'
      <3>1. \A s \in Task : mem[s].status # "absent" => mem'[s].status # "absent"
        BY <2>3, <2>4
      <3> QED
        BY <3>1, <2>2, CurKnownKept DEF IInv, Safe
    <2>8. AttemptInv'
      <3> SUFFICES ASSUME NEW t \in Task
                   PROVE  /\ lastRun[t] <= disk'[t].attempt
                          /\ mem'[t] # NoRecord
                               => disk'[t].attempt <= mem'[t].attempt
                          /\ mem'[t].status = "queued"
                               => lastRun[t] < mem'[t].attempt
        BY <2>2 DEF AttemptInv
      <3>1. /\ lastRun[t] \in Nat /\ disk[t].attempt \in Nat
            /\ mem[t].attempt \in Nat
            /\ lastRun[t] <= disk[t].attempt
            /\ mem[t] # NoRecord => disk[t].attempt <= mem[t].attempt
            /\ mem[t].status = "queued" => lastRun[t] < mem[t].attempt
        BY FoundAttempt DEF IInv, TypeInv, TypeOK, Record, Safe, AttemptInv
      <3>2. CASE t \in S
        BY <3>1, <3>2, <2>3, <2>4, <2>5
      <3>3. CASE t \notin S
        BY <3>1, <3>3, <2>3
      <3> QED
        BY <3>2, <3>3
    <2>9. QueuedIsFresh'
      <3> SUFFICES ASSUME NEW t \in Task, mem'[t].status = "queued"
                   PROVE  /\ t \notin ctlCancel' \cup ctlPause' \cup reqCancel'
                          /\ t \in projects'
        BY DEF QueuedIsFresh
      <3>1. t \notin S /\ mem[t].status = "queued"
        BY <2>3, <2>4
      <3> QED
        BY <3>1, <2>1, <2>2, <2>3 DEF StopMarks, IInv, Safe, QueuedIsFresh
    <2> QED
      BY <2>6, <2>7, <2>8, <2>9 DEF Safe
  <1>2. CASE ProcessEnds
    <2>1. /\ \A t \in Task : mem'[t] = NoRecord
          /\ listed' = FALSE /\ worker' = "none"
          /\ UNCHANGED <<disk, lastRun>>
      BY <1>2 DEF ProcessEnds
    <2> QED
      BY <2>1, NoRecordType
      DEF IInv, Safe, ListedInv, CurKnown, Running, AttemptInv, QueuedIsFresh
  <1>3. CASE StopSignal \/ StopPill \/ ProcessStarts
    BY <1>3 DEF StopSignal, StopPill, ProcessStarts, IInv, Safe, ListedInv,
                CurKnown, AttemptInv, QueuedIsFresh, control, run
  <1> QED
    BY <1>1, <1>2, <1>3 DEF ProcessStep

\* Steps of the worker that leave the records alone, and those that only get
\* an exception or an answer.
LEMMA WorkerQuietSafe ==
  ASSUME IInv, UNCHANGED <<mem, disk, control, projects, listed, lastRun>>,
         \/ worker' \notin Running
         \/ worker \in Running /\ UNCHANGED cur
  PROVE  Safe'
  BY DEF IInv, Safe, ListedInv, CurKnown, AttemptInv, QueuedIsFresh, control

\* Steps of the worker that append an event to the task it runs, without
\* queueing it or touching its attempt.
LEMMA WorkerEventSafe ==
  ASSUME IInv, worker \in Running, UNCHANGED <<cur, control, projects, listed,
                                              lastRun>>,
         NEW rec \in Record, NEW ok \in WriteOutcomes,
         AppendEvent(cur, rec, ok), rec.attempt = mem[cur].attempt,
         rec.status # "absent",
         rec.status = "queued" => mem[cur].status = "queued"
  PROVE  Safe'
  <1>1. cur \in Task /\ mem[cur].status # "absent"
    BY DEF IInv, TypeInv, WorkerLocals, Busy, Running, Safe, CurKnown
  <1>2. Found(cur) = mem[cur] /\ Found(cur).attempt \in Nat
    BY <1>1, NoRecordType, FoundAttempt DEF Found
  <1>3. /\ ListedInv' /\ AttemptInv'
        /\ \A s \in Task : mem[s].status # "absent" => mem'[s].status # "absent"
    BY <1>1, <1>2, AppendEventSafe
  <1>4. QueuedIsFresh'
    BY <1>1, FreshKept DEF IInv, Safe, AppendEvent, QueuedIsFresh, control
  <1>5. CurKnown'
    BY <1>1, <1>3 DEF CurKnown
  <1> QED
    BY <1>3, <1>4, <1>5 DEF Safe

\* The worker starts the attempt of a queued task.
LEMMA WorkerBeginSafe ==
  ASSUME IInv, WorkerBegin
  PROVE  Safe'
  <1> DEFINE rec == [mem[cur] EXCEPT !.status = "running"]
  <1>1. PICK ok \in WriteOutcomes :
          /\ AppendEvent(cur, rec, ok)
          /\ IF ok /\ cur \in projects
             THEN /\ worker' = "run"
                  /\ lastRun' = [lastRun EXCEPT ![cur] = mem[cur].attempt]
                  /\ UNCHANGED cur
             ELSE /\ worker' = "dead"
                  /\ lastRun' = lastRun
    BY DEF WorkerBegin
  <1>2. /\ cur \in Task /\ mem[cur].status = "queued"
        /\ UNCHANGED <<control, projects, listed>>
    BY DEF WorkerBegin, StillQueued, IInv, TypeInv, WorkerLocals, Busy
  <1>3. /\ mem \in [Task -> Record] /\ disk \in [Task -> Record]
        /\ lastRun \in [Task -> 0..MaxAttempt] /\ mem[cur].attempt \in Nat
    BY <1>2, BoundsAssumption, SMTT(30) DEF IInv, TypeInv, TypeOK, Record
  <1>4. /\ rec.status = "running" /\ rec.attempt = mem[cur].attempt
        /\ rec # NoRecord
    BY <1>2, <1>3, NoRecordType DEF Record
  <1> HIDE DEF rec
  <1>5. /\ mem' = [mem EXCEPT ![cur] = rec]
        /\ disk' = IF ok THEN [disk EXCEPT ![cur] = rec] ELSE disk
    BY <1>1 DEF AppendEvent
  <1>6. ListedInv'
    BY <1>2, <1>3, <1>4, <1>5 DEF IInv, Safe, ListedInv, ActiveStatuses
  <1>7. CurKnown'
    BY <1>1, <1>2, <1>3, <1>4, <1>5 DEF CurKnown, Running
  <1>8. AttemptInv'
    <2> SUFFICES ASSUME NEW t \in Task
                 PROVE  /\ lastRun'[t] <= disk'[t].attempt
                        /\ mem'[t] # NoRecord
                             => disk'[t].attempt <= mem'[t].attempt
                        /\ mem'[t].status = "queued"
                             => lastRun'[t] < mem'[t].attempt
      BY DEF AttemptInv
    <2>1. CASE t = cur
      <3>1. mem'[t] = rec /\ disk'[t] = (IF ok THEN rec ELSE disk[t])
        BY <2>1, <1>2, <1>3, <1>5
      <3>2. lastRun'[t] = (IF ok /\ cur \in projects THEN mem[cur].attempt
                           ELSE lastRun[t])
        BY <2>1, <1>1, <1>2, <1>3
      <3>3. mem[cur] # NoRecord
        BY <1>2, NoRecordType
      <3> QED
        BY <2>1, <3>1, <3>2, <3>3, <1>3, <1>4, FoundAttempt
        DEF IInv, Safe, AttemptInv, Found
    <2>2. CASE t # cur
      <3>1. mem'[t] = mem[t] /\ disk'[t] = disk[t] /\ lastRun'[t] = lastRun[t]
        BY <2>2, <1>1, <1>3, <1>5
      <3> QED
        BY <3>1 DEF IInv, Safe, AttemptInv
    <2> QED
      BY <2>1, <2>2
  <1>9. QueuedIsFresh'
    BY <1>2, <1>4, <1>5, FreshKept DEF IInv, Safe, QueuedIsFresh, control
  <1> QED
    BY <1>6, <1>7, <1>8, <1>9 DEF Safe

LEMMA WorkerStepSafe == IInv /\ WorkerStep => Safe'
  <1> SUFFICES ASSUME IInv, WorkerStep
               PROVE  Safe'
    OBVIOUS
  <1>1. CASE WorkerLoop \/ WorkerGet \/ WorkerSkip
    BY <1>1, WorkerQuietSafe
    DEF WorkerLoop, WorkerGet, WorkerSkip, Running, control, run
  <1>2. CASE WorkerBegin
    BY <1>2, WorkerBeginSafe
  <1>3. CASE ProviderAnswers \/ ProviderRaises \/ ProviderUnavailable
             \/ FinalAnswer
    BY <1>3, WorkerQuietSafe
    DEF ProviderAnswers, ProviderRaises, ProviderUnavailable, FinalAnswer,
        Running, control, run
  <1>a. ASSUME worker \in Running
        PROVE  /\ cur \in Task /\ mem[cur] \in Record
               /\ mem[cur].status # "absent"
    BY <1>a DEF IInv, TypeInv, TypeOK, WorkerLocals, Busy, Running, Safe,
                CurKnown
  <1>4. CASE RoundBegin
    <2>1. /\ worker \in Running /\ UNCHANGED <<control, projects, listed,
                                               lastRun, cur>>
          /\ \/ UNCHANGED <<mem, disk>>
             \/ \E ok \in WriteOutcomes : AppendEvent(cur, mem[cur], ok)
      BY <1>4 DEF RoundBegin, Running
    <2> QED
      BY <1>a, <2>1, WorkerQuietSafe, WorkerEventSafe
  <1>5. CASE ToolCalls
    <2> DEFINE high == IF round + 1 > mem[cur].high THEN round + 1
                       ELSE mem[cur].high
    <2> DEFINE rec == [mem[cur] EXCEPT !.ckpt = round + 1, !.high = high]
    <2>1. worker \in Running /\ UNCHANGED <<control, projects, listed, lastRun,
                                            cur>>
      BY <1>5 DEF ToolCalls, Running
    <2>2. \/ UNCHANGED <<mem, disk>>
          \/ \E ok \in WriteOutcomes : AppendEvent(cur, rec, ok)
      <3>1. rec = [mem[cur] EXCEPT !.ckpt = round + 1,
                                   !.high = IF round + 1 > @ THEN round + 1
                                            ELSE @]
        BY <1>a, <2>1 DEF Record
      <3> QED
        BY <1>5, <3>1 DEF ToolCalls
    <2>3. rec \in Record /\ rec.status = mem[cur].status
          /\ rec.attempt = mem[cur].attempt
      <3>1. round + 1 \in 0..MaxRound
        BY <1>5, BoundsAssumption
        DEF ToolCalls, IInv, TypeInv, TypeOK, WorkerLocals
      <3>2. high \in 0..MaxRound
        BY <1>a, <2>1, <3>1 DEF Record
      <3> HIDE DEF high
      <3> QED
        BY <1>a, <2>1, <3>1, <3>2 DEF Record
    <2> HIDE DEF rec
    <2> QED
      BY <1>a, <2>1, <2>2, <2>3, WorkerQuietSafe, WorkerEventSafe
  <1>6. CASE WorkerComplete
    <2> DEFINE rec == [mem[cur] EXCEPT !.status = "completed", !.ckpt = 0]
    <2>1. /\ worker \in Running /\ UNCHANGED <<control, projects, listed,
                                               lastRun, cur>>
          /\ \E ok \in WriteOutcomes : AppendEvent(cur, rec, ok)
      BY <1>6 DEF WorkerComplete, Running
    <2>2. rec \in Record /\ rec.status = "completed"
          /\ rec.attempt = mem[cur].attempt
      <3>1. "completed" \in Status /\ 0 \in 0..MaxRound
        BY BoundsAssumption DEF Status, TerminalStatuses
      <3> QED
        BY <1>a, <2>1, <3>1 DEF Record
    <2> HIDE DEF rec
    <2> QED
      BY <1>a, <2>1, <2>2, WorkerEventSafe
  <1>7. CASE WorkerExcept
    <2> DEFINE rec == [mem[cur] EXCEPT !.status = StatusAfter]
    <2>1. /\ worker \in Running /\ UNCHANGED <<control, projects, listed,
                                               lastRun, cur>>
          /\ \/ UNCHANGED <<mem, disk>>
             \/ \E ok \in WriteOutcomes : AppendEvent(cur, rec, ok)
      BY <1>7 DEF WorkerExcept, Running, run
    <2>2. StatusAfter \in {"paused", "failed", "cancelled", mem[cur].status}
      BY DEF StatusAfter
    <2>3. rec \in Record /\ rec.status = StatusAfter
          /\ rec.attempt = mem[cur].attempt
      <3>1. StatusAfter \in Status
        BY <1>a, <2>1, <2>2
        DEF Record, Status, ActiveStatuses, TerminalStatuses
      <3> QED
        BY <1>a, <2>1, <3>1 DEF Record
    <2> HIDE DEF rec
    <2> QED
      BY <1>a, <2>1, <2>2, <2>3, WorkerQuietSafe, WorkerEventSafe
  <1>8. CASE WorkerFinally
    <2>1. /\ UNCHANGED <<mem, disk, control, listed, lastRun>>
          /\ worker' \notin Running
          /\ projects' = IF mem[cur].status \in KeptStatuses
                         THEN projects ELSE projects \ {cur}
      BY <1>8 DEF WorkerFinally, Running
    <2>2. QueuedIsFresh'
      BY <2>1 DEF IInv, Safe, QueuedIsFresh, KeptStatuses, control
    <2> QED
      BY <2>1, <2>2 DEF IInv, Safe, ListedInv, CurKnown, AttemptInv
  <1> QED
    BY <1>1, <1>2, <1>3, <1>4, <1>5, <1>6, <1>7, <1>8 DEF WorkerStep

LEMMA UserStepSafe == IInv /\ UserStep => Safe'
  <1> SUFFICES ASSUME IInv, UserStep
               PROVE  Safe'
    OBVIOUS
  <1>1. ASSUME NEW t \in Task, StartTask(t)
        PROVE  Safe'
    BY <1>1, EnqueueSafe, BoundsAssumption DEF StartTask, IInv
  <1>2. ASSUME NEW s \in Task, NEW t \in Task, RetryOperations(s, t)
        PROVE  Safe'
    BY <1>2, EnqueueSafe, BoundsAssumption DEF RetryOperations, IInv
  <1>3. ASSUME NEW s \in Task, NEW t \in Task, RestartFromCheckpoint(s, t)
        PROVE  Safe'
    <2>1. PICK step \in 1..Found(s).high :
            EnqueueNewTask(t, NewRecord(Found(s).attempt + 1, step), s, 2)
      BY <1>3 DEF RestartFromCheckpoint
    <2>2. Found(s).attempt + 1 \in 1..MaxAttempt /\ step \in 0..MaxRound
      BY <1>3, FoundAttempt, BoundsAssumption DEF RestartFromCheckpoint, Record
    <2>3. Known(s)
      BY <1>3 DEF RestartFromCheckpoint
    <2> QED
      BY <2>1, <2>2, <2>3, EnqueueSafe DEF IInv
  <1> QED
    BY <1>1, <1>2, <1>3, HandlerSafe, ReadSafe DEF UserStep

LEMMA StepSafe == IInv /\ [Next]_vars => IInv'
  <1>1. IInv /\ UNCHANGED vars => Safe'
    BY DEF IInv, Safe, ListedInv, CurKnown, AttemptInv, QueuedIsFresh, vars,
           control, run
  <1> QED
    BY <1>1, StepType, UserStepSafe, ProcessStepSafe, WorkerStepSafe
    DEF Next, IInv

LEMMA IInvariant == Spec => []IInv
  BY InitSafe, StepSafe, PTL DEF Spec

\* A queued task is never poisoned by an earlier attempt and always has the
\* project the worker copies outside its try, also when writes fail and when
\* the worker is still between two lock sections of that attempt.
THEOREM QueuedFresh == Spec => []QueuedIsFresh
  <1>1. IInv => QueuedIsFresh
    BY DEF IInv, Safe
  <1> QED
    BY <1>1, IInvariant, PTL

\* No attempt is handed to the AI twice: the entries of the queue may be
\* duplicated and the files may be behind the memory, but a queued task always
\* waits with an attempt above the last one that ran.
THEOREM AttemptOnce == Spec => AttemptRunsOnce
  <1>1. IInv /\ [Next]_vars
          => [worker = "got" /\ worker' = "run"
                => mem[cur].attempt > lastRun[cur]]_vars
    <2> SUFFICES ASSUME IInv, [Next]_vars, worker = "got", worker' = "run"
                 PROVE  mem[cur].attempt > lastRun[cur]
      OBVIOUS
    <2>1. cur \in Task /\ lastRun[cur] \in Nat /\ mem[cur] \in Record
      BY FoundAttempt DEF IInv, TypeInv, TypeOK, WorkerLocals, Busy
    <2>2. mem[cur].status = "queued"
      BY DEF Next, UserStep, ProcessStep, WorkerStep, StartTask, GetTask,
             PauseTask, ResumeTask, CancelTask, RetryOperations,
             RestartFromCheckpoint, ListTasks, StopSignal, StopMark, StopPill,
             ProcessEnds, ProcessStarts, WorkerLoop, WorkerGet, WorkerSkip,
             WorkerBegin, RoundBegin, ProviderAnswers, ProviderRaises,
             ProviderUnavailable, FinalAnswer, ToolCalls, WorkerComplete,
             WorkerExcept, WorkerFinally, EnqueueNewTask, EnsureWorkerAndPut,
             StillQueued, RaiseWith, vars
    <2>3. lastRun[cur] < mem[cur].attempt
      BY <2>1, <2>2 DEF IInv, Safe, AttemptInv
    <2> QED
      BY <2>1, <2>3, BoundsAssumption DEF Record
  <1> QED
    BY <1>1, IInvariant, PTL DEF Spec, AttemptRunsOnce

-----------------------------------------------------------------------------
(* Ends and checkpoints *)

Ended(rec) == rec.status \in TerminalStatuses
ToolLoop == {"run", "provider", "final", "tools", "finish"}

\* An end that reached the file is what the memory holds, or it is not cached.
FileEnds == \A t \in Task : Ended(disk[t]) => mem[t] \in {disk[t], NoRecord}

\* The task in the worker's hands is the active one and its file has not
\* ended, nor has its record, but for a completion that could not be written.
HandsInv ==
    /\ worker \in Running \cup {"fin", "finDying"} => active = cur
    /\ worker \in Running => tries > 0 /\ ~Ended(disk[cur])
    /\ worker \in ToolLoop \/ (worker = "except" /\ outcome # "failed")
         => ~Ended(mem[cur])

\* The task failed while another candidate was redoing its rounds.
RedoFailed(t) ==
    cur = t /\ tries > 1 /\ worker = "except" /\ outcome = "failed"

\* The record of a task that can go on has at least the checkpoint of its file
\* and the first candidate's rounds start at it.
CheckpointInv ==
    /\ \A t \in Task : mem[t] # NoRecord /\ ~Ended(mem[t]) =>
         disk[t].ckpt <= mem[t].ckpt \/ RedoFailed(t)
    /\ worker \in ToolLoop /\ tries <= 1 => mem[cur].ckpt <= round

EndsInv == FileEnds /\ HandsInv /\ CheckpointInv

\* What a step may do to the two copies of a record: leave the file and at
\* most cache or forget it (Rests); mark the file of a task nobody holds
\* (Marked); or write rec, which may not reach the file (Written).
RedoStays(t) == RedoFailed(t) => RedoFailed(t)'
Rests(t) ==
    /\ disk'[t] = disk[t]
    /\ \/ mem'[t] = NoRecord
       \/ mem'[t] \in {mem[t], Found(t)} /\ RedoStays(t)
Marked(t) ==
    /\ ~Ended(disk[t])
    /\ mem[t] = NoRecord /\ mem'[t] = NoRecord
    /\ disk'[t].ckpt = disk[t].ckpt /\ ~Ended(disk'[t])
WrittenTask(t, rec) ==
    /\ ~Ended(disk[t])
    /\ mem'[t] = rec /\ disk'[t] \in {disk[t], rec}
    /\ \/ Ended(rec)
       \/ ~Ended(Found(t)) /\ Found(t).ckpt <= rec.ckpt /\ RedoStays(t)
       \/ cur = t /\ tries > 1 /\ (disk'[t] = rec \/ RedoFailed(t)')
EndStep(t) == Rests(t) \/ Marked(t) \/ \E rec \in Record : WrittenTask(t, rec)

\* An end in the file is what every handler finds.
LEMMA EndedFound ==
  ASSUME IInv, FileEnds, NEW t \in Task
  PROVE  /\ Ended(disk[t]) => Found(t) = disk[t]
         /\ ~Ended(Found(t)) => ~Ended(disk[t])
  BY DEF FileEnds, Found

\* Such steps keep ends and checkpoints.
LEMMA EndStepKeeps ==
  ASSUME IInv, EndsInv, NEW t \in Task, EndStep(t)
  PROVE  /\ Ended(disk'[t]) => mem'[t] \in {disk'[t], NoRecord}
         /\ mem'[t] # NoRecord /\ ~Ended(mem'[t])
              => disk'[t].ckpt <= mem'[t].ckpt \/ RedoFailed(t)'
         /\ Ended(disk[t]) => /\ disk'[t] = disk[t]
                              /\ mem'[t] \in {disk[t], NoRecord}
         /\ disk'[t].ckpt < disk[t].ckpt
              => Ended(disk'[t]) \/ (cur = t /\ tries > 1)
  <1>a. /\ mem[t] \in Record /\ disk[t] \in Record /\ Found(t) \in Record
        /\ disk[t].ckpt \in Nat /\ mem[t].ckpt \in Nat /\ Found(t).ckpt \in Nat
    <2>1. mem[t] \in Record /\ disk[t] \in Record /\ Found(t) \in Record
      BY FoundType DEF IInv, TypeInv, TypeOK
    <2>2. 0..MaxRound \subseteq Nat
      BY BoundsAssumption
    <2> QED
      BY <2>1, <2>2 DEF Record
  <1>b. /\ Ended(disk[t]) => mem[t] \in {disk[t], NoRecord}
        /\ mem[t] # NoRecord /\ ~Ended(mem[t])
             => disk[t].ckpt <= mem[t].ckpt \/ RedoFailed(t)
    BY DEF EndsInv, FileEnds, CheckpointInv
  <1>c. Found(t) = IF mem[t] # NoRecord THEN mem[t] ELSE disk[t]
    BY DEF Found
  <1>1. CASE Rests(t)
    BY <1>1, <1>a, <1>b, <1>c DEF Rests, RedoStays
  <1>2. CASE Marked(t)
    BY <1>2, <1>a DEF Marked
  <1>3. ASSUME NEW rec \in Record, WrittenTask(t, rec)
        PROVE  /\ Ended(disk'[t]) => mem'[t] \in {disk'[t], NoRecord}
               /\ mem'[t] # NoRecord /\ ~Ended(mem'[t])
                    => disk'[t].ckpt <= mem'[t].ckpt \/ RedoFailed(t)'
               /\ ~Ended(disk[t])
               /\ disk'[t].ckpt < disk[t].ckpt
                    => Ended(disk'[t]) \/ (cur = t /\ tries > 1)
    <2>1. rec.ckpt \in Nat
      <3>1. 0..MaxRound \subseteq Nat
        BY BoundsAssumption
      <3> QED
        BY <3>1 DEF Record
    <2> QED
      BY <1>3, <1>a, <1>b, <1>c, <2>1 DEF WrittenTask, RedoStays, RedoFailed
  <1> QED
    BY <1>1, <1>2, <1>3 DEF EndStep

\* An event of a task that can go on, with the checkpoint it has.
LEMMA EventEnds ==
  ASSUME IInv, EndsInv, NEW t \in Task, NEW rec \in Record, NEW ok \in BOOLEAN,
         AppendEvent(t, rec, ok), ~Ended(Found(t)),
         Found(t).ckpt <= rec.ckpt, \A s \in Task : RedoStays(s)
  PROVE  /\ \A s \in Task : EndStep(s)
         /\ mem'[t] = rec /\ disk'[t] \in {disk[t], rec}
         /\ \A s \in Task \ {t} : mem'[s] = mem[s] /\ disk'[s] = disk[s]
  <1>1. mem' = [mem EXCEPT ![t] = rec]
        /\ (disk' = disk \/ disk' = [disk EXCEPT ![t] = rec])
    BY DEF AppendEvent
  <1>2. mem \in [Task -> Record] /\ disk \in [Task -> Record]
    BY DEF IInv, TypeInv, TypeOK
  <1>3. mem'[t] = rec /\ disk'[t] \in {disk[t], rec}
    BY <1>1, <1>2
  <1>4. \A s \in Task \ {t} : mem'[s] = mem[s] /\ disk'[s] = disk[s]
    BY <1>1, <1>2
  <1>5. ~Ended(disk[t])
    BY EndedFound DEF EndsInv
  <1>6. WrittenTask(t, rec)
    BY <1>3, <1>5 DEF WrittenTask
  <1>7. \A s \in Task \ {t} : Rests(s)
    BY <1>4 DEF Rests
  <1> QED
    BY <1>3, <1>4, <1>6, <1>7 DEF EndStep

\* Of the task in the worker's hands a handler keeps that it has not ended,
\* and its checkpoint.
CurStays ==
    worker \in Running =>
        /\ ~Ended(disk[cur]) => ~Ended(disk'[cur])
        /\ ~Ended(mem[cur]) => ~Ended(mem'[cur])
        /\ mem'[cur].ckpt = mem[cur].ckpt

\* A handler that writes one record.
LEMMA HandlerEnds ==
  ASSUME IInv, EndsInv, NEW t \in Task, PauseTask(t) \/ ResumeTask(t) \/ CancelTask(t)
  PROVE  (\A s \in Task : EndStep(s)) /\ CurStays
  <1>a. /\ Found(t) \in Record /\ Found(t).ckpt \in Nat
    <2>1. Found(t) \in Record /\ 0..MaxRound \subseteq Nat
      BY FoundType, BoundsAssumption DEF IInv, TypeInv
    <2> QED
      BY <2>1 DEF Record
  <1>b. /\ cur' = cur /\ tries' = tries /\ outcome' = outcome
        /\ worker' = worker \/ (worker \in {"none", "dead"})
    BY DEF PauseTask, ResumeTask, CancelTask, run, EnsureWorkerAndPut,
           WorkerAlive
  <1>c. \A s \in Task : RedoStays(s)
    BY <1>b DEF RedoStays, RedoFailed
  <1>d. worker \in Running => active = cur /\ cur \in Task
                              /\ mem[cur] # NoRecord
    BY NoRecordType
    DEF EndsInv, HandsInv, IInv, TypeInv, WorkerLocals, Busy, Running, Safe,
        CurKnown
  <1>1. ASSUME NEW status \in Status \ TerminalStatuses,
               NEW attempt \in 0..MaxAttempt, NEW ok \in BOOLEAN,
               AppendEvent(t, [Found(t) EXCEPT !.status = status,
                                               !.attempt = attempt], ok),
               ~Ended(Found(t))
        PROVE  (\A s \in Task : EndStep(s)) /\ CurStays
    <2> DEFINE rec == [Found(t) EXCEPT !.status = status, !.attempt = attempt]
    <2>1. rec \in Record /\ ~Ended(rec) /\ rec.ckpt = Found(t).ckpt
      BY <1>a DEF Record, Ended
    <2>2. AppendEvent(t, rec, ok)
      BY <1>1
    <2> HIDE DEF rec
    <2>3. /\ \A s \in Task : EndStep(s)
          /\ mem'[t] = rec /\ disk'[t] \in {disk[t], rec}
          /\ \A s \in Task \ {t} : mem'[s] = mem[s] /\ disk'[s] = disk[s]
      BY <1>1, <1>a, <1>c, <2>1, <2>2, EventEnds
    <2>4. CurStays
      BY <1>d, <2>1, <2>3 DEF CurStays, Found
    <2> QED
      BY <2>3, <2>4
  <1>2. CASE PauseTask(t)
    <2> DEFINE status == StatusAfterPause(Found(t).status)
    <2>1. PICK ok \in BOOLEAN :
            AppendEvent(t, [Found(t) EXCEPT !.status = status,
                                            !.attempt = Found(t).attempt], ok)
      BY <1>2, <1>a DEF PauseTask, Record, WriteOutcomes
    <2>2. status \in Status \ TerminalStatuses
      BY DEF StatusAfterPause, Status, ActiveStatuses, TerminalStatuses
    <2>3. Found(t).attempt \in 0..MaxAttempt
      BY <1>a DEF Record
    <2>4. ~Ended(Found(t))
      BY <1>2 DEF PauseTask, Ended, TerminalStatuses
    <2> HIDE DEF status
    <2> QED
      BY <1>1, <2>1, <2>2, <2>3, <2>4
  <1>3. CASE ResumeTask(t)
    <2>1. PICK ok \in BOOLEAN :
            AppendEvent(t, [Found(t) EXCEPT !.status = "queued",
                                            !.attempt = Found(t).attempt + 1],
                        ok)
      BY <1>3, <1>a DEF ResumeTask, Record, WriteOutcomes
    <2>2. "queued" \in Status \ TerminalStatuses
      BY DEF Status, ActiveStatuses, TerminalStatuses
    <2>3. Found(t).attempt + 1 \in 0..MaxAttempt
      BY <1>a, <1>3, BoundsAssumption DEF Record, ResumeTask
    <2>4. ~Ended(Found(t))
      BY <1>3 DEF ResumeTask, Ended, TerminalStatuses
    <2> QED
      BY <1>1, <2>1, <2>2, <2>3, <2>4
  <1>4. CASE CancelTask(t)
    <2> DEFINE status == IF active = t THEN "cancelling" ELSE "cancelled"
    <2> DEFINE rec == [Found(t) EXCEPT !.status = status]
    <2>1. PICK ok \in BOOLEAN : AppendEvent(t, rec, ok)
      BY <1>4 DEF CancelTask, WriteOutcomes
    <2>2. rec \in Record /\ rec.status = status /\ rec.ckpt = Found(t).ckpt
      <3>1. status \in Status
        BY DEF Status, ActiveStatuses, TerminalStatuses
      <3> QED
        BY <1>a, <3>1 DEF Record
    <2>3. ~Ended(Found(t))
      BY <1>4 DEF CancelTask, Cancellable, Ended
    <2> HIDE DEF rec
    <2>4. /\ \A s \in Task : EndStep(s)
          /\ mem'[t] = rec /\ disk'[t] \in {disk[t], rec}
          /\ \A s \in Task \ {t} : mem'[s] = mem[s] /\ disk'[s] = disk[s]
      BY <1>a, <1>c, <2>1, <2>2, <2>3, EventEnds
    <2>5. worker \in Running /\ cur = t => ~Ended(rec)
      BY <1>d, <2>2 DEF Ended, TerminalStatuses
    <2>6. CurStays
      BY <1>d, <2>2, <2>4, <2>5 DEF CurStays, Found
    <2> QED
      BY <2>4, <2>6
  <1> QED
    BY <1>2, <1>3, <1>4

\* A fresh task: nothing of it was known, and its source is at most cached.
LEMMA EnqueueEnds ==
  ASSUME IInv, EndsInv, NEW t \in Task, NEW source \in Task, NEW writes,
         NEW attempt \in 1..MaxAttempt, NEW ckpt \in 0..MaxRound,
         EnqueueNewTask(t, NewRecord(attempt, ckpt), source, writes)
  PROVE  (\A s \in Task : EndStep(s)) /\ CurStays
  <1> DEFINE rec == NewRecord(attempt, ckpt)
  <1>a. rec \in Record /\ rec.ckpt = ckpt /\ ckpt \in Nat /\ ~Ended(rec)
    BY NewRecordType, BoundsAssumption
    DEF NewRecord, Ended, TerminalStatuses
  <1>b. /\ mem[t] = NoRecord /\ disk[t] = NoRecord
        /\ mem' = [mem EXCEPT ![source] = Found(source), ![t] = rec]
        /\ disk' = disk \/ disk' = [disk EXCEPT ![t] = rec]
        /\ worker' = worker \/ worker \in {"none", "dead"}
        /\ UNCHANGED <<active, app, listed, run, lastRun>>
    BY DEF EnqueueNewTask, EnsureWorkerAndPut, WorkerAlive
  <1> HIDE DEF rec
  <1>c. mem \in [Task -> Record] /\ disk \in [Task -> Record]
    BY DEF IInv, TypeInv, TypeOK
  <1>d. /\ mem'[t] = rec /\ disk'[t] \in {disk[t], rec}
        /\ \A s \in Task \ {t} : disk'[s] = disk[s]
                                 /\ mem'[s] \in {mem[s], Found(s)}
    BY <1>b, <1>c
  <1>e. \A s \in Task : RedoStays(s)
    BY <1>b DEF RedoStays, RedoFailed, run
  <1>1. NoRecord.status = "absent" /\ NoRecord.ckpt = 0
    BY DEF NoRecord
  <1>2. EndStep(t)
    <2>1. ~Ended(disk[t]) /\ ~Ended(Found(t)) /\ Found(t).ckpt = 0
      BY <1>b, <1>1 DEF Found, Ended, TerminalStatuses
    <2>2. WrittenTask(t, rec)
      BY <1>a, <1>d, <1>e, <2>1 DEF WrittenTask
    <2> QED
      BY <1>a, <2>2 DEF EndStep
  <1>3. ASSUME NEW s \in Task \ {t}
        PROVE  EndStep(s)
    BY <1>d, <1>e DEF EndStep, Rests
  <1>4. CurStays
    <2> SUFFICES ASSUME worker \in Running
                 PROVE  disk'[cur] = disk[cur] /\ mem'[cur] = mem[cur]
      BY DEF CurStays
    <2>1. cur \in Task /\ mem[cur] # NoRecord
      BY <1>1 DEF IInv, TypeInv, WorkerLocals, Busy, Running, Safe, CurKnown
    <2> QED
      BY <1>b, <1>d, <2>1 DEF Found
  <1> QED
    BY <1>2, <1>3, <1>4

LEMMA UserStepEnds ==
  ASSUME IInv, EndsInv, UserStep
  PROVE  (\A s \in Task : EndStep(s)) /\ CurStays
  <1>1. ASSUME NEW t \in Task, StartTask(t)
        PROVE  (\A s \in Task : EndStep(s)) /\ CurStays
    BY <1>1, EnqueueEnds, BoundsAssumption DEF StartTask
  <1>2. ASSUME NEW q \in Task, NEW t \in Task, RetryOperations(q, t)
        PROVE  (\A s \in Task : EndStep(s)) /\ CurStays
    BY <1>2, EnqueueEnds, BoundsAssumption DEF RetryOperations
  <1>3. ASSUME NEW q \in Task, NEW t \in Task, RestartFromCheckpoint(q, t)
        PROVE  (\A s \in Task : EndStep(s)) /\ CurStays
    <2>1. PICK step \in 1..Found(q).high :
            EnqueueNewTask(t, NewRecord(Found(q).attempt + 1, step), q, 2)
      BY <1>3 DEF RestartFromCheckpoint
    <2>2. Found(q).attempt + 1 \in 1..MaxAttempt /\ step \in 0..MaxRound
      BY <1>3, FoundAttempt, BoundsAssumption DEF RestartFromCheckpoint, Record
    <2> QED
      BY <2>1, <2>2, EnqueueEnds
  <1>4. ASSUME NEW t \in Task, GetTask(t)
        PROVE  (\A s \in Task : EndStep(s)) /\ CurStays
    <2>1. /\ mem' = [mem EXCEPT ![t] = Found(t)]
          /\ UNCHANGED <<disk, worker, run>>
      BY <1>4 DEF GetTask
    <2>2. \A s \in Task : /\ disk'[s] = disk[s]
                          /\ mem'[s] \in {mem[s], Found(s)}
                          /\ mem[s] # NoRecord => mem'[s] = mem[s]
      BY <2>1 DEF IInv, TypeInv, TypeOK, Found
    <2>3. \A s \in Task : RedoStays(s)
      BY <2>1 DEF RedoStays, RedoFailed, run
    <2>4. worker \in Running => cur \in Task /\ mem[cur] # NoRecord
      BY NoRecordType
      DEF IInv, TypeInv, WorkerLocals, Busy, Running, Safe, CurKnown
    <2> QED
      BY <2>2, <2>3, <2>4 DEF EndStep, Rests, CurStays
  <1>5. CASE ListTasks
    <2>1. PICK written \in SUBSET Task :
            /\ written \subseteq {t \in Task :
                 mem[t] = NoRecord /\ disk[t].status \in ActiveStatuses}
            /\ disk' = [t \in Task |-> IF t \in written
                                       THEN Interrupted(disk[t]) ELSE disk[t]]
      BY <1>5 DEF ListTasks
    <2>2. UNCHANGED <<mem, worker, run>>
      BY <1>5 DEF ListTasks
    <2>3. \A s \in Task : /\ Interrupted(disk[s]).ckpt = disk[s].ckpt
                          /\ Interrupted(disk[s]).status = "interrupted"
      BY DEF Interrupted, IInv, TypeInv, TypeOK, Record
    <2>4. \A s \in Task : RedoStays(s)
      BY <2>2 DEF RedoStays, RedoFailed, run
    <2>5. \A s \in Task : EndStep(s)
      <3> SUFFICES ASSUME NEW s \in Task
                   PROVE  Rests(s) \/ Marked(s)
        BY DEF EndStep
      <3>1. CASE s \in written
        BY <3>1, <2>1, <2>2, <2>3
        DEF Marked, Ended, ActiveStatuses, TerminalStatuses
      <3>2. CASE s \notin written
        BY <3>2, <2>1, <2>2, <2>4 DEF Rests
      <3> QED
        BY <3>1, <3>2
    <2>6. worker \in Running => cur \in Task
      BY DEF IInv, TypeInv, WorkerLocals, Busy, Running
    <2>7. CurStays
      BY <2>1, <2>2, <2>3, <2>6 DEF CurStays, Ended, TerminalStatuses
    <2> QED
      BY <2>5, <2>7
  <1> QED
    BY <1>1, <1>2, <1>3, <1>4, <1>5, HandlerEnds DEF UserStep

\* The locals of the invariant under a step that is not the worker's.
LEMMA LocalsStay ==
  ASSUME EndsInv, IInv, CurStays, UNCHANGED <<active, run>>,
         worker' = worker \/ worker' = "loop"
  PROVE  /\ HandsInv'
         /\ worker' \in ToolLoop /\ tries' <= 1 => mem'[cur'].ckpt <= round'
  BY DEF EndsInv, HandsInv, CheckpointInv, CurStays, Running, ToolLoop, run

LEMMA UserEnds == IInv /\ EndsInv /\ UserStep => EndsInv'
  <1> SUFFICES ASSUME IInv, EndsInv, UserStep
               PROVE  EndsInv'
    OBVIOUS
  <1>1. (\A s \in Task : EndStep(s)) /\ CurStays
    BY UserStepEnds
  <1>2. /\ UNCHANGED <<active, run>> /\ (worker' = worker \/ worker' = "loop")
    BY DEF UserStep, StartTask, RetryOperations, RestartFromCheckpoint,
           EnqueueNewTask, GetTask, PauseTask, ResumeTask, CancelTask,
           ListTasks, EnsureWorkerAndPut
  <1>3. FileEnds' /\ \A t \in Task : mem'[t] # NoRecord /\ ~Ended(mem'[t])
              => disk'[t].ckpt <= mem'[t].ckpt \/ RedoFailed(t)'
    BY <1>1, EndStepKeeps DEF FileEnds
  <1> QED
    BY <1>1, <1>2, <1>3, LocalsStay DEF EndsInv, CheckpointInv

\* stop() marks tasks that can go on; the end of the process forgets the rest.
LEMMA ProcessStepEnds ==
  ASSUME IInv, EndsInv, ProcessStep
  PROVE  \A s \in Task : EndStep(s)
  <1>1. CASE StopSignal \/ StopPill \/ ProcessStarts
    <2>1. UNCHANGED <<mem, disk, worker, run>>
      BY <1>1 DEF StopSignal, StopPill, ProcessStarts
    <2> QED
      BY <2>1 DEF EndStep, Rests, RedoStays, RedoFailed, run
  <1>2. CASE ProcessEnds
    BY <1>2 DEF ProcessEnds, EndStep, Rests
  <1>3. CASE StopMark
    <2>1. PICK ok \in WriteOutcomes, marked \in SUBSET Live, S \in SUBSET Live :
            StopMarks(ok, marked, S)
      BY <1>3, StopMarkShape
    <2>2. \A s \in Task : RedoStays(s)
      BY <1>3 DEF StopMark, RedoStays, RedoFailed, run
    <2>3. ASSUME NEW s \in Task, s \in S
          PROVE  EndStep(s)
      <3> DEFINE rec == Interrupted(mem[s])
      <3>1. /\ rec \in Record /\ rec.ckpt = mem[s].ckpt /\ ~Ended(rec)
            /\ mem[s].ckpt \in Nat
        <4>1. mem[s] \in Record /\ 0..MaxRound \subseteq Nat
          BY BoundsAssumption DEF IInv, TypeInv, TypeOK
        <4> QED
          BY <4>1 DEF Interrupted, Record, Status, Ended, TerminalStatuses
      <3>2. mem'[s] = rec /\ disk'[s] \in {disk[s], rec}
        BY <2>1, <2>3 DEF StopMarks, Interrupt
      <3>3. /\ mem[s] # NoRecord /\ ~Ended(mem[s])
            /\ Found(s) = mem[s]
        BY <2>3, NoRecordType
        DEF Live, Ended, ActiveStatuses, TerminalStatuses, Found
      <3>4. ~Ended(disk[s])
        BY <3>3, EndedFound DEF EndsInv
      <3> HIDE DEF rec
      <3>5. WrittenTask(s, rec)
        BY <2>2, <3>1, <3>2, <3>3, <3>4 DEF WrittenTask
      <3> QED
        BY <3>1, <3>5 DEF EndStep
    <2>4. ASSUME NEW s \in Task, s \notin S
          PROVE  EndStep(s)
      BY <2>1, <2>2, <2>4 DEF StopMarks, Interrupt, EndStep, Rests
    <2> QED
      BY <2>3, <2>4
  <1> QED
    BY <1>1, <1>2, <1>3 DEF ProcessStep

LEMMA ProcessEndsInv == IInv /\ EndsInv /\ ProcessStep => EndsInv'
  <1> SUFFICES ASSUME IInv, EndsInv, ProcessStep
               PROVE  EndsInv'
    OBVIOUS
  <1>1. FileEnds' /\ \A t \in Task : mem'[t] # NoRecord /\ ~Ended(mem'[t])
              => disk'[t].ckpt <= mem'[t].ckpt \/ RedoFailed(t)'
    BY ProcessStepEnds, EndStepKeeps DEF FileEnds
  <1>2. /\ HandsInv'
        /\ worker' \in ToolLoop /\ tries' <= 1 => mem'[cur'].ckpt <= round'
    <2>1. CASE ProcessEnds
      BY <2>1 DEF ProcessEnds, HandsInv, Running, ToolLoop
    <2>2. CASE StopSignal \/ StopPill \/ ProcessStarts
      BY <2>2 DEF StopSignal, StopPill, ProcessStarts, EndsInv, HandsInv,
                  CheckpointInv, run
    <2>3. CASE StopMark
      <3>1. PICK ok \in WriteOutcomes, marked \in SUBSET Live,
                 S \in SUBSET Live : StopMarks(ok, marked, S)
        BY <2>3, StopMarkShape
      <3>2. UNCHANGED <<active, worker, run>>
        BY <2>3 DEF StopMark
      <3>3. worker \in Running => cur \in Task
        BY DEF IInv, TypeInv, WorkerLocals, Busy, Running
      <3>4. \A s \in Task : /\ Interrupted(mem[s]).ckpt = mem[s].ckpt
                            /\ Interrupted(mem[s]).status = "interrupted"
        BY DEF Interrupted, IInv, TypeInv, TypeOK, Record
      <3>5. CurStays
        BY <3>1, <3>3, <3>4
        DEF CurStays, StopMarks, Interrupt, Ended, TerminalStatuses
      <3> QED
        BY <3>2, <3>5, LocalsStay
    <2> QED
      BY <2>1, <2>2, <2>3 DEF ProcessStep
  <1> QED
    BY <1>1, <1>2 DEF EndsInv, CheckpointInv

\* What is known of the task the worker runs.
LEMMA RunningCur ==
  ASSUME IInv, EndsInv, worker \in Running
  PROVE  /\ cur \in Task /\ mem[cur] \in Record /\ mem[cur] # NoRecord
         /\ Found(cur) = mem[cur] /\ mem[cur].ckpt \in Nat
         /\ active = cur /\ ~Ended(disk[cur])
         /\ disk[cur] \in Record /\ disk[cur].ckpt \in Nat
  <1>1. cur \in Task /\ mem[cur].status # "absent"
    BY DEF IInv, TypeInv, WorkerLocals, Busy, Running, Safe, CurKnown
  <1>2. mem[cur] \in Record /\ disk[cur] \in Record /\ 0..MaxRound \subseteq Nat
    BY <1>1, BoundsAssumption DEF IInv, TypeInv, TypeOK
  <1>3. mem[cur].ckpt \in Nat /\ disk[cur].ckpt \in Nat
    BY <1>2 DEF Record
  <1>4. mem[cur] # NoRecord /\ Found(cur) = mem[cur]
    BY <1>1, NoRecordType DEF Found
  <1> QED
    BY <1>1, <1>2, <1>3, <1>4 DEF EndsInv, HandsInv

\* A step of the worker that writes rec: what remains to be shown of it.
LEMMA WorkerWrites ==
  ASSUME IInv, EndsInv, cur \in Task, NEW rec \in Record, NEW ok \in BOOLEAN,
         AppendEvent(cur, rec, ok), ~Ended(disk[cur]),
         \/ Ended(rec)
         \/ ~Ended(Found(cur)) /\ Found(cur).ckpt <= rec.ckpt
            /\ \A s \in Task : RedoStays(s)
         \/ tries > 1 /\ (ok \/ RedoFailed(cur)')
  PROVE  /\ \A s \in Task : EndStep(s)
         /\ mem'[cur] = rec
         /\ disk'[cur] = IF ok THEN rec ELSE disk[cur]
  <1>1. /\ mem' = [mem EXCEPT ![cur] = rec]
        /\ disk' = IF ok THEN [disk EXCEPT ![cur] = rec] ELSE disk
    BY DEF AppendEvent
  <1>2. mem \in [Task -> Record] /\ disk \in [Task -> Record]
    BY DEF IInv, TypeInv, TypeOK
  <1>3. mem'[cur] = rec /\ disk'[cur] = IF ok THEN rec ELSE disk[cur]
    BY <1>1, <1>2
  <1>4. \A s \in Task \ {cur} : mem'[s] = mem[s] /\ disk'[s] = disk[s]
    BY <1>1, <1>2
  <1>5. WrittenTask(cur, rec)
    BY <1>3 DEF WrittenTask
  <1>6. \A s \in Task \ {cur} : Rests(s)
    BY <1>4 DEF Rests, RedoStays, RedoFailed
  <1> QED
    BY <1>3, <1>5, <1>6 DEF EndStep

\* What the worker's place and locals must satisfy after a step.
HandsAfter ==
    /\ HandsInv'
    /\ worker' \in ToolLoop /\ tries' <= 1 => mem'[cur'].ckpt <= round'

LEMMA WorkerStepEnds ==
  ASSUME IInv, EndsInv, WorkerStep
  PROVE  (\A s \in Task : EndStep(s)) /\ HandsAfter
  <1>1. CASE WorkerLoop \/ WorkerGet \/ WorkerSkip \/ WorkerFinally
    <2>1. /\ UNCHANGED <<mem, disk>>
          /\ worker \notin Running
          /\ worker' \notin Running \cup {"fin", "finDying"} \cup ToolLoop
      BY <1>1 DEF WorkerLoop, WorkerGet, WorkerSkip, WorkerFinally, Running,
                  ToolLoop
    <2> QED
      BY <2>1 DEF EndStep, Rests, RedoStays, RedoFailed, HandsAfter, HandsInv,
                  Running
  <1>2. CASE WorkerBegin
    <2> DEFINE rec == [mem[cur] EXCEPT !.status = "running"]
    <2>1. PICK ok \in BOOLEAN :
            /\ AppendEvent(cur, rec, ok)
            /\ IF ok /\ cur \in projects
               THEN /\ worker' = "run" /\ round' = mem[cur].ckpt
                    /\ cur' = cur /\ tries' = 1
               ELSE worker' = "dead"
      BY <1>2 DEF WorkerBegin, WriteOutcomes
    <2>2. /\ cur \in Task /\ mem[cur].status = "queued" /\ active' = cur
          /\ worker = "got"
      BY <1>2 DEF WorkerBegin, StillQueued, IInv, TypeInv, WorkerLocals, Busy
    <2>3. /\ rec \in Record /\ rec.status = "running" /\ mem[cur] \in Record
          /\ rec.ckpt = mem[cur].ckpt /\ rec.ckpt \in Nat
      <3>1. mem[cur] \in Record /\ "running" \in Status
        BY <2>2 DEF IInv, TypeInv, TypeOK, Status, ActiveStatuses
      <3>2. mem[cur].ckpt \in 0..MaxRound /\ 0..MaxRound \subseteq Nat
        BY <3>1, BoundsAssumption DEF Record
      <3> QED
        BY <3>1, <3>2 DEF Record
    <2> HIDE DEF rec
    <2>4. /\ Found(cur) = mem[cur] /\ ~Ended(mem[cur]) /\ ~Ended(rec)
          /\ mem[cur] # NoRecord
      BY <2>2, <2>3, NoRecordType DEF Found, Ended, TerminalStatuses
    <2>5. ~Ended(disk[cur])
      BY <2>2, <2>4, EndedFound DEF EndsInv
    <2>6. \A s \in Task : RedoStays(s)
      BY <2>2 DEF RedoStays, RedoFailed
    <2>7. /\ \A s \in Task : EndStep(s)
          /\ mem'[cur] = rec /\ disk'[cur] = IF ok THEN rec ELSE disk[cur]
      BY <2>1, <2>2, <2>3, <2>4, <2>5, <2>6, WorkerWrites
    <2>8. HandsAfter
      BY <2>1, <2>2, <2>3, <2>4, <2>5, <2>7
      DEF HandsAfter, HandsInv, Running, ToolLoop
    <2> QED
      BY <2>7, <2>8
  <1>3. CASE ProviderAnswers \/ ProviderRaises \/ FinalAnswer
    <2>1. /\ UNCHANGED <<mem, disk, active, cur, tries, round>>
          /\ worker \in ToolLoop /\ worker' \in Running
          /\ worker' = "except" \/ worker' \in ToolLoop
      BY <1>3 DEF ProviderAnswers, ProviderRaises, FinalAnswer, RaiseWith,
                  Running, ToolLoop, run
    <2>2. worker \in Running
      BY <2>1 DEF Running, ToolLoop
    <2>3. \A s \in Task : RedoStays(s)
      BY <2>1 DEF RedoStays, RedoFailed, ToolLoop
    <2> QED
      BY <2>1, <2>2, <2>3
      DEF EndStep, Rests, HandsAfter, EndsInv, HandsInv, CheckpointInv
  <1>4. CASE ProviderUnavailable
    <2>1. /\ UNCHANGED <<mem, disk, active, cur>>
          /\ worker = "provider" /\ worker' \in Running
          /\ \/ worker' = "except"
             \/ worker' = "run" /\ tries' = tries + 1
      BY <1>4 DEF ProviderUnavailable, RaiseWith, Running
    <2>2. worker \in Running /\ worker \in ToolLoop
      BY <2>1 DEF Running, ToolLoop
    <2>3. \A s \in Task : RedoStays(s)
      BY <2>1 DEF RedoStays, RedoFailed
    <2>4. tries \in Nat
      BY BoundsAssumption DEF IInv, TypeInv, TypeOK
    <2>5. /\ worker' \in ToolLoop => tries' > 1
          /\ worker' \in Running => tries' > 0
      BY <1>4, <2>1, <2>2, <2>4
      DEF ToolLoop, EndsInv, HandsInv, ProviderUnavailable, RaiseWith
    <2>6. tries' <= 1 => ~(tries' > 1)
      BY <1>4, <2>4 DEF ProviderUnavailable
    <2> QED
      BY <2>1, <2>2, <2>3, <2>5, <2>6
      DEF EndStep, Rests, HandsAfter, EndsInv, HandsInv, CheckpointInv
  <1>5. CASE RoundBegin
    <2>1. worker \in Running /\ worker \in ToolLoop /\ worker = "run"
      BY <1>5 DEF RoundBegin, Running, ToolLoop
    <2>2. \A s \in Task : RedoStays(s)
      BY <2>1 DEF RedoStays, RedoFailed
    <2>3. /\ UNCHANGED <<active, cur, round, tries>>
          /\ worker' \in {"except", "provider"}
      BY <1>5 DEF RoundBegin, RaiseWith
    <2>4. CASE UNCHANGED <<mem, disk>>
      BY <2>1, <2>2, <2>3, <2>4
      DEF EndStep, Rests, HandsAfter, EndsInv, HandsInv, CheckpointInv
    <2>5. CASE \E ok \in BOOLEAN : AppendEvent(cur, mem[cur], ok)
      <3>1. PICK ok \in BOOLEAN : AppendEvent(cur, mem[cur], ok)
        BY <2>5
      <3>2. ~Ended(mem[cur]) /\ mem[cur].ckpt <= mem[cur].ckpt
        BY <2>1, RunningCur DEF EndsInv, HandsInv
      <3>3. /\ \A s \in Task : EndStep(s)
            /\ mem'[cur] = mem[cur]
            /\ disk'[cur] = IF ok THEN mem[cur] ELSE disk[cur]
        BY <2>1, <2>2, <3>1, <3>2, RunningCur, WorkerWrites
      <3>4. HandsAfter
        BY <2>1, <2>3, <3>2, <3>3, RunningCur
        DEF HandsAfter, EndsInv, HandsInv, CheckpointInv
      <3> QED
        BY <3>3, <3>4
    <2> QED
      BY <1>5, <2>4, <2>5 DEF RoundBegin, WriteOutcomes
  <1>6. CASE ToolCalls
    <2>1. worker \in Running /\ worker \in ToolLoop /\ worker = "tools"
      BY <1>6 DEF ToolCalls, Running, ToolLoop
    <2>2. \A s \in Task : RedoStays(s)
      BY <2>1 DEF RedoStays, RedoFailed
    <2>3. UNCHANGED <<active, cur, tries>>
      BY <1>6 DEF ToolCalls
    <2>4. CASE worker' = "except" /\ UNCHANGED <<mem, disk>>
      BY <2>1, <2>2, <2>3, <2>4
      DEF EndStep, Rests, HandsAfter, EndsInv, HandsInv, CheckpointInv, Running,
          ToolLoop
    <2>5. CASE ~(worker' = "except" /\ UNCHANGED <<mem, disk>>)
      <3> DEFINE high == IF round + 1 > mem[cur].high THEN round + 1
                         ELSE mem[cur].high
      <3> DEFINE rec == [mem[cur] EXCEPT !.ckpt = round + 1, !.high = high]
      <3>1. PICK ok \in BOOLEAN :
              /\ AppendEvent(cur, rec, ok)
              /\ IF ok THEN worker' = "run"
                       ELSE worker' = "except" /\ outcome' = "failed"
              /\ round' = round + 1
        BY <1>6, <2>1, <2>5, RunningCur
        DEF ToolCalls, RaiseWith, WriteOutcomes, Record
      <3>2. /\ rec \in Record /\ rec.status = mem[cur].status
            /\ rec.ckpt = round + 1 /\ round \in Nat
        <4>1. round + 1 \in 0..MaxRound /\ round \in Nat
          BY <2>1, BoundsAssumption
          DEF IInv, TypeInv, TypeOK, WorkerLocals
        <4>2. high \in 0..MaxRound
          BY <2>1, RunningCur, <4>1 DEF Record
        <4> HIDE DEF high
        <4> QED
          BY <2>1, RunningCur, <4>1, <4>2 DEF Record
      <3> HIDE DEF rec
      <3>3. ~Ended(mem[cur]) /\ ~Ended(rec)
        BY <2>1, <3>2 DEF EndsInv, HandsInv, Ended
      <3>4. tries \in Nat
        BY BoundsAssumption DEF IInv, TypeInv, TypeOK
      <3>5. \/ mem[cur].ckpt <= rec.ckpt
            \/ tries > 1 /\ (ok \/ RedoFailed(cur)')
        <4>1. CASE tries <= 1
          <5>1. mem[cur].ckpt <= round
            BY <2>1, <4>1 DEF EndsInv, CheckpointInv
          <5> QED
            BY <2>1, <3>2, <5>1, RunningCur
        <4>2. CASE tries > 1
          BY <2>3, <3>1, <4>2 DEF RedoFailed
        <4> QED
          BY <3>4, <4>1, <4>2
      <3>6. /\ \A s \in Task : EndStep(s)
            /\ mem'[cur] = rec
            /\ disk'[cur] = IF ok THEN rec ELSE disk[cur]
        BY <2>1, <2>2, <3>1, <3>2, <3>3, <3>5, RunningCur, WorkerWrites
      <3>7. HandsAfter
        <4>1. active' = cur' /\ tries' > 0 /\ ~Ended(mem'[cur'])
              /\ ~Ended(disk'[cur'])
          BY <2>1, <2>3, <3>3, <3>6, RunningCur DEF EndsInv, HandsInv
        <4>2. mem'[cur'].ckpt <= round'
          BY <2>3, <3>1, <3>2, <3>6
        <4> QED
          BY <4>1, <4>2 DEF HandsAfter, HandsInv
      <3> QED
        BY <3>6, <3>7
    <2> QED
      BY <2>4, <2>5
  <1>7. CASE WorkerComplete
    <2> DEFINE rec == [mem[cur] EXCEPT !.status = "completed", !.ckpt = 0]
    <2>1. PICK ok \in BOOLEAN :
            /\ AppendEvent(cur, rec, ok)
            /\ IF ok THEN worker' = "fin"
                     ELSE worker' = "except" /\ outcome' = "failed"
      BY <1>7 DEF WorkerComplete, RaiseWith, WriteOutcomes
    <2>2. /\ worker \in Running /\ UNCHANGED <<active, cur, tries>>
      BY <1>7 DEF WorkerComplete, Running
    <2>3. rec \in Record /\ Ended(rec)
      <3>1. "completed" \in Status /\ 0 \in 0..MaxRound
        BY BoundsAssumption DEF Status, TerminalStatuses
      <3> QED
        BY <2>2, <3>1, RunningCur DEF Record, Ended, TerminalStatuses
    <2> HIDE DEF rec
    <2>4. /\ \A s \in Task : EndStep(s)
          /\ disk'[cur] = IF ok THEN rec ELSE disk[cur]
      BY <2>1, <2>2, <2>3, RunningCur, WorkerWrites
    <2>5. HandsAfter
      BY <2>1, <2>2, <2>4, RunningCur
      DEF HandsAfter, EndsInv, HandsInv, Running, ToolLoop
    <2> QED
      BY <2>4, <2>5
  <1>8. CASE WorkerExcept
    <2>1. /\ worker \in Running /\ worker = "except"
          /\ UNCHANGED <<active, cur>>
          /\ worker' \in {"fin", "finDying"}
      BY <1>8 DEF WorkerExcept, Running, run
    <2>2. HandsAfter
      BY <2>1, RunningCur DEF HandsAfter, HandsInv, Running, ToolLoop
    <2>3. CASE UNCHANGED <<mem, disk>> /\ outcome # "failed"
      BY <2>2, <2>3 DEF EndStep, Rests, RedoStays, RedoFailed
    <2>4. CASE \E ok \in BOOLEAN :
                 AppendEvent(cur, [mem[cur] EXCEPT !.status = StatusAfter], ok)
      <3> DEFINE rec == [mem[cur] EXCEPT !.status = StatusAfter]
      <3>1. PICK ok \in BOOLEAN : AppendEvent(cur, rec, ok)
        BY <2>4
      <3>2. StatusAfter \in {"paused", "failed", "cancelled", mem[cur].status}
        BY DEF StatusAfter
      <3>3. /\ rec \in Record /\ rec.status = StatusAfter
            /\ rec.ckpt = mem[cur].ckpt
        <4>1. StatusAfter \in Status
          BY <2>1, <3>2, RunningCur
          DEF Record, Status, ActiveStatuses, TerminalStatuses
        <4> QED
          BY <2>1, <4>1, RunningCur DEF Record
      <3> HIDE DEF rec
      <3>4. CASE outcome = "failed"
        <4>1. Ended(rec)
          BY <3>3, <3>4 DEF StatusAfter, Ended, TerminalStatuses
        <4> QED
          BY <2>1, <2>2, <3>1, <3>3, <4>1, RunningCur, WorkerWrites
      <3>5. CASE outcome # "failed"
        <4>1. ~Ended(mem[cur]) /\ mem[cur].ckpt <= rec.ckpt
          BY <2>1, <3>3, <3>5, RunningCur DEF EndsInv, HandsInv
        <4>2. \A s \in Task : RedoStays(s)
          BY <3>5 DEF RedoStays, RedoFailed
        <4> QED
          BY <2>1, <2>2, <3>1, <3>3, <4>1, <4>2, RunningCur, WorkerWrites
      <3> QED
        BY <3>4, <3>5
    <2> QED
      BY <1>8, <2>2, <2>3, <2>4 DEF WorkerExcept, WriteOutcomes
  <1> QED
    BY <1>1, <1>2, <1>3, <1>4, <1>5, <1>6, <1>7, <1>8 DEF WorkerStep

LEMMA EndsInitially == Init => EndsInv
  <1> SUFFICES ASSUME Init PROVE EndsInv
    OBVIOUS
  <1>1. \A t \in Task : mem[t] = NoRecord /\ disk[t] = NoRecord
    BY DEF Init
  <1>2. worker = "none"
    BY DEF Init
  <1> QED
    BY <1>1, <1>2 DEF EndsInv, FileEnds, HandsInv, CheckpointInv, Running,
                      ToolLoop

\* Every step of the program treats every task as EndStep says.
LEMMA EveryStepEnds ==
  ASSUME IInv, EndsInv, [Next]_vars
  PROVE  (\A s \in Task : EndStep(s)) /\ EndsInv'
  <1>1. CASE UserStep
    BY <1>1, UserStepEnds, UserEnds
  <1>2. CASE ProcessStep
    BY <1>2, ProcessStepEnds, ProcessEndsInv
  <1>3. CASE WorkerStep
    <2>1. (\A s \in Task : EndStep(s)) /\ HandsAfter
      BY <1>3, WorkerStepEnds
    <2>2. FileEnds' /\ \A t \in Task : mem'[t] # NoRecord /\ ~Ended(mem'[t])
                => disk'[t].ckpt <= mem'[t].ckpt \/ RedoFailed(t)'
      BY <2>1, EndStepKeeps DEF FileEnds
    <2> QED
      BY <2>1, <2>2 DEF EndsInv, CheckpointInv, HandsAfter
  <1>4. CASE UNCHANGED vars
    <2>1. UNCHANGED <<mem, disk, active, worker, cur, round, tries, outcome>>
      BY <1>4 DEF vars, run
    <2> QED
      BY <2>1 DEF EndStep, Rests, RedoStays, RedoFailed, EndsInv, FileEnds,
                  HandsInv, CheckpointInv
  <1> QED
    BY <1>1, <1>2, <1>3, <1>4 DEF Next

LEMMA EndsInvariant == Spec => [](IInv /\ EndsInv)
  <1>1. IInv /\ EndsInv /\ [Next]_vars => (IInv /\ EndsInv)'
    BY StepSafe, EveryStepEnds
  <1> QED
    BY <1>1, InitSafe, EndsInitially, PTL DEF Spec

\* What the user saw end stays ended, for any number of tasks, failing writes
\* and restarts: a file that says so is what the memory says, the worker never
\* holds a task whose file has ended, and every handler that writes refuses an
\* ended record.
THEOREM EndsAreFinal == Spec => TerminalIsFinal
  <1>1. IInv /\ EndsInv /\ [Next]_vars
          => [\A t \in Task : disk[t].status \in TerminalStatuses =>
                /\ disk'[t] = disk[t]
                /\ mem'[t] \in {disk[t], NoRecord}]_vars
    BY EveryStepEnds, EndStepKeeps DEF Ended
  <1> QED
    BY <1>1, EndsInvariant, PTL DEF Spec, TerminalIsFinal

\* No step takes a saved checkpoint back but the end of the task and the redo
\* by another candidate model: the memory is never behind the file of a task
\* that can go on, and the first candidate only counts rounds up.
THEOREM CheckpointsSurvive == Spec => CheckpointSurvives
  <1>1. IInv /\ EndsInv /\ [Next]_vars
          => [\A t \in Task : disk'[t].ckpt < disk[t].ckpt =>
                \/ disk'[t].status \in TerminalStatuses
                \/ cur = t /\ tries > 1]_vars
    BY EveryStepEnds, EndStepKeeps DEF Ended
  <1> QED
    BY <1>1, EndsInvariant, PTL DEF Spec, CheckpointSurvives

-----------------------------------------------------------------------------
(* Who holds a task that waits or runs *)

\* The process is up and no write has failed: the worker is then neither dead
\* nor told to stop, and each running task is in its hands, each queued one in
\* its reach.
Calm == faults = 0 /\ app = "up"
InLine(t) == \E i \in 1..Len(queue) : queue[i] = t
Owns ==
    /\ worker \notin {"dead", "finDying"} /\ ~stopFlag
    /\ \A i \in 1..Len(queue) : queue[i] # Pill
    /\ worker = "except" => outcome \in {"paused", "failed", "cancelled"}
    /\ \A t \in Task : mem[t].status \in {"running", "pausing"} =>
         active = t /\ cur = t /\ Executing
    /\ \A t \in Task : mem[t].status = "queued" =>
         WorkerAlive /\ (InLine(t) \/ (worker = "got" /\ cur = t))

\* Nothing of a process survives it in memory.
DownInv ==
    app = "down" =>
        /\ \A t \in Task : mem[t] = NoRecord
        /\ queue = <<>> /\ ~stopFlag /\ worker = "none"

OwnInv == DownInv /\ (Calm => Owns)

\* A task that is active and known is in memory.
LEMMA KnownActive ==
  ASSUME IInv, NEW t \in Task, Known(t), Found(t).status \in ActiveStatuses
  PROVE  Found(t) = mem[t]
  BY DEF Known, Found, IInv, Safe, ListedInv

\* While nothing fails, an event reaches the file.
LEMMA CalmWrite ==
  ASSUME IInv, NEW ok \in BOOLEAN, CountFault(ok), faults' = 0
  PROVE  ok = TRUE /\ faults = 0
  <1>1. faults \in Nat
    BY BoundsAssumption DEF IInv, TypeInv, TypeOK
  <1> QED
    BY <1>1 DEF CountFault

\* A put leaves what was in the line there and adds its task.
LEMMA PutInLine ==
  ASSUME IInv, NEW t \in Task, queue' = Append(queue, t)
  PROVE  /\ InLine(t)'
         /\ \A s \in Task : InLine(s) => InLine(s)'
         /\ (\A i \in 1..Len(queue) : queue[i] # Pill)
              => \A i \in 1..Len(queue') : queue'[i] # Pill
  <1>1. queue \in Seq(Task \cup {Pill}) /\ t \in Task \cup {Pill} /\ t # Pill
    BY TaskAssumption DEF IInv, TypeInv, TypeOK
  <1>2. /\ Len(queue') = Len(queue) + 1 /\ Len(queue) \in Nat
        /\ queue'[Len(queue) + 1] = t
        /\ \A i \in 1..Len(queue) : queue'[i] = queue[i]
    BY <1>1
  <1>3. InLine(t)'
    <2>1. Len(queue) + 1 \in 1..Len(queue')
      BY <1>2
    <2> QED
      BY <1>2, <2>1 DEF InLine
  <1>4. ASSUME NEW s \in Task, InLine(s)
        PROVE  InLine(s)'
    <2>1. PICK i \in 1..Len(queue) : queue[i] = s
      BY <1>4 DEF InLine
    <2>2. i \in 1..Len(queue') /\ queue'[i] = s
      BY <1>2, <2>1
    <2> QED
      BY <2>2 DEF InLine
  <1>5. ASSUME \A i \in 1..Len(queue) : queue[i] # Pill,
               NEW i \in 1..Len(queue')
        PROVE  queue'[i] # Pill
    BY <1>1, <1>2, <1>5
  <1> QED
    BY <1>3, <1>4, <1>5

\* A handler that changes statuses only as the user may.
LEMMA HandlerOwns ==
  ASSUME IInv, Owns, UNCHANGED <<active, cur, outcome>>,
         \/ UNCHANGED <<queue, worker, stopFlag>>
         \/ \E q \in Task : EnsureWorkerAndPut(q),
         \A s \in Task : mem'[s].status \in {"running", "pausing"}
                           => mem[s].status \in {"running", "pausing"},
         \A s \in Task : mem'[s].status = "queued"
                           => mem[s].status = "queued" \/ EnsureWorkerAndPut(s)
  PROVE  Owns'
  <1>1. worker' = worker \/ (worker = "none" /\ worker' = "loop")
    BY DEF Owns, EnsureWorkerAndPut, WorkerAlive
  <1>2. stopFlag' = FALSE
    BY DEF Owns, EnsureWorkerAndPut, IInv, TypeInv, TypeOK
  <1>3. /\ \A s \in Task : InLine(s) => InLine(s)'
        /\ \A i \in 1..Len(queue') : queue'[i] # Pill
    <2>1. CASE queue' = queue
      BY <2>1 DEF InLine, Owns
    <2>2. CASE \E q \in Task : queue' = Append(queue, q)
      BY <2>2, PutInLine DEF Owns
    <2> QED
      BY <2>1, <2>2 DEF EnsureWorkerAndPut
  <1>4. \A s \in Task : EnsureWorkerAndPut(s) => WorkerAlive' /\ InLine(s)'
    BY PutInLine DEF EnsureWorkerAndPut, WorkerAlive
  <1>5. \A s \in Task : mem'[s].status = "queued" =>
          WorkerAlive' /\ (InLine(s)' \/ (worker' = "got" /\ cur' = s))
    BY <1>1, <1>3, <1>4 DEF Owns, WorkerAlive
  <1>6. \A s \in Task : mem'[s].status \in {"running", "pausing"} =>
          active' = s /\ cur' = s /\ Executing'
    BY <1>1 DEF Owns, Executing
  <1>7. /\ worker' \notin {"dead", "finDying"}
        /\ worker' = "except" => outcome' \in {"paused", "failed", "cancelled"}
    BY <1>1 DEF Owns
  <1> QED
    BY <1>2, <1>3, <1>5, <1>6, <1>7 DEF Owns

LEMMA EnqueueOwns ==
  ASSUME IInv, Owns, faults' = 0, NEW t \in Task, NEW source \in Task,
         NEW writes, NEW attempt, NEW ckpt,
         source = t \/ Known(source),
         EnqueueNewTask(t, NewRecord(attempt, ckpt), source, writes)
  PROVE  Owns'
  <1> DEFINE rec == NewRecord(attempt, ckpt)
  <1>1. rec.status = "queued"
    BY DEF NewRecord
  <1>2. PICK ok \in BOOLEAN : CountFault(ok) /\ (ok => EnsureWorkerAndPut(t))
    BY DEF EnqueueNewTask, WriteOutcomes
  <1>3. EnsureWorkerAndPut(t)
    BY <1>2, CalmWrite
  <1>4. mem' = [mem EXCEPT ![source] = Found(source), ![t] = rec]
        /\ UNCHANGED <<active, cur, outcome>>
    BY DEF EnqueueNewTask, run
  <1> HIDE DEF rec
  <1>5. /\ mem'[t] = rec
        /\ \A s \in Task \ {t, source} : mem'[s] = mem[s]
        /\ source # t => mem'[source] = Found(source)
    BY <1>4 DEF IInv, TypeInv, TypeOK
  <1>6. \A s \in Task \ {t} : mem'[s].status \in {"running", "pausing", "queued"}
                                => mem'[s] = mem[s]
    BY <1>5, KnownActive DEF ActiveStatuses
  <1> QED
    BY <1>1, <1>3, <1>4, <1>5, <1>6, HandlerOwns

LEMMA UserOwns ==
  ASSUME IInv, Owns, faults' = 0, UserStep
  PROVE  Owns'
  <1>1. ASSUME NEW t \in Task, StartTask(t)
        PROVE  Owns'
    BY <1>1, EnqueueOwns DEF StartTask
  <1>2. ASSUME NEW q \in Task, NEW t \in Task, RetryOperations(q, t)
        PROVE  Owns'
    BY <1>2, EnqueueOwns DEF RetryOperations
  <1>3. ASSUME NEW q \in Task, NEW t \in Task, RestartFromCheckpoint(q, t)
        PROVE  Owns'
    BY <1>3, EnqueueOwns DEF RestartFromCheckpoint
  <1>4. ASSUME NEW t \in Task, GetTask(t)
        PROVE  Owns'
    <2>1. /\ Known(t) /\ mem' = [mem EXCEPT ![t] = Found(t)]
          /\ UNCHANGED <<active, cur, outcome, queue, worker, stopFlag>>
      BY <1>4 DEF GetTask, run
    <2>2. \A s \in Task :
            mem'[s].status \in {"running", "pausing", "queued"}
              => mem'[s] = mem[s]
      BY <2>1, KnownActive DEF IInv, TypeInv, TypeOK, ActiveStatuses
    <2> QED
      BY <2>1, <2>2, HandlerOwns
  <1>5. ASSUME NEW t \in Task, NEW rec \in Record, NEW ok \in BOOLEAN,
               AppendEvent(t, rec, ok),
               UNCHANGED <<active, cur, outcome>>,
               \/ UNCHANGED <<queue, worker, stopFlag>>
               \/ \E q \in Task : EnsureWorkerAndPut(q),
               rec.status \in {"running", "pausing"}
                 => mem[t].status \in {"running", "pausing"},
               rec.status = "queued" => EnsureWorkerAndPut(t)
        PROVE  Owns'
    <2>1. mem' = [mem EXCEPT ![t] = rec]
      BY <1>5 DEF AppendEvent
    <2>2. mem'[t] = rec /\ \A s \in Task \ {t} : mem'[s] = mem[s]
      BY <2>1 DEF IInv, TypeInv, TypeOK
    <2> QED
      BY <1>5, <2>2, HandlerOwns
  <1>a. \A t \in Task : Found(t) \in Record
    BY FoundType DEF IInv, TypeInv
  <1>6. ASSUME NEW t \in Task, PauseTask(t)
        PROVE  Owns'
    <2> DEFINE status == StatusAfterPause(Found(t).status)
    <2> DEFINE rec == [Found(t) EXCEPT !.status = status]
    <2>1. PICK ok \in BOOLEAN : AppendEvent(t, rec, ok)
      BY <1>6, <1>a DEF PauseTask, WriteOutcomes, Record
    <2>2. rec \in Record /\ rec.status = status
      BY <1>a DEF StatusAfterPause, Record, Status, ActiveStatuses
    <2>3. /\ rec.status # "queued"
          /\ rec.status \in {"running", "pausing"}
               => mem[t].status \in {"running", "pausing"}
      BY <1>6, <2>2, KnownActive
      DEF PauseTask, StatusAfterPause, ActiveStatuses
    <2>4. UNCHANGED <<active, cur, outcome, queue, worker, stopFlag>>
      BY <1>6 DEF PauseTask, run
    <2> HIDE DEF rec
    <2> QED
      BY <1>5, <2>1, <2>2, <2>3, <2>4
  <1>7. ASSUME NEW t \in Task, ResumeTask(t)
        PROVE  Owns'
    <2> DEFINE rec == [Found(t) EXCEPT !.status = "queued",
                                       !.attempt = Found(t).attempt + 1]
    <2>1. PICK ok \in BOOLEAN : /\ AppendEvent(t, rec, ok)
                                /\ ok => EnsureWorkerAndPut(t)
      BY <1>7, <1>a DEF ResumeTask, WriteOutcomes, Record
    <2>2. rec \in Record /\ rec.status = "queued"
      <3>1. Found(t).attempt + 1 \in 0..MaxAttempt
        BY <1>7, <1>a, BoundsAssumption DEF ResumeTask, Record
      <3> QED
        BY <1>a, <3>1 DEF Record, Status, ActiveStatuses
    <2>3. EnsureWorkerAndPut(t)
      BY <2>1, CalmWrite DEF AppendEvent
    <2>4. UNCHANGED <<active, cur, outcome>>
      BY <1>7 DEF ResumeTask, run
    <2> HIDE DEF rec
    <2> QED
      BY <1>5, <2>1, <2>2, <2>3, <2>4
  <1>8. ASSUME NEW t \in Task, CancelTask(t)
        PROVE  Owns'
    <2> DEFINE status == IF active = t THEN "cancelling" ELSE "cancelled"
    <2> DEFINE rec == [Found(t) EXCEPT !.status = status]
    <2>1. PICK ok \in BOOLEAN : AppendEvent(t, rec, ok)
      BY <1>8 DEF CancelTask, WriteOutcomes
    <2>2. rec \in Record /\ rec.status = status
      BY <1>a DEF Record, Status, ActiveStatuses, TerminalStatuses
    <2>3. rec.status \notin {"running", "pausing", "queued"}
      BY <2>2
    <2>4. UNCHANGED <<active, cur, outcome, queue, worker, stopFlag>>
      BY <1>8 DEF CancelTask, run
    <2> HIDE DEF rec
    <2> QED
      BY <1>5, <2>1, <2>2, <2>3, <2>4
  <1>9. CASE ListTasks
    BY <1>9, HandlerOwns DEF ListTasks, run
  <1> QED
    BY <1>1, <1>2, <1>3, <1>4, <1>6, <1>7, <1>8, <1>9 DEF UserStep

\* A step of the worker while it holds its task.
LEMMA HoldOwns ==
  ASSUME IInv, Owns, UNCHANGED <<queue, stopFlag, active, cur>>,
         worker \in Running, worker' \in Running \cup {"fin"},
         worker' = "except" => outcome' \in {"paused", "failed", "cancelled"},
         \A s \in Task \ {cur} : mem'[s] = mem[s],
         mem'[cur].status \in {"running", "pausing"}
           => worker' # "fin" /\ mem[cur].status \in {"running", "pausing"},
         mem'[cur].status = "queued" => mem[cur].status = "queued"
  PROVE  Owns'
  <1>1. /\ worker' \notin {"dead", "finDying"} /\ WorkerAlive'
        /\ worker' # "fin" => Executing'
        /\ worker # "got"
    BY DEF Running, WorkerAlive, Executing
  <1>2. \A s \in Task : mem'[s].status \in {"running", "pausing"} =>
          active' = s /\ cur' = s /\ Executing'
    BY <1>1 DEF Owns
  <1>3. \A s \in Task : mem'[s].status = "queued" => InLine(s)'
    BY <1>1 DEF Owns, InLine
  <1> QED
    BY <1>1, <1>2, <1>3 DEF Owns

LEMMA WorkerOwns ==
  ASSUME IInv, EndsInv, Owns, faults' = 0, WorkerStep
  PROVE  Owns'
  <1>1. CASE WorkerLoop
    BY <1>1 DEF WorkerLoop, Owns, InLine, WorkerAlive, Executing, run
  <1>2. CASE WorkerGet
    <2>1. queue \in Seq(Task \cup {Pill}) /\ queue # <<>>
      BY <1>2 DEF WorkerGet, IInv, TypeInv, TypeOK
    <2>2. /\ Len(queue) \in Nat /\ 1 \in 1..Len(queue)
          /\ queue' = Tail(queue) /\ Len(queue') = Len(queue) - 1
          /\ \A i \in 1..Len(queue') : queue'[i] = queue[i + 1]
          /\ Head(queue) = queue[1]
      BY <1>2, <2>1 DEF WorkerGet
    <2>3. Head(queue) # Pill
      BY <2>2 DEF Owns
    <2>4. /\ worker = "get" /\ worker' = "got" /\ cur' = queue[1]
          /\ UNCHANGED <<mem, active, stopFlag>>
      BY <1>2, <2>2, <2>3 DEF WorkerGet
    <2>5. \A i \in 1..Len(queue') : queue'[i] # Pill
      <3> SUFFICES ASSUME NEW i \in 1..Len(queue')
                   PROVE  queue'[i] # Pill
        OBVIOUS
      <3>1. i + 1 \in 1..Len(queue) /\ queue'[i] = queue[i + 1]
        BY <2>2
      <3> QED
        BY <3>1 DEF Owns
    <2>6. ASSUME NEW s \in Task, InLine(s)
          PROVE  InLine(s)' \/ cur' = s
      <3>1. PICK i \in 1..Len(queue) : queue[i] = s
        BY <2>6 DEF InLine
      <3>2. CASE i = 1
        BY <2>4, <3>1, <3>2
      <3>3. CASE i # 1
        <4>1. i - 1 \in 1..Len(queue') /\ queue'[i - 1] = queue[(i - 1) + 1]
          BY <2>2, <3>1, <3>3
        <4>2. (i - 1) + 1 = i
          BY <3>1
        <4> QED
          BY <3>1, <4>1, <4>2 DEF InLine
      <3> QED
        BY <3>2, <3>3
    <2> QED
      BY <2>4, <2>5, <2>6 DEF Owns, WorkerAlive, Executing
  <1>3. CASE WorkerSkip
    BY <1>3 DEF WorkerSkip, StillQueued, Owns, InLine, WorkerAlive, Executing
  <1>4. CASE WorkerBegin
    <2> DEFINE rec == [mem[cur] EXCEPT !.status = "running"]
    <2>1. /\ worker = "got" /\ cur \in Task /\ mem[cur].status = "queued"
          /\ active' = cur /\ UNCHANGED <<queue, stopFlag>>
      BY <1>4 DEF WorkerBegin, StillQueued, IInv, TypeInv, WorkerLocals, Busy
    <2>2. cur \in projects
      BY <2>1 DEF IInv, Safe, QueuedIsFresh
    <2>3. PICK ok \in BOOLEAN :
            /\ AppendEvent(cur, rec, ok)
            /\ ok /\ cur \in projects => worker' = "run" /\ cur' = cur
      BY <1>4 DEF WorkerBegin, WriteOutcomes
    <2>4. worker' = "run" /\ cur' = cur
      BY <2>2, <2>3, CalmWrite DEF AppendEvent
    <2>5. rec.status = "running"
      BY <2>1 DEF IInv, TypeInv, TypeOK, Record
    <2>6. mem'[cur] = rec /\ \A s \in Task \ {cur} : mem'[s] = mem[s]
      BY <2>1, <2>3 DEF AppendEvent, IInv, TypeInv, TypeOK
    <2> HIDE DEF rec
    <2>7. \A s \in Task \ {cur} :
            mem'[s].status \notin {"running", "pausing"}
            /\ (mem'[s].status = "queued" => InLine(s)')
      BY <2>1, <2>6 DEF Owns, InLine, Executing
    <2> QED
      BY <2>1, <2>4, <2>5, <2>6, <2>7 DEF Owns, WorkerAlive, Executing
  <1>5. CASE ProviderAnswers \/ ProviderRaises \/ ProviderUnavailable
             \/ FinalAnswer
    <2>1. /\ UNCHANGED <<mem, queue, stopFlag, active, cur>>
          /\ worker \in Running /\ worker' \in Running
      BY <1>5 DEF ProviderAnswers, ProviderRaises, ProviderUnavailable,
                  FinalAnswer, RaiseWith, Running, run
    <2>2. worker' = "except" => outcome' \in {"paused", "failed", "cancelled"}
      BY <1>5 DEF ProviderAnswers, ProviderRaises, ProviderUnavailable,
                  FinalAnswer, RaiseWith, Raised, Owns
    <2> QED
      BY <2>1, <2>2, HoldOwns DEF Running
  <1>6. CASE RoundBegin \/ ToolCalls
    <2>1. /\ UNCHANGED <<queue, stopFlag, active, cur>>
          /\ worker \in Running /\ worker' \in Running
          /\ worker' = "except" => outcome' \in {"paused", "failed", "cancelled"}
      BY <1>6 DEF RoundBegin, ToolCalls, RaiseWith, Raised, Owns, Running
    <2>2. cur \in Task /\ mem[cur] \in Record
      BY <2>1, RunningCur
    <2>3. \/ UNCHANGED mem
          \/ mem' = [mem EXCEPT ![cur] = mem[cur]]
          \/ mem' = [mem EXCEPT ![cur] =
                       [mem[cur] EXCEPT !.ckpt = round + 1,
                          !.high = IF round + 1 > @ THEN round + 1 ELSE @]]
      BY <1>6 DEF RoundBegin, ToolCalls, AppendEvent
    <2>4. /\ \A s \in Task \ {cur} : mem'[s] = mem[s]
          /\ mem'[cur].status = mem[cur].status
      BY <2>2, <2>3 DEF IInv, TypeInv, TypeOK, Record
    <2> QED
      BY <2>1, <2>4, HoldOwns DEF Running
  <1>7. CASE WorkerComplete
    <2> DEFINE rec == [mem[cur] EXCEPT !.status = "completed", !.ckpt = 0]
    <2>1. PICK ok \in BOOLEAN :
            /\ AppendEvent(cur, rec, ok)
            /\ ok => worker' = "fin"
      BY <1>7 DEF WorkerComplete, WriteOutcomes
    <2>2. worker' = "fin"
      BY <2>1, CalmWrite DEF AppendEvent
    <2>3. worker \in Running /\ UNCHANGED <<queue, stopFlag, active, cur>>
      BY <1>7 DEF WorkerComplete, Running
    <2>4. rec.status = "completed" /\ cur \in Task
      BY <2>3, RunningCur DEF Record
    <2>5. mem'[cur] = rec /\ \A s \in Task \ {cur} : mem'[s] = mem[s]
      BY <2>1, <2>4 DEF AppendEvent, IInv, TypeInv, TypeOK
    <2> HIDE DEF rec
    <2> QED
      BY <2>2, <2>3, <2>4, <2>5, HoldOwns
  <1>8. CASE WorkerExcept
    <2>1. /\ worker = "except" /\ worker \in Running
          /\ outcome \in {"paused", "failed", "cancelled"}
          /\ UNCHANGED <<queue, stopFlag, active, cur>>
      BY <1>8 DEF WorkerExcept, Running, Owns, run
    <2>2. cur \in Task /\ mem[cur] \in Record
      BY <2>1, RunningCur
    <2>3. CASE mem[cur].status = "interrupted" /\ worker' = "fin"
               /\ UNCHANGED mem
      BY <2>1, <2>3, HoldOwns
    <2>4. CASE ~(mem[cur].status = "interrupted" /\ worker' = "fin"
                 /\ UNCHANGED mem)
      <3> DEFINE rec == [mem[cur] EXCEPT !.status = StatusAfter]
      <3>1. /\ ~(outcome = "cancelled" /\ mem[cur].status = "interrupted")
            /\ \E ok \in BOOLEAN : /\ AppendEvent(cur, rec, ok)
                                   /\ ok => worker' = "fin"
        BY <1>8, <2>1, <2>4 DEF WorkerExcept, WriteOutcomes
      <3>2. PICK ok \in BOOLEAN : /\ AppendEvent(cur, rec, ok)
                                  /\ ok => worker' = "fin"
        BY <3>1
      <3>3. worker' = "fin"
        BY <3>2, CalmWrite DEF AppendEvent
      <3>4. StatusAfter \in {"paused", "failed", "cancelled"}
        BY <2>1, <3>1 DEF StatusAfter
      <3>5. rec.status = StatusAfter
        BY <2>2 DEF Record
      <3>6. mem'[cur] = rec /\ \A s \in Task \ {cur} : mem'[s] = mem[s]
        BY <2>2, <3>2 DEF AppendEvent, IInv, TypeInv, TypeOK
      <3> HIDE DEF rec
      <3>7. mem'[cur].status \notin {"running", "pausing", "queued"}
        BY <3>4, <3>5, <3>6
      <3> QED
        BY <2>1, <3>3, <3>6, <3>7, HoldOwns
    <2> QED
      BY <2>3, <2>4
  <1>9. CASE WorkerFinally
    BY <1>9 DEF WorkerFinally, Owns, InLine, WorkerAlive, Executing
  <1> QED
    BY <1>1, <1>2, <1>3, <1>4, <1>5, <1>6, <1>7, <1>8, <1>9 DEF WorkerStep

\* A failure does not go away, and a process only comes up from nothing.
LEMMA CalmBefore ==
  ASSUME IInv, [Next]_vars, Calm'
  PROVE  Calm \/ (ProcessStarts /\ faults = 0)
  <1>1. faults \in Nat
    BY BoundsAssumption DEF IInv, TypeInv, TypeOK
  <1>2. faults' = 0 => faults = 0
    <2>1. faults' = faults \/ \E ok \in BOOLEAN : CountFault(ok)
      <3>1. CASE UserStep
        BY <3>1, ZenonT(60)
        DEF UserStep, StartTask, GetTask, PauseTask, ResumeTask, CancelTask,
            RetryOperations, RestartFromCheckpoint, ListTasks, EnqueueNewTask,
            AppendEvent, WriteOutcomes
      <3>2. CASE ProcessStep
        BY <3>2 DEF ProcessStep, StopSignal, StopMark, StopPill, ProcessEnds,
                    ProcessStarts, WriteOutcomes
      <3>3. CASE WorkerStep
        BY <3>3
        DEF WorkerStep, WorkerLoop, WorkerGet, WorkerSkip, WorkerBegin,
            RoundBegin, ProviderAnswers, ProviderRaises, ProviderUnavailable,
            FinalAnswer, ToolCalls, WorkerComplete, WorkerExcept,
            WorkerFinally, AppendEvent, WriteOutcomes
      <3> QED
        BY <3>1, <3>2, <3>3 DEF Next, vars
    <2> QED
      BY <1>1, <2>1 DEF CountFault
  <1>3. app' = "up" => app = "up" \/ ProcessStarts
    BY DEF vars, Next, UserStep, ProcessStep, WorkerStep, StartTask, GetTask,
        PauseTask, ResumeTask, CancelTask, RetryOperations,
        RestartFromCheckpoint, ListTasks, StopSignal, StopMark, StopPill,
        ProcessEnds, ProcessStarts, WorkerLoop, WorkerGet, WorkerSkip,
        WorkerBegin, RoundBegin, ProviderAnswers, ProviderRaises,
        ProviderUnavailable, FinalAnswer, ToolCalls, WorkerComplete,
        WorkerExcept, WorkerFinally, EnqueueNewTask
  <1> QED
    BY <1>2, <1>3 DEF Calm

LEMMA StepOwns == IInv /\ EndsInv /\ OwnInv /\ [Next]_vars => OwnInv'
  <1> SUFFICES ASSUME IInv, EndsInv, OwnInv, [Next]_vars
               PROVE  OwnInv'
    OBVIOUS
  <1>1. DownInv'
    <2>1. CASE UserStep
      BY <2>1
      DEF UserStep, StartTask, GetTask, PauseTask, ResumeTask, CancelTask,
          RetryOperations, RestartFromCheckpoint, ListTasks, EnqueueNewTask,
          DownInv
    <2>2. CASE ProcessStep
      BY <2>2 DEF ProcessStep, StopSignal, StopMark, StopPill, ProcessEnds,
                  ProcessStarts, DownInv
    <2>3. CASE WorkerStep
      <3>1. worker # "none" /\ app' = app
        BY <2>3
        DEF WorkerStep, WorkerLoop, WorkerGet, WorkerSkip, WorkerBegin,
            RoundBegin, ProviderAnswers, ProviderRaises, ProviderUnavailable,
            FinalAnswer, ToolCalls, WorkerComplete, WorkerExcept, WorkerFinally
      <3> QED
        BY <3>1 DEF OwnInv, DownInv
    <2>4. CASE UNCHANGED vars
      BY <2>4 DEF vars, OwnInv, DownInv
    <2> QED
      BY <2>1, <2>2, <2>3, <2>4 DEF Next
  <1>2. ASSUME Calm'
        PROVE  Owns'
    <2>1. CASE ProcessStarts
      <3>1. app = "down" /\ UNCHANGED <<mem, queue, stopFlag, worker>>
        BY <2>1 DEF ProcessStarts
      <3>2. \A t \in Task : mem[t].status = "absent"
        BY <3>1, NoRecordType DEF OwnInv, DownInv
      <3>3. queue = <<>> /\ ~stopFlag /\ worker = "none"
        BY <3>1 DEF OwnInv, DownInv
      <3> QED
        BY <3>1, <3>2, <3>3 DEF Owns
    <2>2. CASE ~ProcessStarts
      <3>1. Owns /\ app = "up" /\ app' = "up" /\ faults' = 0
        BY <1>2, <2>2, CalmBefore DEF OwnInv, Calm
      <3>2. ~ProcessStep
        BY <2>2, <3>1
        DEF ProcessStep, StopSignal, StopMark, StopPill, ProcessEnds
      <3>3. CASE UNCHANGED vars
        BY <3>1, <3>3 DEF vars, Owns, InLine, WorkerAlive, Executing, run
      <3> QED
        BY <3>1, <3>2, <3>3, UserOwns, WorkerOwns DEF Next
    <2> QED
      BY <2>1, <2>2
  <1> QED
    BY <1>1, <1>2 DEF OwnInv

LEMMA OwnInitially == Init => OwnInv
  <1> SUFFICES ASSUME Init PROVE OwnInv
    OBVIOUS
  <1>1. \A t \in Task : mem[t].status = "absent"
    BY NoRecordType DEF Init
  <1>2. app = "up" /\ queue = <<>> /\ ~stopFlag /\ worker = "none"
    BY DEF Init
  <1> QED
    BY <1>1, <1>2 DEF OwnInv, DownInv, Owns

LEMMA OwnInvariant == Spec => []OwnInv
  <1>1. (IInv /\ EndsInv) /\ OwnInv /\ [Next]_vars => OwnInv'
    BY StepOwns
  <1> QED
    BY <1>1, OwnInitially, EndsInvariant, PTL DEF Spec

\* A task shown as running or pausing is the active one, in the hands of a
\* worker that is still executing it, for any number of tasks, attempts and
\* restarts without a failing write.
THEOREM RunningOwned == Spec => []RunningIsOwned
  <1>1. OwnInv => RunningIsOwned
    BY DEF OwnInv, Calm, Owns, RunningIsOwned
  <1> QED
    BY <1>1, OwnInvariant, PTL

\* No queued task is left behind: the worker is alive and the task is in the
\* queue or already taken from it, whatever stale entries the queue has.
THEOREM QueuedReachable == Spec => []QueuedIsReachable
  <1>1. OwnInv => QueuedIsReachable
    BY DEF OwnInv, Calm, Owns, QueuedIsReachable, InLine
  <1> QED
    BY <1>1, OwnInvariant, PTL

-----------------------------------------------------------------------------
(***************************************************************************)
(* Proofs about AgentPatch: a plan of a first attempt is not applied over  *)
(* what the user changed since, for the operations whose version covers    *)
(* what they write, and a patch refers to nothing that is not there.       *)
(*                                                                         *)
(* The invariant ties what an operation saw of the project to the version  *)
(* its task remembers, as long as the task was not resumed or restarted.   *)
(***************************************************************************)
USE IdsAssumption

-----------------------------------------------------------------------------
(* The state *)

Projects == [has : SUBSET Named, text : [Item -> Nat], uses : [Item -> SUBSET Named]]
Spots == Named \cup Whole \cup {Unplaced}
Sights == {Target(p, [kind |-> k, at |-> a]) : p \in Projects, k \in Kind, a \in Spots}
Operations == [kind : Kind, at : Spots, uses : SUBSET Named, seen : Sights]
Tasks == [parent : Nat, project : Projects, version : Projects,
          operations : Seq(Operations), attempt : Nat \ {0}, done : BOOLEAN,
          applied : SUBSET Nat]

\* An operation of a first attempt saw what the version of its task has.
GoodOperation(t, op) ==
    /\ op.at \in Places(op.kind)
    /\ t.attempt = 1 => op.seen = Target(t.version, op)
GoodTask(t) ==
    /\ t \in Tasks
    /\ t.attempt = 1 => t.project = t.version
    /\ \A k \in 1..Len(t.operations) : GoodOperation(t, t.operations[k])

PlanInv ==
    /\ project \in Projects /\ patches \in Nat
    /\ tasks \in Seq(Tasks) /\ \A i \in Ids : GoodTask(tasks[i])

\* A place of an operation is an item, or none.
LEMMA PlacesAreSpots ==
  ASSUME NEW kind \in Kind, NEW at \in Places(kind)
  PROVE  at \in Spots
  BY DEF Places, Kind, Spots, Named, Whole

\* What an operation sees depends on its kind and its place.
LEMMA OperationType ==
  ASSUME NEW p \in Projects, NEW kind \in Kind, NEW at \in Places(kind),
         NEW uses \in SUBSET Named
  PROVE  LET op == Operation(p, kind, at, uses) IN
         /\ op \in Operations /\ op.kind = kind /\ op.at = at /\ op.uses = uses
         /\ op.seen = Target(p, op)
  <1> DEFINE op == Operation(p, kind, at, uses)
  <1> DEFINE a == [kind |-> kind, at |-> at, uses |-> uses]
  <1> DEFINE b == [kind |-> kind, at |-> at]
  <1>1. at \in Spots
    BY PlacesAreSpots
  <1>2. Target(p, a) = Target(p, b)
    BY DEF Target
  <1>3. Target(p, b) \in Sights
    BY <1>1 DEF Sights
  <1>4. op = [kind |-> kind, at |-> at, uses |-> uses, seen |-> Target(p, a)]
    BY DEF Operation
  <1>5. Target(p, op) = Target(p, a)
    BY <1>4 DEF Target
  <1> HIDE DEF a, b
  <1>6. op \in Operations
    BY <1>1, <1>2, <1>3, <1>4 DEF Operations
  <1> QED
    BY <1>4, <1>5, <1>6

\* The scopes of an operation cover what it writes, except for a scene that is
\* named and for the map: equal versions mean equal targets.
LEMMA ScopeCoversTarget ==
  ASSUME NEW p, NEW v, NEW op,
         op.kind \in Kind, op.at \in Places(op.kind), op.kind # "map",
         ~(op.kind = "scene" /\ op.at # Unplaced),
         Version(p, Scope(op)) = Version(v, Scope(op))
  PROVE  Target(p, op) = Target(v, op)
  <1>a. /\ \A x \in Named : x \notin {"create", "character", "scene"} /\ x # Unplaced
        /\ \A x \in Kind : x # Unplaced
    BY DEF Kind
  <1>1. CASE op.kind = "link"
    BY <1>1 DEF Target
  <1>2. CASE op.at = Unplaced /\ op.kind # "link"
    <2>1. op.kind \in {"create", "character", "scene"}
      BY <1>a, <1>2 DEF Places, Kind, Whole, Named
    <2>2. Scope(op) = op.kind
      BY <1>2, <2>1 DEF Scope
    <2>a. op.kind \notin Scene
      BY DEF Named
    <2>3. CASE op.kind = "create"
      BY <1>2, <2>a, <2>2, <2>3 DEF Version, Target
    <2>4. CASE op.kind = "character"
      BY <1>2, <2>a, <2>2, <2>4 DEF Version, Target
    <2>5. CASE op.kind = "scene"
      BY <1>2, <2>a, <2>2, <2>5 DEF Version, Target
    <2> QED
      BY <2>1, <2>3, <2>4, <2>5
  <1>3. CASE op.at # Unplaced /\ op.kind # "link"
    <2>1. op.at \in (Fragment \cup Character \cup Asset) \cup {"meta", "rest"}
      BY <1>3 DEF Places, Kind, Whole
    <2>2. op.at \notin {"create", "character", "scene"} /\ op.at \notin Scene
      <3>1. CASE op.at \in Fragment \cup Character \cup Asset
        BY <1>a, <3>1 DEF Named
      <3>2. CASE op.at \in {"meta", "rest"}
        BY <3>2 DEF Named, Kind, Whole
      <3> QED
        BY <2>1, <3>1, <3>2
    <2>3. Scope(op) = op.at
      BY <1>3 DEF Scope
    <2>4. \A q : Version(q, op.at) = Content(q, op.at)
      BY <2>2 DEF Version
    <2>5. \A q : Target(q, op) = Content(q, op.at)
      BY <1>3 DEF Target
    <2> QED
      BY <2>3, <2>4, <2>5
  <1> QED
    BY <1>1, <1>2, <1>3

-----------------------------------------------------------------------------
(* Tasks *)

\* A task that is made begins a first attempt on the project as it is.
LEMMA FirstGood ==
  ASSUME PlanInv, NEW parent \in Nat
  PROVE  GoodTask(TaskRecord(parent, <<>>, 1))
  <1>1. <<>> \in Seq(Operations) /\ Len(<<>>) = 0
    OBVIOUS
  <1> QED
    BY <1>1 DEF TaskRecord, Tasks, PlanInv, GoodTask

\* Or a later one, with operations of another task.
LEMMA LaterGood ==
  ASSUME PlanInv, NEW parent \in Nat, NEW ops \in Seq(Operations),
         NEW attempt \in Nat \ {0}, attempt # 1,
         \A k \in 1..Len(ops) : ops[k].at \in Places(ops[k].kind)
  PROVE  GoodTask(TaskRecord(parent, ops, attempt))
  BY DEF TaskRecord, Tasks, PlanInv, GoodTask, GoodOperation

\* A task keeps good when an operation is put behind the others.
LEMMA AppendGood ==
  ASSUME NEW t, GoodTask(t), NEW op \in Operations, GoodOperation(t, op),
         NEW done \in BOOLEAN,
         NEW u, u = [t EXCEPT !.done = done, !.operations = Append(t.operations, op)]
  PROVE  GoodTask(u) /\ u.applied = t.applied
  <1> DEFINE ops == Append(t.operations, op)
  <1>1. t \in Tasks /\ t.operations \in Seq(Operations)
    BY DEF GoodTask, Tasks
  <1>2. /\ ops \in Seq(Operations)
        /\ \A k \in 1..Len(ops) : ops[k] = op \/ \E j \in 1..Len(t.operations) :
              ops[k] = t.operations[j]
    BY <1>1
  <1> HIDE DEF ops
  <1>3. /\ u \in Tasks /\ u.operations = ops /\ u.attempt = t.attempt
        /\ u.project = t.project /\ u.version = t.version /\ u.applied = t.applied
    BY <1>1, <1>2 DEF Tasks, ops
  <1>4. \A k \in 1..Len(ops) : GoodOperation(t, ops[k])
    BY <1>2 DEF GoodTask
  <1>5. \A k \in 1..Len(ops) : GoodOperation(u, ops[k])
    BY <1>3, <1>4 DEF GoodOperation
  <1> QED
    BY <1>3, <1>5 DEF GoodTask

\* What a tool finds in the project of the task is a good operation.
LEMMA ProposedGood ==
  ASSUME NEW t, GoodTask(t), NEW kind \in Kind, NEW at \in Places(kind),
         NEW uses \in SUBSET Named
  PROVE  /\ Operation(t.project, kind, at, uses) \in Operations
         /\ GoodOperation(t, Operation(t.project, kind, at, uses))
  <1>1. t.project \in Projects
    BY DEF GoodTask, Tasks
  <1> DEFINE op == Operation(t.project, kind, at, uses)
  <1>2. op \in Operations /\ op.kind = kind /\ op.at = at
        /\ op.seen = Target(t.project, op)
    BY <1>1, OperationType
  <1> HIDE DEF op
  <1>3. GoodOperation(t, op)
    BY <1>2 DEF GoodOperation, GoodTask
  <1> QED
    BY <1>2, <1>3 DEF op

\* A task that another attempt continues is good whatever its project.
LEMMA ResumedGood ==
  ASSUME NEW t, GoodTask(t), t.attempt = 1, NEW p \in Projects,
         NEW u, u = [t EXCEPT !.project = p, !.attempt = t.attempt + 1]
  PROVE  GoodTask(u) /\ u.applied = t.applied
  <1>1. t \in Tasks
    BY DEF GoodTask
  <1> DEFINE n == t.attempt + 1
  <1>a. n \in Nat \ {0} /\ n # 1 /\ u = [t EXCEPT !.project = p, !.attempt = n]
    OBVIOUS
  <1> HIDE DEF n
  <1>2. /\ u \in Tasks /\ u.attempt # 1 /\ u.operations = t.operations
        /\ u.applied = t.applied
    BY <1>1, <1>a DEF Tasks
  <1> QED
    BY <1>2 DEF GoodTask, GoodOperation

-----------------------------------------------------------------------------
(* The steps *)

\* The tasks there were, with what was applied of them, are still there.
Keeps ==
    /\ tasks' \in Seq(Tasks)
    /\ \A i \in 1..Len(tasks') : GoodTask(tasks'[i])
    /\ \A i \in Ids : tasks'[i].applied = tasks[i].applied

LEMMA EnqueueKeeps ==
  ASSUME PlanInv, NEW t, GoodTask(t), Enqueue(t)
  PROVE  Keeps /\ UNCHANGED <<project, patches>>
  <1>1. /\ tasks' = Append(tasks, t) /\ UNCHANGED <<project, patches>>
        /\ t \in Tasks /\ tasks \in Seq(Tasks)
        /\ \A i \in 1..Len(tasks) : GoodTask(tasks[i])
    BY DEF Enqueue, GoodTask, PlanInv, Ids
  <1>2. /\ tasks' \in Seq(Tasks) /\ Len(tasks') = Len(tasks) + 1
        /\ \A i \in 1..Len(tasks) : tasks'[i] = tasks[i]
        /\ tasks'[Len(tasks) + 1] = t
    BY <1>1, AppendProperties
  <1>3. \A i \in 1..Len(tasks') : i = Len(tasks) + 1 \/ i \in 1..Len(tasks)
    BY <1>1, <1>2
  <1> QED
    BY <1>1, <1>2, <1>3 DEF Keeps, Ids

LEMMA ChangeKeeps ==
  ASSUME PlanInv, NEW i \in Ids, NEW t, GoodTask(t), t.applied = tasks[i].applied,
         tasks' = [tasks EXCEPT ![i] = t]
  PROVE  Keeps
  <1>1. /\ t \in Tasks /\ tasks \in Seq(Tasks) /\ i \in 1..Len(tasks)
        /\ \A j \in 1..Len(tasks) : GoodTask(tasks[j])
    BY DEF GoodTask, PlanInv, Ids
  <1>2. /\ tasks' \in Seq(Tasks) /\ Len(tasks') = Len(tasks)
        /\ \A j \in 1..Len(tasks) : tasks'[j] = IF j = i THEN t ELSE tasks[j]
    BY <1>1
  <1> QED
    BY <1>1, <1>2 DEF Keeps, Ids

\* An operation refers to what has a name.
LEMMA UsesAreNamed ==
  ASSUME NEW kind, NEW uses \in Uses(kind)
  PROVE  uses \in SUBSET Named
  <1>1. Referable(kind) \subseteq Named
    BY DEF Referable, Named
  <1> QED
    BY <1>1 DEF Uses

\* A tool puts an operation behind those of its task, and the answer of the
\* model may put one more.
LEMMA ProposeKeeps ==
  ASSUME PlanInv, NEW i \in Ids, NEW kinds, kinds \subseteq Kind, Propose(i, kinds)
  PROVE  Keeps /\ UNCHANGED <<project, patches>>
  <1>1. PICK kind \in kinds : \E at \in Places(kind), uses \in Uses(kind) :
          /\ ~tasks[i].done
          /\ IsKnown(tasks[i].project, Operation(tasks[i].project, kind, at, uses))
          /\ Plan(i, Operation(tasks[i].project, kind, at, uses))
          /\ UNCHANGED <<project, patches>>
    BY DEF Propose
  <1>2. PICK at \in Places(kind), uses \in Uses(kind) :
          /\ ~tasks[i].done
          /\ Plan(i, Operation(tasks[i].project, kind, at, uses))
          /\ UNCHANGED <<project, patches>>
    BY <1>1
  <1> DEFINE t == tasks[i]
  <1> DEFINE op == Operation(t.project, kind, at, uses)
  <1> DEFINE u == [t EXCEPT !.done = FALSE, !.operations = Append(t.operations, op)]
  <1>3. GoodTask(t) /\ t \in Tasks /\ tasks \in Seq(Tasks) /\ i \in 1..Len(tasks)
    BY DEF PlanInv, GoodTask, Ids
  <1>4. uses \in SUBSET Named
    BY UsesAreNamed
  <1>5. op \in Operations /\ GoodOperation(t, op)
    BY <1>3, <1>4, ProposedGood
  <1>6. GoodTask(u) /\ u.applied = t.applied
    <2> HIDE DEF t, op
    <2>1. FALSE \in BOOLEAN /\ GoodTask(t) /\ op \in Operations
          /\ GoodOperation(t, op)
      BY <1>3, <1>5
    <2> QED
      BY <2>1, AppendGood
  <1>7. tasks' = [tasks EXCEPT ![i] = u]
    <2>1. u = [t EXCEPT !.operations = Append(t.operations, op)]
      <3>1. t.done = FALSE
        BY <1>2, <1>3 DEF Tasks
      <3> QED
        BY <1>3, <3>1 DEF Tasks
    <2>2. tasks' = [tasks EXCEPT ![i].operations = Append(@, op)]
      BY <1>2 DEF Plan
    <2> HIDE DEF op
    <2> QED
      BY <1>3, <2>1, <2>2
  <1> HIDE DEF t, u
  <1> QED
    BY <1>2, <1>6, <1>7, ChangeKeeps DEF t

LEMMA FinishKeeps ==
  ASSUME PlanInv, Finish
  PROVE  Keeps /\ UNCHANGED <<project, patches>>
  <1>1. PICK i \in Ids :
          /\ ~tasks[i].done
          /\ \/ tasks' = [tasks EXCEPT ![i].done = TRUE]
             \/ \E kind \in Written : \E at \in Places(kind), uses \in Uses(kind) :
                  tasks' = [tasks EXCEPT ![i].done = TRUE,
                              ![i].operations = Append(@,
                                Operation(tasks[i].project, kind, at, uses))]
    BY DEF Finish
  <1>2. UNCHANGED <<project, patches>>
    BY DEF Finish
  <1> DEFINE t == tasks[i]
  <1>3. GoodTask(t) /\ t \in Tasks /\ tasks \in Seq(Tasks) /\ i \in 1..Len(tasks)
    BY DEF PlanInv, GoodTask, Ids
  <1>4. CASE tasks' = [tasks EXCEPT ![i].done = TRUE]
    <2> DEFINE u == [t EXCEPT !.done = TRUE]
    <2>1. /\ u \in Tasks /\ u.operations = t.operations /\ u.attempt = t.attempt
          /\ u.project = t.project /\ u.version = t.version /\ u.applied = t.applied
      BY <1>3 DEF Tasks
    <2>2. GoodTask(u)
      BY <1>3, <2>1 DEF GoodTask, GoodOperation
    <2>3. tasks' = [tasks EXCEPT ![i] = u]
      BY <1>3, <1>4
    <2> HIDE DEF t, u
    <2> QED
      BY <1>2, <2>1, <2>2, <2>3, ChangeKeeps DEF t
  <1>5. CASE \E kind \in Written : \E at \in Places(kind), uses \in Uses(kind) :
               tasks' = [tasks EXCEPT ![i].done = TRUE,
                           ![i].operations = Append(@,
                             Operation(tasks[i].project, kind, at, uses))]
    <2>1. PICK kind \in Written : \E at \in Places(kind), uses \in Uses(kind) :
               tasks' = [tasks EXCEPT ![i].done = TRUE,
                           ![i].operations = Append(@,
                             Operation(tasks[i].project, kind, at, uses))]
      BY <1>5
    <2>2. PICK at \in Places(kind), uses \in Uses(kind) :
               tasks' = [tasks EXCEPT ![i].done = TRUE,
                           ![i].operations = Append(@,
                             Operation(tasks[i].project, kind, at, uses))]
      BY <2>1
    <2> DEFINE op == Operation(t.project, kind, at, uses)
    <2> DEFINE u == [t EXCEPT !.done = TRUE, !.operations = Append(t.operations, op)]
    <2>3. uses \in SUBSET Named /\ kind \in Kind
      BY UsesAreNamed DEF Written
    <2>4. op \in Operations /\ GoodOperation(t, op)
      BY <1>3, <2>3, ProposedGood
    <2>5. GoodTask(u) /\ u.applied = t.applied
      <3> HIDE DEF t, op
      <3>1. TRUE \in BOOLEAN /\ GoodTask(t) /\ op \in Operations
            /\ GoodOperation(t, op)
        BY <1>3, <2>4
      <3> QED
        BY <3>1, AppendGood
    <2>6. tasks' = [tasks EXCEPT ![i] = u]
      <3>1. tasks' = [tasks EXCEPT ![i].done = TRUE,
                                   ![i].operations = Append(@, op)]
        BY <2>2
      <3> HIDE DEF op
      <3> QED
        BY <1>3, <3>1
    <2> HIDE DEF t, u
    <2> QED
      BY <1>2, <2>5, <2>6, ChangeKeeps DEF t
  <1> QED
    BY <1>1, <1>4, <1>5

\* Every step but an application leaves what was applied of each task.
LEMMA QuietSteps ==
  ASSUME PlanInv, [PlansNext]_plans, ~Apply
  PROVE  Keeps /\ project' \in Projects /\ patches' \in Nat
  <1>a. /\ project \in Projects /\ patches \in Nat /\ tasks \in Seq(Tasks)
        /\ \A i \in Ids : GoodTask(tasks[i]) /\ tasks[i] \in Tasks
    BY DEF PlanInv, GoodTask
  <1>b. UNCHANGED tasks => Keeps
    BY <1>a DEF Keeps, Ids
  <1>1. CASE UNCHANGED plans
    BY <1>1, <1>a, <1>b DEF plans
  <1>2. CASE Change \/ Add \/ Remove
    <2>1. UNCHANGED <<tasks, patches>>
      BY <1>2 DEF Change, Add, Remove, Edited
    <2>2. CASE Change
      <3>1. PICK x \in project.has \cup Whole, n \in {0, 1} :
              project' = [project EXCEPT !.text[x] = n]
        BY <2>2 DEF Change, Edited
      <3> DEFINE text == [project.text EXCEPT ![x] = n]
      <3>2. text \in [Item -> Nat]
        BY <1>a DEF Projects, Item
      <3>3. project' = [project EXCEPT !.text = text]
        BY <1>a, <3>1 DEF Projects
      <3> HIDE DEF text
      <3> QED
        BY <1>a, <1>b, <2>1, <3>2, <3>3 DEF Projects
    <2>3. CASE Add
      <3>1. PICK x \in Named : project' = [project EXCEPT !.has = @ \cup {x}]
        BY <2>3 DEF Add, Edited
      <3> QED
        BY <1>a, <1>b, <2>1, <3>1 DEF Projects
    <2>4. CASE Remove
      <3>1. PICK x \in project.has : project' =
              [project EXCEPT !.has = @ \ {x}, !.text[x] = 0, !.uses[x] = {}]
        BY <2>4 DEF Remove, Edited
      <3> DEFINE text == [project.text EXCEPT ![x] = 0]
      <3> DEFINE uses == [project.uses EXCEPT ![x] = {}]
      <3> DEFINE has == project.has \ {x}
      <3>2. text \in [Item -> Nat] /\ uses \in [Item -> SUBSET Named]
            /\ has \in SUBSET Named
        BY <1>a DEF Projects, Item
      <3>3. project' = [project EXCEPT !.has = has, !.text = text, !.uses = uses]
        BY <1>a, <3>1 DEF Projects
      <3> HIDE DEF text, uses, has
      <3> QED
        BY <1>a, <1>b, <2>1, <3>2, <3>3 DEF Projects
    <2> QED
      BY <1>2, <2>2, <2>3, <2>4
  <1>3. CASE Start \/ Replan
    <2>1. \A parent \in Nat : GoodTask(TaskRecord(parent, <<>>, 1))
      BY FirstGood
    <2>2. \E parent \in Nat : Enqueue(TaskRecord(parent, <<>>, 1))
      BY <1>3, <1>a DEF Start, Replan, Retry, Rebase, Ids
    <2> QED
      BY <1>a, <2>1, <2>2, EnqueueKeeps
  <1>4. CASE Restart
    <2>1. PICK i \in Ids : \E k \in 1..Len(tasks[i].operations) :
            Enqueue(TaskRecord(i, SubSeq(tasks[i].operations, 1, k),
                               tasks[i].attempt + 1))
      BY <1>4 DEF Restart
    <2>2. PICK k \in 1..Len(tasks[i].operations) :
            Enqueue(TaskRecord(i, SubSeq(tasks[i].operations, 1, k),
                               tasks[i].attempt + 1))
      BY <2>1
    <2> DEFINE ops == SubSeq(tasks[i].operations, 1, k)
    <2> DEFINE attempt == tasks[i].attempt + 1
    <2>3. /\ i \in Nat /\ attempt \in Nat \ {0} /\ attempt # 1
          /\ tasks[i].operations \in Seq(Operations)
      BY <1>a, SMTT(30) DEF Tasks, Ids
    <2>4. ops \in Seq(Operations) /\ Len(ops) = k
          /\ \A j \in 1..k : ops[j] = tasks[i].operations[j]
                              /\ j \in 1..Len(tasks[i].operations)
      BY <2>3
    <2>5. \A j \in 1..Len(ops) : ops[j].at \in Places(ops[j].kind)
      BY <1>a, <2>4 DEF GoodTask, GoodOperation
    <2> HIDE DEF ops, attempt
    <2>6. GoodTask(TaskRecord(i, ops, attempt))
      BY <2>3, <2>4, <2>5, LaterGood
    <2> QED
      BY <1>a, <2>2, <2>6, EnqueueKeeps DEF ops, attempt
  <1>5. CASE Resume
    <2>1. PICK i \in Ids : /\ tasks[i].attempt = 1
                           /\ tasks' = [tasks EXCEPT ![i].project = project,
                                                     ![i].attempt = @ + 1]
      BY <1>5 DEF Resume
    <2>2. UNCHANGED <<project, patches>>
      BY <1>5 DEF Resume
    <2> DEFINE t == tasks[i]
    <2> DEFINE u == [t EXCEPT !.project = project, !.attempt = t.attempt + 1]
    <2>3. GoodTask(u) /\ u.applied = t.applied
      BY <1>a, <2>1, ResumedGood
    <2>4. tasks' = [tasks EXCEPT ![i] = u]
      BY <1>a, <2>1 DEF Ids
    <2> HIDE DEF t, u
    <2> QED
      BY <1>a, <2>2, <2>3, <2>4, ChangeKeeps DEF t
  <1>6. CASE \/ ProposeScript \/ ProposeCreate \/ ProposeCharacter \/ ProposeAsset
             \/ ProposeScene \/ ProposeMap \/ ProposeMeta \/ ProposeRest
    <2>1. \E i \in Ids : \E kinds \in SUBSET Kind : Propose(i, kinds)
      BY <1>6
      DEF ProposeScript, ProposeCreate, ProposeCharacter, ProposeAsset,
          ProposeScene, ProposeMap, ProposeMeta, ProposeRest, Kind, Whole
    <2> QED
      BY <1>a, <2>1, ProposeKeeps
  <1>7. CASE Finish
    BY <1>7, <1>a, FinishKeeps
  <1> QED
    BY <1>1, <1>2, <1>3, <1>4, <1>5, <1>6, <1>7 DEF PlansNext

\* What an application does, step by step.
LEMMA ApplyIs ==
  ASSUME PlanInv, Apply
  PROVE  \E i \in Ids : \E indexes \in SUBSET (1..Len(tasks[i].operations)) :
           LET ops == {tasks[i].operations[k] : k \in indexes} IN
           /\ \A k \in indexes : /\ Unchanged(tasks[i], tasks[i].operations[k])
                                 /\ Valid(tasks[i], tasks[i].operations[k])
           /\ \E new \in New(ops) : project' = Patched(project, ops, new)
           /\ tasks' = [tasks EXCEPT ![i].applied = @ \cup indexes]
           /\ patches' = patches + 1
  <1>1. PICK i \in Ids : \E indexes \in Indexes(tasks[i]) :
          LET t == tasks[i]
              ops == {t.operations[k] : k \in indexes}
          IN /\ \A op \in ops : Unchanged(t, op) /\ Valid(t, op)
             /\ \E new \in New(ops) : project' = Patched(project, ops, new)
             /\ tasks' = [tasks EXCEPT ![i].applied = @ \cup indexes]
             /\ patches' = patches + 1
    BY DEF Apply
  <1>2. PICK indexes \in Indexes(tasks[i]) :
          LET t == tasks[i]
              ops == {t.operations[k] : k \in indexes}
          IN /\ \A op \in ops : Unchanged(t, op) /\ Valid(t, op)
             /\ \E new \in New(ops) : project' = Patched(project, ops, new)
             /\ tasks' = [tasks EXCEPT ![i].applied = @ \cup indexes]
             /\ patches' = patches + 1
    BY <1>1
  <1>3. indexes \in SUBSET (1..Len(tasks[i].operations))
    BY DEF Indexes
  <1>4. \A k \in indexes : /\ Unchanged(tasks[i], tasks[i].operations[k])
                           /\ Valid(tasks[i], tasks[i].operations[k])
    BY <1>2
  <1> QED
    BY <1>2, <1>3, <1>4

\* A patch keeps the project one, and gives each place references of its own.
LEMMA PatchedType ==
  ASSUME NEW p \in Projects, NEW ops \in SUBSET Operations, NEW new,
         patches \in Nat
  PROVE  /\ Patched(p, ops, new) \in Projects
         /\ p.has \subseteq Patched(p, ops, new).has
         /\ \A x \in Item : Patched(p, ops, new).uses[x] \ p.uses[x]
                              \subseteq UNION {op.uses : op \in ops}
  <1> DEFINE places == {Place(op, new) : op \in ops}
  <1> DEFINE has == p.has \cup (places \cap Named)
  <1> DEFINE text == [x \in Item |-> IF x \in places THEN patches + 2 ELSE p.text[x]]
  <1> DEFINE added(x) == UNION {op.uses : op \in {o \in ops : Place(o, new) = x}}
  <1> DEFINE uses == [x \in Item |-> p.uses[x] \cup added(x)]
  <1>1. Patched(p, ops, new) = [has |-> has, text |-> text, uses |-> uses]
    BY DEF Patched
  <1>2. has \in SUBSET Named /\ p.has \subseteq has
    BY DEF Projects
  <1>3. text \in [Item -> Nat]
    BY DEF Projects
  <1>4. \A x : added(x) \subseteq UNION {op.uses : op \in ops}
    OBVIOUS
  <1>5. \A op \in ops : op.uses \subseteq Named
    BY DEF Operations
  <1>6. \A x : added(x) \subseteq Named
    BY <1>5
  <1> HIDE DEF added
  <1>7. uses \in [Item -> SUBSET Named]
    BY <1>6 DEF Projects
  <1>8. \A x \in Item : uses[x] \ p.uses[x] \subseteq UNION {op.uses : op \in ops}
    BY <1>4
  <1> HIDE DEF has, text, uses, places
  <1> QED
    BY <1>1, <1>2, <1>3, <1>7, <1>8 DEF Projects

LEMMA ApplyKeeps ==
  ASSUME PlanInv, Apply
  PROVE  PlanInv'
  <1>1. PICK i \in Ids : \E indexes \in SUBSET (1..Len(tasks[i].operations)) :
           LET ops == {tasks[i].operations[k] : k \in indexes} IN
           /\ \E new \in New(ops) : project' = Patched(project, ops, new)
           /\ tasks' = [tasks EXCEPT ![i].applied = @ \cup indexes]
           /\ patches' = patches + 1
    BY ApplyIs
  <1>2. PICK indexes \in SUBSET (1..Len(tasks[i].operations)) :
           LET ops == {tasks[i].operations[k] : k \in indexes} IN
           /\ \E new \in New(ops) : project' = Patched(project, ops, new)
           /\ tasks' = [tasks EXCEPT ![i].applied = @ \cup indexes]
           /\ patches' = patches + 1
    BY <1>1
  <1> DEFINE t == tasks[i]
  <1> DEFINE ops == {t.operations[k] : k \in indexes}
  <1> DEFINE u == [t EXCEPT !.applied = t.applied \cup indexes]
  <1>3. /\ GoodTask(t) /\ t \in Tasks /\ tasks \in Seq(Tasks) /\ i \in 1..Len(tasks)
        /\ patches \in Nat /\ project \in Projects
        /\ \A j \in 1..Len(tasks) : GoodTask(tasks[j])
    BY DEF PlanInv, GoodTask, Ids
  <1>4. ops \in SUBSET Operations
    BY <1>3 DEF Tasks
  <1>5. project' \in Projects /\ patches' \in Nat
    <2>1. PICK new \in New(ops) : project' = Patched(project, ops, new)
      BY <1>2
    <2>2. patches' \in Nat
      BY <1>2, <1>3
    <2> HIDE DEF ops
    <2>3. Patched(project, ops, new) \in Projects
      BY <1>3, <1>4, PatchedType
    <2> QED
      BY <2>1, <2>2, <2>3
  <1>6. t.applied \cup indexes \in SUBSET Nat
    <2>1. t.applied \in SUBSET Nat
      BY <1>3 DEF Tasks
    <2>2. indexes \subseteq Nat
      OBVIOUS
    <2> QED
      BY <2>1, <2>2
  <1>7. /\ u \in Tasks /\ u.operations = t.operations /\ u.attempt = t.attempt
        /\ u.project = t.project /\ u.version = t.version
    BY <1>3, <1>6 DEF Tasks
  <1>8. GoodTask(u)
    BY <1>3, <1>7 DEF GoodTask, GoodOperation
  <1>9. tasks' = [tasks EXCEPT ![i] = u]
    BY <1>2, <1>3
  <1> HIDE DEF u
  <1>10. /\ tasks' \in Seq(Tasks) /\ Len(tasks') = Len(tasks)
         /\ \A j \in 1..Len(tasks) : tasks'[j] = IF j = i THEN u ELSE tasks[j]
    BY <1>3, <1>7, <1>9
  <1> QED
    BY <1>3, <1>5, <1>8, <1>10 DEF PlanInv, Ids

\* Only an application applies anything, and what it applies was checked.
LEMMA AppliedIs ==
  ASSUME PlanInv, [PlansNext]_plans, NEW i \in Ids, NEW op \in Applied(i)
  PROVE  /\ Apply /\ op \in Operations
         /\ Unchanged(tasks[i], op) /\ Valid(tasks[i], op)
         /\ GoodOperation(tasks[i], op)
  <1>1. PICK k \in tasks'[i].applied \ tasks[i].applied : op = tasks[i].operations[k]
    BY DEF Applied
  <1>2. Apply
    <2>1. CASE ~Apply
      BY <1>1, <2>1, QuietSteps DEF Keeps
    <2> QED
      BY <2>1
  <1>3. PICK j \in Ids : \E indexes \in SUBSET (1..Len(tasks[j].operations)) :
           /\ \A n \in indexes : /\ Unchanged(tasks[j], tasks[j].operations[n])
                                 /\ Valid(tasks[j], tasks[j].operations[n])
           /\ tasks' = [tasks EXCEPT ![j].applied = @ \cup indexes]
    BY <1>2, ApplyIs
  <1>4. PICK indexes \in SUBSET (1..Len(tasks[j].operations)) :
           /\ \A n \in indexes : /\ Unchanged(tasks[j], tasks[j].operations[n])
                                 /\ Valid(tasks[j], tasks[j].operations[n])
           /\ tasks' = [tasks EXCEPT ![j].applied = @ \cup indexes]
    BY <1>3
  <1>5. /\ tasks \in Seq(Tasks) /\ i \in 1..Len(tasks) /\ j \in 1..Len(tasks)
        /\ tasks[i] \in Tasks /\ tasks[j] \in Tasks /\ GoodTask(tasks[i])
    BY DEF PlanInv, GoodTask, Ids
  <1>6. i = j /\ k \in indexes
    <2>1. i # j => tasks'[i] = tasks[i]
      BY <1>4, <1>5
    <2>2. i = j => tasks'[i].applied = tasks[i].applied \cup indexes
      BY <1>4, <1>5 DEF Tasks
    <2> QED
      BY <1>1, <2>1, <2>2
  <1>7. k \in 1..Len(tasks[i].operations) /\ tasks[i].operations \in Seq(Operations)
    BY <1>4, <1>5, <1>6 DEF Tasks
  <1> QED
    BY <1>1, <1>2, <1>4, <1>5, <1>6, <1>7 DEF GoodTask

LEMMA EditsKept ==
  ASSUME PlanInv, [PlansNext]_plans
  PROVE  KeepsMostEdits
  <1> SUFFICES ASSUME NEW i \in Ids, NEW op \in Applied(i),
                      ~(tasks[i].attempt > 1), op.kind # "map",
                      ~(op.kind = "scene" /\ op.at # Unplaced)
               PROVE  Target(project, op) = op.seen
    BY DEF KeepsMostEdits
  <1>1. /\ op \in Operations /\ Unchanged(tasks[i], op)
        /\ GoodOperation(tasks[i], op)
    BY AppliedIs
  <1>2. tasks[i].attempt = 1
    <2>1. tasks[i].attempt \in Nat \ {0}
      BY DEF PlanInv, GoodTask, Tasks
    <2> QED
      BY <2>1
  <1>3. /\ op.kind \in Kind /\ op.at \in Places(op.kind)
        /\ op.seen = Target(tasks[i].version, op)
    BY <1>1, <1>2 DEF GoodOperation, Operations
  <1>4. Version(project, Scope(op)) = Version(tasks[i].version, Scope(op))
    BY <1>1 DEF Unchanged, Expected
  <1> QED
    BY <1>3, <1>4, ScopeCoversTarget

-----------------------------------------------------------------------------
(* Theorems *)

LEMMA PlanCorrect == PlansSpec => []PlanInv
  <1>1. PlansInit => PlanInv
    <2> SUFFICES ASSUME PlansInit PROVE PlanInv
      OBVIOUS
    <2>1. project \in Projects /\ patches = 0 /\ tasks = <<TaskRecord(0, <<>>, 1)>>
      <3> DEFINE missing == CHOOSE f \in Fragment : TRUE
      <3>1. project = [has |-> Named \ {missing}, text |-> [x \in Item |-> 0],
                       uses |-> [x \in Item |-> {}]]
        BY DEF PlansInit
      <3> HIDE DEF missing
      <3> QED
        BY <3>1 DEF PlansInit, Projects
    <2>2. /\ TaskRecord(0, <<>>, 1) \in Tasks /\ TaskRecord(0, <<>>, 1).operations = <<>>
          /\ TaskRecord(0, <<>>, 1).project = TaskRecord(0, <<>>, 1).version
      BY <2>1 DEF TaskRecord, Tasks
    <2>3. GoodTask(TaskRecord(0, <<>>, 1))
      BY <2>2 DEF GoodTask
    <2> QED
      BY <2>1, <2>2, <2>3 DEF PlanInv, Ids
  <1>2. PlanInv /\ [PlansNext]_plans => PlanInv'
    BY ApplyKeeps, QuietSteps DEF PlanInv, Keeps, Ids
  <1> QED
    BY <1>1, <1>2, PTL DEF PlansSpec

\* A first attempt's operation is applied only to what it was made for: what
\* it writes over is still as it saw it, whatever the user, other plans and
\* other tasks did meanwhile; but for a scene that is named and for the map.
THEOREM FirstPatchesKeepEdits ==
  PlansSpec => FirstPatchKeepsEdits
  <1>1. PlanInv /\ [PlansNext]_plans => [KeepsMostEdits]_plans
    BY EditsKept
  <1> QED
    BY <1>1, PlanCorrect, PTL DEF PlansSpec, FirstPatchKeepsEdits

=============================================================================
