------------------------- MODULE WorkflowTypeProofs -------------------------
(***************************************************************************)
(* Type correctness of WorkflowSystem, for every graph, every number of    *)
(* callers, replicas and worker slots, and every bound on faults: one      *)
(* lemma per process, one step per action.                                 *)
(***************************************************************************)
EXTENDS WorkflowSystem, TLAPS

-----------------------------------------------------------------------------
(***************************************************************************)
(* Rows, entries and jobs                                                  *)
(***************************************************************************)
\* The two rows that are inserted are rows.
LEMMA InsertedRows ==
  NoAttempt \in AttemptRow /\ InitialAttempt \in AttemptRow
    /\ ScheduledAttempt \in AttemptRow
BY Zenon
   DEF NoAttempt, InitialAttempt, ScheduledAttempt, AttemptRow, AttemptStatus,
       Lease

\* Every repository update maps a row to a row.
LEMMA UpdatedRows ==
  ASSUME NEW a \in AttemptRow, NEW run \in Nat, NEW ok \in BOOLEAN
  PROVE  /\ RecordSuccess(a, run) \in AttemptRow
         /\ RecordFailure(a, run) \in AttemptRow
         /\ MarkRetryPublished(a) \in AttemptRow
         /\ RecordResult(a, run, ok) \in AttemptRow
         /\ MarkCompleted(a) \in AttemptRow
         /\ RenewClaim(a) \in AttemptRow
         /\ [a EXCEPT !.runs = @ + 1] \in AttemptRow
         /\ [a EXCEPT !.lease = "expired"] \in AttemptRow
<1>1. RecordSuccess(a, run) \in AttemptRow
  BY Zenon DEF RecordSuccess, AttemptRow, AttemptStatus
<1>2. RecordFailure(a, run) \in AttemptRow
  BY Zenon DEF RecordFailure, AttemptRow, AttemptStatus
<1>3. MarkRetryPublished(a) \in AttemptRow
  BY Zenon DEF MarkRetryPublished, AttemptRow, AttemptStatus
<1>4. RecordResult(a, run, ok) \in AttemptRow
  BY Zenon DEF RecordResult, AttemptRow, AttemptStatus
<1>5. MarkCompleted(a) \in AttemptRow
  BY Zenon DEF MarkCompleted, AttemptRow, AttemptStatus, Lease
<1>6. RenewClaim(a) \in AttemptRow
  BY Zenon DEF RenewClaim, AttemptRow, Lease
<1>7. [a EXCEPT !.runs = @ + 1] \in AttemptRow
  BY DEF AttemptRow
<1>8. [a EXCEPT !.lease = "expired"] \in AttemptRow
  BY Zenon DEF AttemptRow, Lease
<1> QED
  BY <1>1, <1>2, <1>3, <1>4, <1>5, <1>6, <1>7, <1>8

\* A claim by a worker is a row.
LEMMA ClaimedRow ==
  ASSUME NEW a \in AttemptRow, NEW w \in Worker
  PROVE  ClaimAttempt(a, w) \in AttemptRow
BY Zenon DEF ClaimAttempt, AttemptRow, AttemptStatus, Lease

\* Writing a row into the table keeps its type.
LEMMA StoredRow ==
  ASSUME attempt \in [Node -> [AttemptNumber -> AttemptRow]],
         NEW n \in Node, NEW k \in AttemptNumber, NEW row \in AttemptRow
  PROVE  [attempt EXCEPT ![n][k] = row] \in [Node -> [AttemptNumber -> AttemptRow]]
OBVIOUS

\* Failing pending nodes keeps the node statuses typed.
LEMMA FailPendingType ==
  ASSUME NEW st \in [Node -> NodeStatus], NEW S
  PROVE  FailPending(st, S) \in [Node -> NodeStatus]
BY DEF FailPending, NodeStatus

-----------------------------------------------------------------------------
(***************************************************************************)
(* Type correctness                                                        *)
(***************************************************************************)
\* Init creates typed rows, as submit does.
LEMMA InitTypeOK == Init => TypeOK
BY InsertedRows
   DEF Init, TypeOK, DatabaseTypeOK, StreamTypeOK, ProcessTypeOK,
       WorkflowStatus, NodeStatus, TaskStatus, CallerState, IdleJob

\* The trigger request keeps the types.
LEMMA ApiTypeOK ==
  ASSUME TypeOK, NEW k \in Caller, ApiStep(k)
  PROVE  TypeOK'
<1>0. attempt \in [Node -> [AttemptNumber -> AttemptRow]]
  BY DEF TypeOK, DatabaseTypeOK
<1>1. CASE CheckTriggerable(k)
  BY <1>1
     DEF CheckTriggerable, CallerState, dbVars, streamVars, orchVars,
         faultVars, TypeOK, DatabaseTypeOK, StreamTypeOK, ProcessTypeOK
<1>2. CASE TriggerExecution(k)
  BY <1>2
     DEF TriggerExecution, CallerState, WorkflowStatus, OutboxRow, TriggerRow,
         streamVars, orchVars, faultVars, TypeOK, DatabaseTypeOK, StreamTypeOK,
         ProcessTypeOK
<1>3. CASE LoseTriggerRace(k)
  BY <1>3
     DEF LoseTriggerRace, CallerState, dbVars, streamVars, orchVars, faultVars,
         TypeOK, DatabaseTypeOK, StreamTypeOK, ProcessTypeOK
<1> QED
  BY <1>1, <1>2, <1>3 DEF ApiStep

\* A consumer takes an entry of its own batch and nodes to dispatch.
LEMMA BeginTypeOK ==
  ASSUME TypeOK, NEW o \in Orchestrator, NEW e \in batch[o],
         NEW R \in SUBSET Node, Begin(o, e, R)
  PROVE  /\ batch' \in [Orchestrator -> SUBSET (TriggerEntry \cup CompletionEntry)]
         /\ current' \in [Orchestrator -> SUBSET (TriggerEntry \cup CompletionEntry)]
         /\ ready' \in [Orchestrator -> SUBSET Node]
         /\ due' \in [Orchestrator -> SUBSET RetryKey]
         /\ sent' \in [Orchestrator -> SUBSET RetryKey]
BY DEF TypeOK, ProcessTypeOK, Begin

\* Losing the memory of a process keeps the types.
LEMMA DownTypeOK ==
  ASSUME TypeOK, NEW o \in Orchestrator, Down(o)
  PROVE  /\ batch' \in [Orchestrator -> SUBSET (TriggerEntry \cup CompletionEntry)]
         /\ current' \in [Orchestrator -> SUBSET (TriggerEntry \cup CompletionEntry)]
         /\ ready' \in [Orchestrator -> SUBSET Node]
         /\ due' \in [Orchestrator -> SUBSET RetryKey]
         /\ sent' \in [Orchestrator -> SUBSET RetryKey]
BY DEF TypeOK, ProcessTypeOK, Down

\* Recording an outcome keeps the attempt and task tables typed.
LEMMA RecordOutcomeTypeOK ==
  ASSUME TypeOK, NEW e \in CompletionEntry, RecordOutcome(e)
  PROVE  /\ attempt' \in [Node -> [AttemptNumber -> AttemptRow]]
         /\ task' \in [Node -> TaskStatus]
<1> DEFINE old == attempt[e.node][e.attempt]
           row == IF ~Recorded(e) THEN old
                  ELSE IF e.ok THEN RecordSuccess(old, e.run)
                       ELSE RecordFailure(old, e.run)
<1>1. e.node \in Node /\ e.attempt \in AttemptNumber /\ e.run \in Nat
  BY DEF CompletionEntry
<1>2. old \in AttemptRow
  BY <1>1 DEF TypeOK, DatabaseTypeOK
<1>3. RecordSuccess(old, e.run) \in AttemptRow /\ RecordFailure(old, e.run) \in AttemptRow
  BY <1>1, <1>2, UpdatedRows, Zenon
<1>4. row \in AttemptRow
  BY <1>2, <1>3
<1>5. attempt' = [attempt EXCEPT ![e.node][e.attempt] = row]
  BY <1>1 DEF RecordOutcome, TypeOK, DatabaseTypeOK
<1>6. attempt' \in [Node -> [AttemptNumber -> AttemptRow]]
  <2> HIDE DEF row
  <2> QED
    BY <1>1, <1>4, <1>5, StoredRow DEF TypeOK, DatabaseTypeOK
<1>7. task' \in [Node -> TaskStatus]
  BY <1>1 DEF RecordOutcome, TypeOK, DatabaseTypeOK, TaskStatus
<1> QED
  BY <1>6, <1>7

\* FinishNode keeps the types of everything it writes.
LEMMA FinishNodeTypeOK ==
  ASSUME TypeOK, NEW o \in Orchestrator, NEW e \in batch[o],
         e \in CompletionEntry, NEW st \in Terminal, FinishNode(o, e, st)
  PROVE  /\ wfStatus' \in WorkflowStatus
         /\ nodeStatus' \in [Node -> NodeStatus]
         /\ lifecycle' \subseteq LifecycleRow
         /\ batch' \in [Orchestrator -> SUBSET (TriggerEntry \cup CompletionEntry)]
         /\ current' \in [Orchestrator -> SUBSET (TriggerEntry \cup CompletionEntry)]
         /\ ready' \in [Orchestrator -> SUBSET Node]
         /\ due' \in [Orchestrator -> SUBSET RetryKey]
         /\ sent' \in [Orchestrator -> SUBSET RetryKey]
<1> DEFINE own     == [nodeStatus EXCEPT ![e.node] = st]
           blocked == IF st = "FAILED" THEN FailedDependants(own) ELSE {}
           after   == FailPending(own, blocked)
<1>1. e.node \in Node /\ Cause(e) \in Node \X AttemptNumber \X Nat
  BY DEF CompletionEntry, Cause
<1>2. own \in [Node -> NodeStatus]
  BY <1>1 DEF TypeOK, DatabaseTypeOK, Terminal, NodeStatus
<1>3. blocked \subseteq Node
  BY DEF FailedDependants
<1>4. after \in [Node -> NodeStatus]
  BY <1>2, FailPendingType, Zenon
<1>5. Finalized(wfStatus, after) \in WorkflowStatus
  BY DEF Finalized, TypeOK, DatabaseTypeOK, WorkflowStatus
<1>6. {NodeEvent(n, "FAILED", e) : n \in blocked} \subseteq LifecycleRow
  <2>1. \A n \in Node : NodeEvent(n, "FAILED", e) \in LifecycleRow
    BY <1>1 DEF NodeEvent, LifecycleRow, Terminal
  <2> HIDE DEF blocked
  <2> QED
    BY <1>3, <2>1
<1>7. NodeEvent(e.node, st, e) \in LifecycleRow
  BY <1>1 DEF NodeEvent, LifecycleRow
<1>8. WorkflowEvents(wfStatus, after, e) \subseteq LifecycleRow
  <2>1. Finalized(wfStatus, after) # wfStatus => Finalized(wfStatus, after) \in Terminal
    BY DEF Finalized, Terminal
  <2> QED
    BY <2>1, <1>1 DEF WorkflowEvents, WorkflowEvent, LifecycleRow
<1>9. NewlyReady(nodeStatus, after, st) \in SUBSET Node
  BY DEF NewlyReady, ReadyNodes
<1>10. /\ nodeStatus' = after
       /\ wfStatus' = Finalized(wfStatus, after)
       /\ lifecycle' = lifecycle
            \cup {NodeEvent(n, "FAILED", e) : n \in blocked}
            \cup {NodeEvent(e.node, st, e)}
            \cup WorkflowEvents(wfStatus, after, e)
       /\ Begin(o, e, NewlyReady(nodeStatus, after, st))
  BY DEF FinishNode
<1> HIDE DEF after, blocked, own
<1>11. lifecycle' \subseteq LifecycleRow
  BY <1>6, <1>7, <1>8, <1>10 DEF TypeOK, DatabaseTypeOK
<1> QED
  BY <1>4, <1>5, <1>9, <1>10, <1>11, BeginTypeOK

\* What a completion transaction writes is typed.
LEMMA CompletionTypeOK ==
  ASSUME TypeOK, NEW o \in Orchestrator, NEW e \in batch[o],
         CompleteNode(o, e) \/ FailNode(o, e) \/ ScheduleRetry(o, e)
           \/ IgnoreCompletion(o, e)
  PROVE  TypeOK'
<1>1. e \in CompletionEntry /\ e.node \in Node /\ e.attempt \in AttemptNumber
        /\ e.run \in Nat
  BY DEF CompleteNode, FailNode, ScheduleRetry, IgnoreCompletion, Completion,
         CompletionEntry
<1>2. CASE CompleteNode(o, e)
  BY <1>1, <1>2, RecordOutcomeTypeOK, FinishNodeTypeOK
     DEF CompleteNode, Terminal, TypeOK, DatabaseTypeOK, StreamTypeOK,
         ProcessTypeOK, streamVars, faultVars
<1>3. CASE FailNode(o, e)
  BY <1>1, <1>3, RecordOutcomeTypeOK, FinishNodeTypeOK
     DEF FailNode, Terminal, TypeOK, DatabaseTypeOK, StreamTypeOK,
         ProcessTypeOK, streamVars, faultVars
<1>4. CASE ScheduleRetry(o, e)
  <2> DEFINE old == attempt[e.node][e.attempt]
             step == [attempt EXCEPT ![e.node][e.attempt] = RecordFailure(old, e.run)]
  <2>1. step \in [Node -> [AttemptNumber -> AttemptRow]]
    <3>1. old \in AttemptRow
      BY <1>1 DEF TypeOK, DatabaseTypeOK
    <3>2. RecordFailure(old, e.run) \in AttemptRow
      BY <1>1, <3>1, UpdatedRows, Zenon
    <3> QED
      BY <1>1, <3>2, StoredRow DEF TypeOK, DatabaseTypeOK
  <2>2. e.attempt + 1 \in AttemptNumber
    BY <1>1, <1>4, MaxAttemptsAssumption
       DEF ScheduleRetry, RetriesExhausted, AttemptNumber
  <2>3. attempt' = [step EXCEPT ![e.node][e.attempt + 1] = ScheduledAttempt]
    BY <1>1, <1>4 DEF ScheduleRetry, TypeOK, DatabaseTypeOK
  <2>4. attempt' \in [Node -> [AttemptNumber -> AttemptRow]]
    <3> HIDE DEF step
    <3> QED
      BY <1>1, <2>1, <2>2, <2>3, InsertedRows
  <2>5. task' \in [Node -> TaskStatus]
    BY <1>1, <1>4 DEF ScheduleRetry, TypeOK, DatabaseTypeOK, TaskStatus
  <2> QED
    BY <1>4, <2>4, <2>5, BeginTypeOK
       DEF ScheduleRetry, TypeOK, DatabaseTypeOK, StreamTypeOK, ProcessTypeOK,
           streamVars, faultVars
<1>5. CASE IgnoreCompletion(o, e)
  <2>1. CASE Recorded(e) /\ nodeStatus[e.node] = "PENDING"
    BY <1>5, <2>1, DownTypeOK
       DEF IgnoreCompletion, TypeOK, DatabaseTypeOK, StreamTypeOK,
           ProcessTypeOK, streamVars, faultVars
  <2>2. CASE ~(Recorded(e) /\ nodeStatus[e.node] = "PENDING")
    BY <1>1, <1>5, <2>2, BeginTypeOK, RecordOutcomeTypeOK
       DEF IgnoreCompletion, TypeOK, DatabaseTypeOK, StreamTypeOK,
           ProcessTypeOK, streamVars, faultVars
  <2> QED
    BY <2>1, <2>2
<1> QED
  BY <1>2, <1>3, <1>4, <1>5

\* XADD to the task stream adds a task entry.
LEMMA AddTaskTypeOK ==
  ASSUME TypeOK, NEW n \in Node, NEW k \in AttemptNumber, AddTask(n, k)
  PROVE  tasks' \subseteq TaskEntry
<1>1. PICK c \in Copy : tasks' = tasks \cup {[node |-> n, attempt |-> k, copy |-> c]}
  BY DEF AddTask
<1>2. [node |-> n, attempt |-> k, copy |-> c] \in TaskEntry
  BY DEF TaskEntry
<1> QED
  BY <1>1, <1>2 DEF TypeOK, StreamTypeOK

\* The other steps of an orchestrator keep the types.
LEMMA OrchestratorTypeOK ==
  ASSUME TypeOK, NEW o \in Orchestrator, OrchestratorStep(o)
  PROVE  TypeOK'
<1>0. attempt \in [Node -> [AttemptNumber -> AttemptRow]]
  BY DEF TypeOK, DatabaseTypeOK
<1>1. ASSUME NEW m \in OutboxRow, PublishOutbox(o, m)
      PROVE  TypeOK'
  <2>1. CASE PublishTrigger(m)
    BY <1>1, <2>1
       DEF PublishOutbox, PublishTrigger, AddTrigger, TriggerRow, TriggerEntry,
           orchVars, faultVars, TypeOK, DatabaseTypeOK, StreamTypeOK,
           ProcessTypeOK
  <2>2. CASE PublishTask(m)
    <3>1. 1 \in AttemptNumber
      BY MaxAttemptsAssumption DEF AttemptNumber
    <3>2. tasks' \subseteq TaskEntry /\ events' = events
      BY <2>2, <3>1, AddTaskTypeOK DEF PublishTask, TaskRow
    <3> QED
      BY <1>1, <3>2
         DEF PublishOutbox, orchVars, faultVars, TypeOK, DatabaseTypeOK,
             StreamTypeOK, ProcessTypeOK
  <2> QED
    BY <1>1, <2>1, <2>2 DEF PublishOutbox
<1>2. CASE ReadEvents(o)
  BY <1>2
     DEF ReadEvents, dbVars, faultVars, TypeOK, DatabaseTypeOK, StreamTypeOK,
         ProcessTypeOK
<1>3. CASE ReadCompletions(o)
  BY <1>3
     DEF ReadCompletions, dbVars, faultVars, TypeOK, DatabaseTypeOK,
         StreamTypeOK, ProcessTypeOK
<1>4. ASSUME NEW e \in batch[o], HandleTrigger(o, e)
      PROVE  TypeOK'
  <2>1. ReadyNodes(nodeStatus) \in SUBSET Node
    BY DEF ReadyNodes
  <2> QED
    BY <1>4, <2>1, BeginTypeOK
       DEF HandleTrigger, dbVars, streamVars, faultVars, TypeOK,
           DatabaseTypeOK, StreamTypeOK, ProcessTypeOK
<1>5. ASSUME NEW e \in batch[o],
             CompleteNode(o, e) \/ FailNode(o, e) \/ ScheduleRetry(o, e)
               \/ IgnoreCompletion(o, e)
      PROVE  TypeOK'
  BY <1>5, CompletionTypeOK
<1>6. ASSUME NEW n \in Node, DispatchNode(o, n)
      PROVE  TypeOK'
  <2>1. CASE DependencyFailed(n)
    BY <1>6, <2>1, FailPendingType
       DEF DispatchNode, Dispatched, streamVars, faultVars, TypeOK,
           DatabaseTypeOK, StreamTypeOK, ProcessTypeOK
  <2>2. CASE ~DependencyFailed(n)
    <3>1. RegisterInitialTask(n)
      BY <1>6, <2>2 DEF DispatchNode
    <3>2. task' \in [Node -> TaskStatus]
      BY <3>1 DEF RegisterInitialTask, TaskStatus, TypeOK, DatabaseTypeOK
    <3>3. attempt' \in [Node -> [AttemptNumber -> AttemptRow]]
      BY <1>0, <3>1, InsertedRows, Zenon DEF RegisterInitialTask
    <3>4. nodeStatus' \in [Node -> NodeStatus] /\ outbox' \subseteq OutboxRow
      BY <1>6, <2>2 DEF DispatchNode, NodeStatus, OutboxRow, TaskRow,
         TypeOK, DatabaseTypeOK
    <3> QED
      BY <1>6, <3>2, <3>3, <3>4
         DEF DispatchNode, Dispatched, streamVars, faultVars, TypeOK,
             DatabaseTypeOK, StreamTypeOK, ProcessTypeOK
  <2> QED
    BY <2>1, <2>2
<1>7. ASSUME NEW n \in Node, SkipDispatch(o, n)
      PROVE  TypeOK'
  BY <1>7
     DEF SkipDispatch, Dispatched, dbVars, streamVars, faultVars, TypeOK,
         DatabaseTypeOK, StreamTypeOK, ProcessTypeOK
<1>8. ASSUME NEW n \in Node, DispatchRaises(o, n)
      PROVE  TypeOK'
  BY <1>8, DownTypeOK
     DEF DispatchRaises, dbVars, streamVars, faultVars, TypeOK, DatabaseTypeOK,
         StreamTypeOK, ProcessTypeOK
<1>9. CASE AckEntry(o)
  BY <1>9
     DEF AckEntry, dbVars, streamVars, faultVars, TypeOK, DatabaseTypeOK,
         StreamTypeOK, ProcessTypeOK
<1>10. ASSUME NEW R \in SUBSET DueRetries, ReadDueRetries(o, R)
       PROVE  TypeOK'
  BY <1>10
     DEF ReadDueRetries, DueRetries, dbVars, streamVars, faultVars, TypeOK,
         DatabaseTypeOK, StreamTypeOK, ProcessTypeOK
<1>11. ASSUME NEW r \in RetryKey, PublishRetry(o, r)
       PROVE  TypeOK'
  <2>1. tasks' \subseteq TaskEntry
    BY <1>11, AddTaskTypeOK, Zenon DEF PublishRetry, RetryKey
  <2> QED
    BY <1>11, <2>1
       DEF PublishRetry, dbVars, faultVars, TypeOK, DatabaseTypeOK,
           StreamTypeOK, ProcessTypeOK
<1>12. ASSUME NEW r \in RetryKey, MarkRetry(o, r)
       PROVE  TypeOK'
  <2>1. r[1] \in Node /\ r[2] \in AttemptNumber
    BY DEF RetryKey
  <2>2. MarkRetryPublished(attempt[r[1]][r[2]]) \in AttemptRow
    <3>1. attempt[r[1]][r[2]] \in AttemptRow
      BY <1>0, <2>1
    <3> QED
      BY <3>1, UpdatedRows, Zenon
  <2>3. attempt' \in [Node -> [AttemptNumber -> AttemptRow]]
    BY <1>12, <2>1, <2>2, <1>0, StoredRow DEF MarkRetry
  <2> QED
    BY <1>12, <2>3
       DEF MarkRetry, streamVars, faultVars, TypeOK, DatabaseTypeOK,
           StreamTypeOK, ProcessTypeOK
<1>13. ASSUME NEW e \in batch[o], UnreadableCompletion(o, e)
       PROVE  TypeOK'
  BY <1>13, DownTypeOK
     DEF UnreadableCompletion, dbVars, streamVars, faultVars, TypeOK,
         DatabaseTypeOK, StreamTypeOK, ProcessTypeOK
<1> QED
  BY <1>1, <1>2, <1>3, <1>4, <1>5, <1>6, <1>7, <1>8, <1>9, <1>10, <1>11,
     <1>12, <1>13 DEF OrchestratorStep

\* A crash of an orchestrator keeps the types.
LEMMA OrchestratorFaultTypeOK ==
  ASSUME TypeOK, NEW o \in Orchestrator, OrchestratorFault(o)
  PROVE  TypeOK'
<1>0. attempt \in [Node -> [AttemptNumber -> AttemptRow]]
  BY DEF TypeOK, DatabaseTypeOK
<1>1. ASSUME NEW m \in OutboxRow, PublishOutboxAndCrash(o, m)
      PROVE  TypeOK'
  <2>1. CASE PublishTrigger(m)
    BY <1>1, <2>1
       DEF PublishOutboxAndCrash, PublishTrigger, AddTrigger, TriggerRow,
           TriggerEntry, dbVars, orchVars, TypeOK, DatabaseTypeOK,
           StreamTypeOK, ProcessTypeOK
  <2>2. CASE PublishTask(m)
    <3>1. 1 \in AttemptNumber
      BY MaxAttemptsAssumption DEF AttemptNumber
    <3>2. tasks' \subseteq TaskEntry /\ events' = events
      BY <2>2, <3>1, AddTaskTypeOK DEF PublishTask, TaskRow
    <3> QED
      BY <1>1, <3>2
         DEF PublishOutboxAndCrash, dbVars, orchVars, TypeOK, DatabaseTypeOK,
             StreamTypeOK, ProcessTypeOK
  <2> QED
    BY <1>1, <2>1, <2>2 DEF PublishOutboxAndCrash
<1>2. CASE CrashOrchestrator(o)
  BY <1>2, DownTypeOK
     DEF CrashOrchestrator, dbVars, streamVars, TypeOK, DatabaseTypeOK,
         StreamTypeOK, ProcessTypeOK
<1> QED
  BY <1>1, <1>2 DEF OrchestratorFault

\* A coroutine past "idle" holds a typed job.
LEMMA BusyJob ==
  ASSUME TypeOK, NEW s \in Slot, job[s].pc # "idle"
  PROVE  /\ job[s] \in Job
         /\ job[s].entry \in TaskEntry
         /\ job[s].entry.node \in Node
         /\ job[s].entry.attempt \in AttemptNumber
         /\ AttemptOf(job[s].entry) \in AttemptRow
<1>1. job[s] \in Job \cup {IdleJob}
  BY DEF TypeOK, ProcessTypeOK
<1>2. job[s] \in Job
  BY <1>1 DEF IdleJob
<1>3. job[s].entry \in TaskEntry
  BY <1>2 DEF Job
<1>4. job[s].entry.node \in Node /\ job[s].entry.attempt \in AttemptNumber
  BY <1>3 DEF TaskEntry
<1>5. AttemptOf(job[s].entry) \in AttemptRow
  BY <1>4 DEF AttemptOf, TypeOK, DatabaseTypeOK
<1> QED
  BY <1>2, <1>3, <1>4, <1>5

\* The two ways in which a coroutine moves on.
LEMMA StepTypeOK ==
  ASSUME TypeOK, NEW s \in Slot, job[s] \in Job, NEW pc \in JobPc,
         Step(s, pc) \/ Quit(s)
  PROVE  job' \in [Slot -> Job \cup {IdleJob}]
BY DEF TypeOK, ProcessTypeOK, Step, Quit, Job

\* What a worker puts on the completion stream is typed.
LEMMA AddCompletionTypeOK ==
  ASSUME TypeOK, NEW m \in TaskEntry, NEW run \in Nat, NEW ok \in BOOLEAN,
         AddCompletion(m, run, ok)
  PROVE  completions' \subseteq CompletionEntry
<1>1. m.node \in Node /\ m.attempt \in AttemptNumber
  BY DEF TaskEntry
<1>2. PICK c \in Copy :
         completions' = completions \cup
           {[kind |-> "completion", node |-> m.node, attempt |-> m.attempt,
             run |-> run, ok |-> ok, copy |-> c]}
  BY DEF AddCompletion
<1>3. [kind |-> "completion", node |-> m.node, attempt |-> m.attempt,
       run |-> run, ok |-> ok, copy |-> c] \in CompletionEntry
  BY <1>1 DEF CompletionEntry
<1> QED
  BY <1>2, <1>3 DEF TypeOK, StreamTypeOK

\* The steps of a worker coroutine keep the types.
LEMMA WorkerTypeOK ==
  ASSUME TypeOK, NEW s \in Slot, WorkerStep(s)
  PROVE  TypeOK'
<1>0. attempt \in [Node -> [AttemptNumber -> AttemptRow]]
  BY DEF TypeOK, DatabaseTypeOK
<1> DEFINE m == job[s].entry
           a == AttemptOf(m)
<1>1. ASSUME NEW e \in tasks, Deliver(s, e)
      PROVE  TypeOK'
  <2>1. [pc |-> "delivered", entry |-> e, run |-> 0, ok |-> TRUE] \in Job
    BY DEF Job, JobPc, TypeOK, StreamTypeOK
  <2> QED
    BY <1>1, <2>1
       DEF Deliver, Hold, dbVars, orchVars, faultVars, TypeOK, DatabaseTypeOK,
           StreamTypeOK, ProcessTypeOK
<1>2. ASSUME NEW e \in pendingTasks, Reclaim(s, e)
      PROVE  TypeOK'
  <2>1. [pc |-> "delivered", entry |-> e, run |-> 0, ok |-> TRUE] \in Job
    BY DEF Job, JobPc, TypeOK, StreamTypeOK
  <2> QED
    BY <1>2, <2>1
       DEF Reclaim, Hold, dbVars, streamVars, orchVars, faultVars, TypeOK,
           DatabaseTypeOK, StreamTypeOK, ProcessTypeOK
<1>3. CASE Claim(s)
  <2>1. WorkerOf[s] \in Worker
    BY WorkerOfAssumption
  <2>2. a \in AttemptRow /\ m.node \in Node /\ m.attempt \in AttemptNumber
          /\ job[s] \in Job
    BY <1>3, BusyJob DEF Claim, At
  <2>3. ClaimAttempt(a, WorkerOf[s]) \in AttemptRow
    BY <2>1, <2>2, ClaimedRow
  <2>4. attempt' \in [Node -> [AttemptNumber -> AttemptRow]]
    BY <1>3, <2>2, <2>3, <1>0, StoredRow DEF Claim, StoreAttempt
  <2>5. job' \in [Slot -> Job \cup {IdleJob}]
    BY <1>3, <2>2, StepTypeOK, Zenon DEF Claim, JobPc
  <2> QED
    BY <1>3, <2>4, <2>5
       DEF Claim, streamVars, orchVars, faultVars, TypeOK, DatabaseTypeOK,
           StreamTypeOK, ProcessTypeOK
<1>4. CASE ClaimRefused(s)
  <2>1. job[s] \in Job
    BY <1>4, BusyJob, Zenon DEF ClaimRefused, At
  <2>2. job' \in [Slot -> Job \cup {IdleJob}]
    BY <1>4, <2>1, StepTypeOK DEF ClaimRefused, AfterRefusal, JobPc
  <2> QED
    BY <1>4, <2>2
       DEF ClaimRefused, dbVars, streamVars, orchVars, faultVars, TypeOK,
           DatabaseTypeOK, StreamTypeOK, ProcessTypeOK
<1>5. CASE ReplayResult(s)
  <2>1. job[s] \in Job /\ a \in AttemptRow
    BY <1>5, BusyJob DEF ReplayResult, At
  <2>2. a.completion \in Nat /\ a.ok \in BOOLEAN
    BY <2>1 DEF AttemptRow
  <2>3. job' \in [Slot -> Job \cup {IdleJob}]
    <3>1. [job[s] EXCEPT !.pc = "recorded", !.run = a.completion, !.ok = a.ok] \in Job
      BY <2>1, <2>2, Zenon DEF Job, JobPc
    <3>2. \/ job' = [job EXCEPT ![s] = IdleJob]
          \/ job' = [job EXCEPT ![s] = [job[s] EXCEPT !.pc = "recorded",
                                          !.run = a.completion, !.ok = a.ok]]
      BY <1>5, Zenon DEF ReplayResult, Quit
    <3> QED
      BY <3>1, <3>2 DEF TypeOK, ProcessTypeOK
  <2> QED
    BY <1>5, <2>3
       DEF ReplayResult, dbVars, streamVars, orchVars, faultVars, TypeOK,
           DatabaseTypeOK, StreamTypeOK, ProcessTypeOK
<1>6. CASE RenewLease(s)
  <2>1. a \in AttemptRow /\ m.node \in Node /\ m.attempt \in AttemptNumber
    BY <1>6, BusyJob DEF RenewLease, At
  <2>2. RenewClaim(a) \in AttemptRow
    BY <2>1, UpdatedRows, Zenon
  <2>3. attempt' \in [Node -> [AttemptNumber -> AttemptRow]]
    BY <1>6, <2>1, <2>2, <1>0, StoredRow, Zenon DEF RenewLease, StoreAttempt
  <2> QED
    BY <1>6, <2>3
       DEF RenewLease, streamVars, orchVars, faultVars, TypeOK, DatabaseTypeOK,
           StreamTypeOK, ProcessTypeOK
<1>7. CASE RenewalFails(s)
  <2>1. job' \in [Slot -> Job \cup {IdleJob}]
    BY <1>7, BusyJob, StepTypeOK, Zenon DEF RenewalFails, At, JobPc
  <2> QED
    BY <1>7, <2>1
       DEF RenewalFails, dbVars, streamVars, orchVars, faultVars, TypeOK,
           DatabaseTypeOK, StreamTypeOK, ProcessTypeOK
<1>8. CASE DiscardResult(s)
  BY <1>8
     DEF DiscardResult, Quit, dbVars, streamVars, orchVars, faultVars, TypeOK,
         DatabaseTypeOK, StreamTypeOK, ProcessTypeOK
<1>9. ASSUME NEW ok \in BOOLEAN, FinishHandler(s, ok)
      PROVE  TypeOK'
  <2>1. a \in AttemptRow /\ m.node \in Node /\ m.attempt \in AttemptNumber
          /\ job[s] \in Job
    BY <1>9, BusyJob DEF FinishHandler, At
  <2>2. a.runs + 1 \in Nat /\ [a EXCEPT !.runs = @ + 1] \in AttemptRow
    <3>1. a.runs + 1 \in Nat
      BY <2>1 DEF AttemptRow
    <3> QED
      BY <2>1, <3>1, UpdatedRows, Zenon
  <2>3. attempt' \in [Node -> [AttemptNumber -> AttemptRow]]
    BY <1>9, <2>1, <2>2, <1>0, StoredRow DEF FinishHandler, StoreAttempt
  <2>4. job' \in [Slot -> Job \cup {IdleJob}]
    <3> DEFINE done == [job[s] EXCEPT !.pc = "finished", !.run = a.runs + 1,
                                      !.ok = ok]
    <3>1. done \in Job
      BY <2>1, <2>2, Zenon DEF Job, JobPc
    <3>2. job' = [job EXCEPT ![s] = done]
      BY <1>9, Zenon DEF FinishHandler
    <3> HIDE DEF done
    <3> QED
      BY <3>1, <3>2 DEF TypeOK, ProcessTypeOK
  <2> QED
    BY <1>9, <2>3, <2>4
       DEF FinishHandler, streamVars, orchVars, faultVars, TypeOK,
           DatabaseTypeOK, StreamTypeOK, ProcessTypeOK
<1>10. CASE RecordTaskResult(s)
  <2>1. a \in AttemptRow /\ m.node \in Node /\ m.attempt \in AttemptNumber
          /\ job[s] \in Job
    BY <1>10, BusyJob, Zenon DEF RecordTaskResult, At
  <2>2. RecordResult(a, job[s].run, job[s].ok) \in AttemptRow
    BY <2>1, UpdatedRows, Zenon DEF Job
  <2>3. attempt' \in [Node -> [AttemptNumber -> AttemptRow]]
    <3>1. CASE ResultRecordable(a)
      <4>1. attempt' = [attempt EXCEPT ![m.node][m.attempt] = RecordResult(a, job[s].run, job[s].ok)]
        BY <1>10, <3>1 DEF RecordTaskResult, StoreAttempt
      <4> QED
        BY <2>1, <2>2, <4>1, <1>0, StoredRow, Zenon
    <3>2. CASE ~ResultRecordable(a)
      BY <1>0, <1>10, <3>2 DEF RecordTaskResult
    <3> QED
      BY <3>1, <3>2
  <2>4. job' \in [Slot -> Job \cup {IdleJob}]
    BY <1>10, <2>1, StepTypeOK DEF RecordTaskResult, JobPc
  <2> QED
    BY <1>10, <2>3, <2>4
       DEF RecordTaskResult, streamVars, orchVars, faultVars, TypeOK,
           DatabaseTypeOK, StreamTypeOK, ProcessTypeOK
<1>11. CASE PublishCompletion(s)
  <2>1. job[s] \in Job /\ m \in TaskEntry
    BY <1>11, BusyJob DEF PublishCompletion, At
  <2>2. completions' \subseteq CompletionEntry
    <3>1. job[s].run \in Nat /\ job[s].ok \in BOOLEAN
      BY <2>1 DEF Job
    <3>2. AddCompletion(m, job[s].run, job[s].ok)
      BY <1>11 DEF PublishCompletion
    <3> QED
      BY <2>1, <3>1, <3>2, AddCompletionTypeOK
  <2>3. job' \in [Slot -> Job \cup {IdleJob}]
    BY <1>11, <2>1, StepTypeOK DEF PublishCompletion, JobPc
  <2> QED
    BY <1>11, <2>2, <2>3
       DEF PublishCompletion, dbVars, orchVars, faultVars, TypeOK,
           DatabaseTypeOK, StreamTypeOK, ProcessTypeOK
<1>12. CASE MarkTaskCompleted(s)
  <2>1. a \in AttemptRow /\ m.node \in Node /\ m.attempt \in AttemptNumber
          /\ job[s] \in Job
    BY <1>12, BusyJob, Zenon DEF MarkTaskCompleted, At
  <2>2. MarkCompleted(a) \in AttemptRow
    BY <2>1, UpdatedRows, Zenon
  <2>3. attempt' \in [Node -> [AttemptNumber -> AttemptRow]]
    <3>1. CASE Completable(a)
      <4>1. attempt' = [attempt EXCEPT ![m.node][m.attempt] = MarkCompleted(a)]
        BY <1>12, <3>1 DEF MarkTaskCompleted, StoreAttempt
      <4> QED
        BY <2>1, <2>2, <4>1, <1>0, StoredRow, Zenon
    <3>2. CASE ~Completable(a)
      BY <1>0, <1>12, <3>2 DEF MarkTaskCompleted
    <3> QED
      BY <3>1, <3>2
  <2>4. job' \in [Slot -> Job \cup {IdleJob}]
    BY <1>12, <2>1, StepTypeOK DEF MarkTaskCompleted, JobPc
  <2> QED
    BY <1>12, <2>3, <2>4
       DEF MarkTaskCompleted, streamVars, orchVars, faultVars, TypeOK,
           DatabaseTypeOK, StreamTypeOK, ProcessTypeOK
<1>13. CASE AckTask(s)
  BY <1>13
     DEF AckTask, Quit, dbVars, orchVars, faultVars, TypeOK, DatabaseTypeOK,
         StreamTypeOK, ProcessTypeOK
<1>14. CASE AnswerMalformed(s)
  <2>1. a \in AttemptRow /\ m \in TaskEntry /\ job[s] \in Job
          /\ m.node \in Node /\ m.attempt \in AttemptNumber
    BY <1>14, BusyJob DEF AnswerMalformed, At
  <2>2. a.runs + 1 \in Nat
    BY <2>1 DEF AttemptRow
  <2>3. [a EXCEPT !.runs = @ + 1] \in AttemptRow
    BY <2>1, <2>2, UpdatedRows, Zenon
  <2>4. attempt' \in [Node -> [AttemptNumber -> AttemptRow]]
    BY <1>14, <2>1, <2>3, <1>0, StoredRow DEF AnswerMalformed, StoreAttempt
  <2>5. completions' \subseteq CompletionEntry
    <3>1. AddCompletion(m, a.runs + 1, FALSE)
      BY <1>14, Zenon DEF AnswerMalformed
    <3> QED
      BY <2>1, <2>2, <3>1, AddCompletionTypeOK, Zenon
  <2>6. job' \in [Slot -> Job \cup {IdleJob}]
    BY <1>14, <2>1, StepTypeOK DEF AnswerMalformed, JobPc
  <2> QED
    BY <1>14, <2>4, <2>5, <2>6
       DEF AnswerMalformed, orchVars, faultVars, TypeOK, DatabaseTypeOK,
           StreamTypeOK, ProcessTypeOK
<1>15. CASE DeadLetter(s)
  <2>1. m \in TaskEntry /\ job[s] \in Job
    BY <1>15, BusyJob, Zenon DEF DeadLetter, At
  <2>2. deadLetters' \subseteq TaskEntry
    BY <1>15, <2>1 DEF DeadLetter, AddDeadLetter, TypeOK, StreamTypeOK
  <2>3. job' \in [Slot -> Job \cup {IdleJob}]
    BY <1>15, <2>1, StepTypeOK DEF DeadLetter, JobPc
  <2> QED
    BY <1>15, <2>2, <2>3
       DEF DeadLetter, dbVars, orchVars, faultVars, TypeOK, DatabaseTypeOK,
           StreamTypeOK, ProcessTypeOK
<1> QED
  BY <1>1, <1>2, <1>3, <1>4, <1>5, <1>6, <1>7, <1>8, <1>9, <1>10, <1>11,
     <1>12, <1>13, <1>14, <1>15 DEF WorkerStep

\* A request that only reads, and a round of pollers that find nothing, leave
\* the engine alone.
LEMMA ReadersQuiet ==
  ASSUME (\E r \in Reader : Get(r)) \/ Done \/ UNCHANGED vars
  PROVE  UNCHANGED engineVars
<1>1. ASSUME NEW r \in Reader, Get(r) PROVE UNCHANGED engineVars
  BY <1>1 DEF Get, ReadExecution, ReadNodes, Respond
<1>2. CASE UNCHANGED vars
  BY <1>2 DEF vars
<1> QED
  BY <1>1, <1>2 DEF Done

\* Every step keeps the types.
LEMMA NextTypeOK == TypeOK /\ [Next]_vars => TypeOK'
<1> SUFFICES ASSUME TypeOK, [Next]_vars PROVE TypeOK'
  OBVIOUS
<1>1. ASSUME NEW w \in Worker, CrashWorker(w) PROVE TypeOK'
  BY <1>1 DEF CrashWorker, TypeOK, DatabaseTypeOK, StreamTypeOK, ProcessTypeOK,
              dbVars, streamVars, orchVars
<1>2. ASSUME NEW n \in Node, NEW k \in AttemptNumber, ExpireLease(n, k)
      PROVE  TypeOK'
  <2>1. attempt[n][k] \in AttemptRow
    BY DEF TypeOK, DatabaseTypeOK
  <2>2. [attempt[n][k] EXCEPT !.lease = "expired"] \in AttemptRow
    BY <2>1, UpdatedRows, Zenon
  <2>3. attempt' = [attempt EXCEPT ![n][k] = [attempt[n][k] EXCEPT !.lease = "expired"]]
    BY <1>2 DEF ExpireLease
  <2>4. attempt' \in [Node -> [AttemptNumber -> AttemptRow]]
    BY <2>2, <2>3, StoredRow DEF TypeOK, DatabaseTypeOK
  <2>5. stalls' \in Nat
    BY <1>2 DEF ExpireLease, TypeOK, ProcessTypeOK
  <2> QED
    BY <1>2, <2>4, <2>5
       DEF ExpireLease, TypeOK, DatabaseTypeOK, StreamTypeOK, ProcessTypeOK,
           streamVars, orchVars
<1>3. CASE UNCHANGED engineVars
  BY <1>3 DEF engineVars, TypeOK, DatabaseTypeOK, StreamTypeOK, ProcessTypeOK
<1> QED
  BY <1>1, <1>2, <1>3, ApiTypeOK, OrchestratorTypeOK, OrchestratorFaultTypeOK,
     WorkerTypeOK, ReadersQuiet DEF Next

\* TypeOK is an invariant: no interleaving of requests, replicas, workers
\* and faults writes a row or a message outside the declared types.
THEOREM TypeCorrect == Spec => []TypeOK
BY InitTypeOK, NextTypeOK, PTL DEF Spec

=============================================================================
