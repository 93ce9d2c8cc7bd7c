---------------------------- MODULE EngineState ----------------------------
(***************************************************************************)
(* The state shared by the processes of the engine for one workflow        *)
(* execution: the PostgreSQL rows, the Redis streams with their consumer   *)
(* groups, and the memory of each orchestrator and worker process.         *)
(*                                                                         *)
(* Streams are sets of entries.  Redis hands entries out in order, but the *)
(* replicas of a consumer group hold batches of them at the same time, so  *)
(* any processing order can occur.  An entry carries a copy number that    *)
(* tells apart entries with equal content (Redis entry ids).               *)
(***************************************************************************)
EXTENDS WorkflowDag, TaskAttempts, FiniteSets

CONSTANTS
  Caller,           \* concurrent POST /workflow/trigger requests
  Reader,           \* clients that poll the execution, one request at a time
  Orchestrator,     \* orchestrator replicas
  Slot,             \* worker coroutines (max_concurrency per worker)
  WorkerOf,         \* WorkerOf[s]: the worker process that runs slot s
  Unresolvable,     \* nodes whose templates fail to resolve at dispatch
  Mute,             \* handler executions that raise with a blank message
  Garbled,          \* task keys whose message does not parse
  Anonymous,        \* those whose message does not even name its attempt
  LongHandlers,     \* TRUE: a handler may run past the renewal interval
  MaxCopies,        \* bound: live copies of one stream entry
  MaxOrchCrashes,   \* bound: orchestrator crashes
  MaxWorkerCrashes, \* bound: worker crashes
  MaxStalls         \* bound: leases that lapse under a running handler

ASSUME WorkerOfAssumption == WorkerOf \in [Slot -> Worker]
ASSUME UnresolvableAssumption == Unresolvable \subseteq Node
ASSUME MuteAssumption == Mute \subseteq Node \X AttemptNumber \X Nat
ASSUME GarbledAssumption ==
  Anonymous \subseteq Garbled /\ Garbled \subseteq Node \X AttemptNumber
ASSUME LongHandlersAssumption == LongHandlers \in BOOLEAN
ASSUME MaxCopiesAssumption == MaxCopies \in Nat \ {0}
ASSUME CrashBoundsAssumption ==
  MaxOrchCrashes \in Nat /\ MaxWorkerCrashes \in Nat /\ MaxStalls \in Nat

VARIABLES
  \* PostgreSQL
  wfStatus,      \* workflow_executions.status
  nodeStatus,    \* node_executions.status, per node
  task,          \* logical_tasks.status, per node ("none": no row)
  attempt,       \* task_attempts rows, per node and attempt number
  outbox,        \* pending outbox_events rows: triggers and tasks
  lifecycle,     \* outbox_events rows of node and workflow lifecycle events
  \* Redis Streams
  events,        \* workflow.events: trigger entries not yet delivered
  completions,   \* workflow.task-completions: entries not yet delivered
  tasks,         \* workflow.tasks: entries not yet delivered
  pendingTasks,  \* workflow.tasks: delivered and unacknowledged entries
  deadLetters,   \* workflow.task-dead-letter, by the entry it quotes
  \* the requests of the API
  caller,        \* the trigger requests
  reading,       \* reading[r]: the execution status read so far, or {}
  answer,        \* answer[r]: the last answer, at first the submission's
  \* the memory of each orchestrator
  batch,         \* entries read and not yet acknowledged
  current,       \* the entry being processed: {} or a singleton
  ready,         \* ready node ids it still has to dispatch for that entry
  due,           \* due retries it has read and not yet published
  sent,          \* the retry it has published and not yet marked
  \* the memory of each worker coroutine
  job,
  \* failures so far
  orchCrashes, workerCrashes, stalls

dbVars     == <<wfStatus, nodeStatus, task, attempt, outbox, lifecycle>>
streamVars == <<events, completions, tasks, pendingTasks, deadLetters>>
orchVars   == <<batch, current, ready, due, sent>>
faultVars  == <<orchCrashes, workerCrashes, stalls>>

readerVars == <<reading, answer>>

engineVars ==
  <<wfStatus, nodeStatus, task, attempt, outbox, lifecycle,
    events, completions, tasks, pendingTasks, deadLetters, caller,
    batch, current, ready, due, sent, job,
    orchCrashes, workerCrashes, stalls>>

vars == <<engineVars, readerVars>>

-----------------------------------------------------------------------------
(***************************************************************************)
(* Messages                                                                *)
(***************************************************************************)
Copy == 1..MaxCopies

TriggerRow == [kind : {"trigger"}, by : Caller]
TaskRow    == [kind : {"task"}, node : Node]
OutboxRow  == TriggerRow \cup TaskRow

TriggerEntry == [kind : {"trigger"}, by : Caller, copy : Copy]

TaskEntry == [node : Node, attempt : AttemptNumber, copy : Copy]

CompletionEntry ==
  [kind : {"completion"}, node : Node, attempt : AttemptNumber, run : Nat,
   ok : BOOLEAN, copy : Copy]

\* Lifecycle rows: cause is the completion event the row id derives from.
LifecycleRow ==
  [subject : {"node"}, node : Node, status : Terminal,
   cause : Node \X AttemptNumber \X Nat]
    \cup
  [subject : {"workflow"}, status : Terminal,
   cause : Node \X AttemptNumber \X Nat]

RetryKey == Node \X AttemptNumber

\* NodeTaskMessage.from_stream_fields.
TaskParses(m) == <<m.node, m.attempt>> \notin Garbled

\* TaskCompletionEvent.from_stream_fields: required_field refuses the error
\* message of a failure when there is nothing in it but blanks
\* (a message about a garbled task is the parser's own).
CompletionParses(e) ==
  \/ e.ok
  \/ <<e.node, e.attempt, e.run>> \notin Mute
  \/ <<e.node, e.attempt>> \in Garbled

\* process_malformed finds the fields that identify the attempt.
Identified(m) == <<m.node, m.attempt>> \notin Anonymous

\* Entry m is new to S, and has the least copy number that makes it so.
Fresh(S, m) ==
  /\ m \notin S
  /\ \A b \in Copy : b < m.copy => [m EXCEPT !.copy = b] \in S

-----------------------------------------------------------------------------
(***************************************************************************)
(* Worker coroutines                                                       *)
(***************************************************************************)
IdleJob == [pc |-> "idle"]

JobPc == {"delivered", "replay", "running", "doomed", "finished", "recorded",
          "published", "ack", "skip"}

Job == [pc : JobPc, entry : TaskEntry, run : Nat, ok : BOOLEAN]

Busy(s) == job[s].pc # "idle"

AttemptOf(m) == attempt[m.node][m.attempt]

\* The entries that some coroutine still refers to.
JobEntries == {job[s].entry : s \in {t \in Slot : Busy(t)}}

LiveTaskEntries == tasks \cup pendingTasks \cup JobEntries

LiveCompletions == completions \cup UNION {batch[o] : o \in Orchestrator}

LiveTriggers == events \cup UNION {batch[o] : o \in Orchestrator}

\* XADD workflow.tasks for attempt k of node n.
AddTask(n, k) ==
  \E c \in Copy :
    LET m == [node |-> n, attempt |-> k, copy |-> c]
    IN  /\ Fresh(LiveTaskEntries, m)
        /\ tasks' = tasks \cup {m}

=============================================================================
