------------------------- MODULE OrchestratorProcess -------------------------
(***************************************************************************)
(* One orchestrator replica.  Its loop publishes outbox rows, consumes     *)
(* trigger and completion entries and publishes due retries, one piece of  *)
(* work at a time; which piece comes next is left open.  Every database    *)
(* transaction is one step, every Redis call is one step, and the process  *)
(* may crash between any two.                                              *)
(*                                                                         *)
(* Both consumers read only undelivered entries (">") and never claim      *)
(* pending ones, so what a replica holds in "batch" when it goes down is   *)
(* not delivered again.                                                    *)
(***************************************************************************)
EXTENDS EngineState

\* Between two pieces of work of the loop.
Polling(o) == batch[o] = {} /\ due[o] = {}

\* The memory of the process is lost; its unacknowledged entries stay in the
\* pending list of the consumer group, which nobody reads.
Down(o) ==
  /\ batch'   = [batch   EXCEPT ![o] = {}]
  /\ current' = [current EXCEPT ![o] = {}]
  /\ ready'   = [ready   EXCEPT ![o] = {}]
  /\ due'     = [due     EXCEPT ![o] = {}]
  /\ sent'    = [sent    EXCEPT ![o] = {}]

-----------------------------------------------------------------------------
(***************************************************************************)
(* publish_outbox_events                                                   *)
(***************************************************************************)
AddTrigger(m) ==
  \E c \in Copy :
    LET e == [kind |-> "trigger", by |-> m.by, copy |-> c]
    IN  /\ Fresh(LiveTriggers, e)
        /\ events' = events \cup {e}

PublishTrigger(m) == m \in TriggerRow /\ AddTrigger(m) /\ UNCHANGED tasks

PublishTask(m) == m \in TaskRow /\ AddTask(m.node, 1) /\ UNCHANGED events

\* XADD of one selected row, marked published by the commit.
PublishOutbox(o, m) ==
  /\ Polling(o)
  /\ m \in outbox
  /\ PublishTrigger(m) \/ PublishTask(m)
  /\ outbox' = outbox \ {m}
  /\ UNCHANGED <<wfStatus, nodeStatus, task, attempt, lifecycle, completions,
                 pendingTasks, deadLetters, caller, readerVars, orchVars,
                 job, faultVars>>

\* Redis accepts the entry and the process goes down before the commit.
PublishOutboxAndCrash(o, m) ==
  /\ Polling(o)
  /\ m \in outbox
  /\ orchCrashes < MaxOrchCrashes
  /\ PublishTrigger(m) \/ PublishTask(m)
  /\ orchCrashes' = orchCrashes + 1
  /\ UNCHANGED <<dbVars, completions, pendingTasks, deadLetters, caller,
                 readerVars, orchVars, job, workerCrashes, stalls>>

-----------------------------------------------------------------------------
(***************************************************************************)
(* XREADGROUP of the two consumers: everything undelivered, up to a count  *)
(* of 100 that the model never reaches.                                    *)
(***************************************************************************)
ReadEvents(o) ==
  /\ Polling(o)
  /\ events # {}
  /\ batch' = [batch EXCEPT ![o] = events]
  /\ events' = {}
  /\ UNCHANGED <<dbVars, completions, tasks, pendingTasks, deadLetters,
                 caller, readerVars, current, ready, due, sent, job,
                 faultVars>>

ReadCompletions(o) ==
  /\ Polling(o)
  /\ completions # {}
  /\ batch' = [batch EXCEPT ![o] = completions]
  /\ completions' = {}
  /\ UNCHANGED <<dbVars, events, tasks, pendingTasks, deadLetters, caller,
                 readerVars, current, ready, due, sent, job, faultVars>>

\* The consumer takes entry e of its batch and will dispatch the nodes R.
Begin(o, e, R) ==
  /\ current' = [current EXCEPT ![o] = {e}]
  /\ ready' = [ready EXCEPT ![o] = R]
  /\ UNCHANGED <<batch, due, sent>>

Handling(o, e) == e \in batch[o] /\ current[o] = {}

\* WorkflowTriggerConsumer: readiness is read in a transaction of its own
\* that takes no lock; the dispatches follow in others.
HandleTrigger(o, e) ==
  /\ Handling(o, e)
  /\ e \in TriggerEntry
  /\ Begin(o, e, ReadyNodes(nodeStatus))
  /\ UNCHANGED <<dbVars, streamVars, caller, readerVars, job, faultVars>>

-----------------------------------------------------------------------------
(***************************************************************************)
(* TaskCompletionService.process: one transaction under the lock of the    *)
(* execution row.                                                          *)
(***************************************************************************)
Completion(o, e) ==
  Handling(o, e) /\ e \in CompletionEntry /\ CompletionParses(e)

\* The ValueError of from_stream_fields leaves the consumer and the loop.
UnreadableCompletion(o, e) ==
  /\ Handling(o, e)
  /\ e \in CompletionEntry
  /\ ~CompletionParses(e)
  /\ Down(o)
  /\ UNCHANGED <<dbVars, streamVars, caller, readerVars, job, faultVars>>

\* The retry repository writes the outcome of e into the attempt.
Recorded(e) ==
  IF e.ok THEN SuccessIsNew(AttemptOf(e), e.run)
          ELSE ~FailureIsDuplicate(AttemptOf(e), e.run)

RecordOutcome(e) ==
  /\ attempt' = [attempt EXCEPT ![e.node][e.attempt] =
       IF ~Recorded(e) THEN @
       ELSE IF e.ok THEN RecordSuccess(@, e.run) ELSE RecordFailure(@, e.run)]
  /\ task' = [task EXCEPT ![e.node] =
       IF ~Recorded(e) THEN @ ELSE IF e.ok THEN "completed" ELSE "failed"]

Cause(e) == <<e.node, e.attempt, e.run>>

NodeEvent(n, st, e) ==
  [subject |-> "node", node |-> n, status |-> st, cause |-> Cause(e)]

WorkflowEvent(st, e) ==
  [subject |-> "workflow", status |-> st, cause |-> Cause(e)]

\* Mutant: the workflow event is written without looking at the row count of
\* the conditional update.
WorkflowEventsAlways(wf, st, e) ==
  IF SomeFailed(st) THEN {WorkflowEvent("FAILED", e)}
  ELSE IF AllCompleted(st) THEN {WorkflowEvent("COMPLETED", e)} ELSE {}

\* The row that finalization writes when its update took effect.
WorkflowEvents(wf, st, e) ==
  IF Finalized(wf, st) # wf THEN {WorkflowEvent(Finalized(wf, st), e)} ELSE {}

\* Mutant: readiness is evaluated on the statuses read before the update.
ReadyBeforeUpdate(before, after, st) ==
  IF st = "COMPLETED" THEN ReadyNodes(before) ELSE {}

\* Readiness is evaluated only after a success.
NewlyReady(before, after, st) ==
  IF st = "COMPLETED" THEN ReadyNodes(after) ELSE {}

\* The node update took effect: failure propagation, lifecycle rows,
\* readiness and finalization, all in the same transaction.
FinishNode(o, e, st) ==
  LET own     == [nodeStatus EXCEPT ![e.node] = st]
      blocked == IF st = "FAILED" THEN FailedDependants(own) ELSE {}
      after   == FailPending(own, blocked)
  IN  /\ nodeStatus' = after
      /\ wfStatus' = Finalized(wfStatus, after)
      /\ lifecycle' = lifecycle
           \cup {NodeEvent(n, "FAILED", e) : n \in blocked}
           \cup {NodeEvent(e.node, st, e)}
           \cup WorkflowEvents(wfStatus, after, e)
      /\ Begin(o, e, NewlyReady(nodeStatus, after, st))

\* Mutant: the node is updated whatever its status.
NodeStarted(e) == nodeStatus[e.node] # "PENDING"

\* UPDATE node_executions ... WHERE status = 'running' matches.
NodeRunning(e) == nodeStatus[e.node] = "RUNNING"

CompleteNode(o, e) ==
  /\ Completion(o, e)
  /\ e.ok
  /\ NodeRunning(e)
  /\ RecordOutcome(e)
  /\ FinishNode(o, e, "COMPLETED")
  /\ UNCHANGED <<outbox, streamVars, caller, readerVars, job, faultVars>>

FailNode(o, e) ==
  /\ Completion(o, e)
  /\ ~e.ok /\ Recorded(e) /\ RetriesExhausted(e.attempt)
  /\ NodeRunning(e)
  /\ RecordOutcome(e)
  /\ FinishNode(o, e, "FAILED")
  /\ UNCHANGED <<outbox, streamVars, caller, readerVars, job, faultVars>>

\* RETRY_SCHEDULED returns before the node is looked at.  The insert of the
\* next attempt never meets an existing row (RetryChain).
ScheduleRetry(o, e) ==
  /\ Completion(o, e)
  /\ ~e.ok /\ Recorded(e) /\ ~RetriesExhausted(e.attempt)
  /\ attempt' = [attempt EXCEPT
       ![e.node][e.attempt] = RecordFailure(@, e.run),
       ![e.node][e.attempt + 1] = ScheduledAttempt]
  /\ task' = [task EXCEPT ![e.node] = "retry_scheduled"]
  /\ Begin(o, e, {})
  /\ UNCHANGED <<wfStatus, nodeStatus, outbox, lifecycle, streamVars, caller,
                 readerVars, job, faultVars>>

\* DUPLICATE: the node is left alone, but what the retry repository wrote is
\* committed.  Had the node never been started, process() would raise, roll
\* back and take the orchestrator down.
IgnoreCompletion(o, e) ==
  /\ Completion(o, e)
  /\ ~NodeRunning(e) \/ ~(e.ok \/ Recorded(e))
  /\ ~(~e.ok /\ Recorded(e) /\ ~RetriesExhausted(e.attempt))
  /\ IF Recorded(e) /\ nodeStatus[e.node] = "PENDING"
       THEN Down(o) /\ UNCHANGED <<attempt, task>>
       ELSE Begin(o, e, {}) /\ RecordOutcome(e)
  /\ UNCHANGED <<wfStatus, nodeStatus, outbox, lifecycle, streamVars, caller,
                 readerVars, job, faultVars>>

-----------------------------------------------------------------------------
(***************************************************************************)
(* RedisNodeTaskDispatcher.dispatch, one transaction per ready node under  *)
(* the lock of the execution row.  It trusts the caller that the           *)
(* dependencies are completed and looks only for failed ones.              *)
(***************************************************************************)
DependencyFailed(n) == \E d \in Deps[n] : nodeStatus[d] = "FAILED"

\* Mutant: the node is claimed whatever its status.
ClaimableAlways(n) == nodeStatus[n] \in NodeStatus

\* claim_pending_nodes matches the row.
Claimable(n) == nodeStatus[n] = "PENDING"

\* Mutant: the logical task is written without its first attempt.
RegisterTaskOnly(n) ==
  task' = [task EXCEPT ![n] = "running"] /\ UNCHANGED attempt

\* Both inserts leave an existing row alone.
RegisterInitialTask(n) ==
  /\ task' = [task EXCEPT ![n] = IF @ = "none" THEN "running" ELSE @]
  /\ attempt' = [attempt EXCEPT
       ![n][1] = IF @.status = "none" THEN InitialAttempt ELSE @]

Dispatched(o, n) ==
  /\ n \in ready[o]
  /\ ready' = [ready EXCEPT ![o] = @ \ {n}]
  /\ UNCHANGED <<batch, current, due, sent>>

DispatchNode(o, n) ==
  /\ Dispatched(o, n)
  /\ IF DependencyFailed(n)
       THEN /\ nodeStatus' = FailPending(nodeStatus, {n})
            /\ UNCHANGED <<task, attempt, outbox>>
       ELSE /\ n \notin Unresolvable
            /\ Claimable(n)
            /\ nodeStatus' = [nodeStatus EXCEPT ![n] = "RUNNING"]
            /\ RegisterInitialTask(n)
            /\ outbox' = outbox \cup {[kind |-> "task", node |-> n]}
  /\ UNCHANGED <<wfStatus, lifecycle, streamVars, caller, readerVars, job,
                 faultVars>>

\* ALREADY_STARTED: another replica, or an earlier entry, has claimed it.
SkipDispatch(o, n) ==
  /\ Dispatched(o, n)
  /\ ~DependencyFailed(n)
  /\ n \notin Unresolvable
  /\ ~Claimable(n)
  /\ UNCHANGED <<dbVars, streamVars, caller, readerVars, job, faultVars>>

\* Mutant: the node is claimed, in a transaction of its own, before its
\* templates are resolved.
ClaimedFirst(o, n) ==
  /\ n \in ready[o]
  /\ ~DependencyFailed(n)
  /\ n \in Unresolvable
  /\ Down(o)
  /\ nodeStatus' = [nodeStatus EXCEPT ![n] = "RUNNING"]
  /\ UNCHANGED <<wfStatus, task, attempt, outbox, lifecycle, streamVars,
                 caller, readerVars, job, faultVars>>

\* TemplateResolutionError: the transaction rolls back and the exception,
\* which is no RedisError, ends the orchestrator process.
DispatchRaises(o, n) ==
  /\ n \in ready[o]
  /\ ~DependencyFailed(n)
  /\ n \in Unresolvable
  /\ Down(o)
  /\ UNCHANGED <<dbVars, streamVars, caller, readerVars, job, faultVars>>

\* XACK after the dispatches.
AckEntry(o) ==
  /\ current[o] # {}
  /\ ready[o] = {}
  /\ batch' = [batch EXCEPT ![o] = @ \ current[o]]
  /\ current' = [current EXCEPT ![o] = {}]
  /\ UNCHANGED <<dbVars, streamVars, caller, readerVars, ready, due, sent,
                 job, faultVars>>

-----------------------------------------------------------------------------
(***************************************************************************)
(* publish_due_retries: read without a lock, then XADD and mark each one.  *)
(***************************************************************************)
DueRetries ==
  {r \in RetryKey : RetryDue(attempt[r[1]][r[2]])}

ReadDueRetries(o, R) ==
  /\ Polling(o)
  /\ R # {} /\ R \subseteq DueRetries
  /\ due' = [due EXCEPT ![o] = R]
  /\ UNCHANGED <<dbVars, streamVars, caller, readerVars, batch, current,
                 ready, sent, job, faultVars>>

PublishRetry(o, r) ==
  /\ r \in due[o]
  /\ sent[o] = {}
  /\ AddTask(r[1], r[2])
  /\ sent' = [sent EXCEPT ![o] = {r}]
  /\ UNCHANGED <<dbVars, events, completions, pendingTasks, deadLetters,
                 caller, readerVars, batch, current, ready, due, job,
                 faultVars>>

MarkRetry(o, r) ==
  /\ r \in sent[o]
  /\ attempt' = [attempt EXCEPT ![r[1]][r[2]] = MarkRetryPublished(@)]
  /\ due' = [due EXCEPT ![o] = @ \ {r}]
  /\ sent' = [sent EXCEPT ![o] = {}]
  /\ UNCHANGED <<wfStatus, nodeStatus, task, outbox, lifecycle, streamVars,
                 caller, readerVars, batch, current, ready, job, faultVars>>

-----------------------------------------------------------------------------
\* The process dies in the middle of a piece of work and is restarted.
CrashOrchestrator(o) ==
  /\ ~Polling(o)
  /\ orchCrashes < MaxOrchCrashes
  /\ Down(o)
  /\ orchCrashes' = orchCrashes + 1
  /\ UNCHANGED <<dbVars, streamVars, caller, readerVars, job, workerCrashes,
                 stalls>>

\* What a running orchestrator does.
OrchestratorStep(o) ==
  \/ \E m \in OutboxRow : PublishOutbox(o, m)
  \/ ReadEvents(o)
  \/ ReadCompletions(o)
  \/ \E e \in batch[o] : HandleTrigger(o, e)
  \/ \E e \in batch[o] : CompleteNode(o, e)
  \/ \E e \in batch[o] : FailNode(o, e)
  \/ \E e \in batch[o] : ScheduleRetry(o, e)
  \/ \E e \in batch[o] : IgnoreCompletion(o, e)
  \/ \E e \in batch[o] : UnreadableCompletion(o, e)
  \/ \E n \in Node : DispatchNode(o, n)
  \/ \E n \in Node : SkipDispatch(o, n)
  \/ \E n \in Node : DispatchRaises(o, n)
  \/ AckEntry(o)
  \/ \E R \in SUBSET DueRetries : ReadDueRetries(o, R)
  \/ \E r \in RetryKey : PublishRetry(o, r)
  \/ \E r \in RetryKey : MarkRetry(o, r)

OrchestratorFault(o) ==
  \/ \E m \in OutboxRow : PublishOutboxAndCrash(o, m)
  \/ CrashOrchestrator(o)

=============================================================================
