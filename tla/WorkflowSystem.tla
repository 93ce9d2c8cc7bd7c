--------------------------- MODULE WorkflowSystem ---------------------------
(***************************************************************************)
(* One workflow execution from its submission to its terminal status: the  *)
(* trigger requests, the clients that poll it, the orchestrator replicas   *)
(* and the workers over one PostgreSQL database and one Redis.             *)
(***************************************************************************)
EXTENDS Api, ExecutionReaders, OrchestratorProcess, WorkerProcess

TaskStatus == {"none", "running", "retry_scheduled", "completed", "failed"}

\* After WorkflowDefinitionService.submit: one PENDING execution row and one
\* PENDING row per node, in one transaction.
Init ==
  /\ wfStatus = "PENDING"
  /\ nodeStatus = [n \in Node |-> "PENDING"]
  /\ task = [n \in Node |-> "none"]
  /\ attempt = [n \in Node |-> [k \in AttemptNumber |-> NoAttempt]]
  /\ outbox = {} /\ lifecycle = {}
  /\ events = {} /\ completions = {} /\ tasks = {} /\ pendingTasks = {}
  /\ deadLetters = {}
  /\ caller = [c \in Caller |-> "idle"]
  /\ NothingRead
  /\ batch = [o \in Orchestrator |-> {}]
  /\ current = [o \in Orchestrator |-> {}]
  /\ ready = [o \in Orchestrator |-> {}]
  /\ due = [o \in Orchestrator |-> {}]
  /\ sent = [o \in Orchestrator |-> {}]
  /\ job = [s \in Slot |-> IdleJob]
  /\ orchCrashes = 0 /\ workerCrashes = 0 /\ stalls = 0

\* The execution is over and nobody has anything left to do.
Quiescent ==
  /\ \A c \in Caller : caller[c] \in {"accepted", "rejected"}
  /\ outbox = {} /\ events = {} /\ completions = {} /\ tasks = {}
  /\ pendingTasks = {}
  /\ \A o \in Orchestrator : Polling(o)
  /\ DueRetries = {}
  /\ \A s \in Slot : ~Busy(s)

\* Pollers that find nothing.
Done == Quiescent /\ wfStatus \in Terminal /\ UNCHANGED vars

Next ==
  \/ \E c \in Caller : ApiStep(c)
  \/ \E r \in Reader : Get(r)
  \/ \E o \in Orchestrator : OrchestratorStep(o)
  \/ \E o \in Orchestrator : OrchestratorFault(o)
  \/ \E s \in Slot : WorkerStep(s)
  \/ \E w \in Worker : CrashWorker(w)
  \/ \E n \in Node, k \in AttemptNumber : ExpireLease(n, k)
  \/ Done

Spec == Init /\ [][Next]_vars

(***************************************************************************)
(* Fairness.  A process that is up keeps running its loop and finishes the *)
(* piece of work it has started; its loop visits the outbox, both streams  *)
(* and the due retries on every round, and handlers return (the registered *)
(* ones are mocks that sleep and return).  Crashes and stalls are never    *)
(* forced.                                                                 *)
(***************************************************************************)
Fairness ==
  /\ \A c \in Caller : WF_vars(ApiStep(c))
  /\ \A o \in Orchestrator : WF_vars(OrchestratorStep(o))
  /\ \A s \in Slot : WF_vars(WorkerStep(s))
  /\ \A n \in Node, k \in AttemptNumber :
       WF_vars(~Attended(n, k) /\ ExpireLease(n, k))

FairSpec == Spec /\ Fairness

-----------------------------------------------------------------------------
(***************************************************************************)
(* Types                                                                   *)
(***************************************************************************)
DatabaseTypeOK ==
  /\ wfStatus \in WorkflowStatus
  /\ nodeStatus \in [Node -> NodeStatus]
  /\ task \in [Node -> TaskStatus]
  /\ attempt \in [Node -> [AttemptNumber -> AttemptRow]]
  /\ outbox \subseteq OutboxRow
  /\ lifecycle \subseteq LifecycleRow

StreamTypeOK ==
  /\ events \subseteq TriggerEntry
  /\ completions \subseteq CompletionEntry
  /\ tasks \subseteq TaskEntry
  /\ pendingTasks \subseteq TaskEntry
  /\ deadLetters \subseteq TaskEntry

ProcessTypeOK ==
  /\ caller \in [Caller -> CallerState]
  /\ batch \in [Orchestrator -> SUBSET (TriggerEntry \cup CompletionEntry)]
  /\ current \in [Orchestrator -> SUBSET (TriggerEntry \cup CompletionEntry)]
  /\ ready \in [Orchestrator -> SUBSET Node]
  /\ due \in [Orchestrator -> SUBSET RetryKey]
  /\ sent \in [Orchestrator -> SUBSET RetryKey]
  /\ job \in [Slot -> Job \cup {IdleJob}]
  /\ orchCrashes \in Nat /\ workerCrashes \in Nat /\ stalls \in Nat

\* Every variable keeps its type: rows and messages stay within the statuses
\* and keys the code defines, whatever the interleaving.
TypeOK == DatabaseTypeOK /\ StreamTypeOK /\ ProcessTypeOK

-----------------------------------------------------------------------------
(***************************************************************************)
(* The graph and the outcome                                               *)
(***************************************************************************)
\* A node is started only when every dependency has completed, whichever
\* replica computed its readiness and however stale that was at dispatch.
DependencyOrder ==
  \A n \in Node :
    nodeStatus[n] \in {"RUNNING", "COMPLETED"} => DependencySatisfied(nodeStatus, n)

\* DESIGN.md: "A failed dependency therefore cannot leave downstream nodes
\* waiting indefinitely": the transaction that fails a node also fails every
\* pending node behind it.
NoStrandedDependant ==
  \A n \in Node :
    nodeStatus[n] = "PENDING" => \A d \in Deps[n] : nodeStatus[d] # "FAILED"

\* The execution row always agrees with the node rows: it is FAILED exactly
\* when a node has failed, and COMPLETED exactly when all have completed (an
\* execution without nodes never gets there: no completion finalizes it).
OutcomeAgrees ==
  /\ wfStatus = "FAILED" <=> SomeFailed(nodeStatus)
  /\ wfStatus = "COMPLETED" <=> Node # {} /\ AllCompleted(nodeStatus)

\* A terminal status is never left: neither a late or repeated completion
\* nor a dispatch from stale readiness reopens a node or an execution.
TerminalStable ==
  [][/\ wfStatus \in Terminal => wfStatus' = wfStatus
     /\ \A n \in Node : nodeStatus[n] \in Terminal
                           => nodeStatus'[n] = nodeStatus[n]]_vars

\* However often a completion is delivered, each terminal node has exactly
\* one lifecycle event, with its status, and so has the execution.
LifecycleMatchesState ==
  /\ \A n \in Node :
       LET rows == {r \in lifecycle : r.subject = "node" /\ r.node = n}
       IN  IF nodeStatus[n] \in Terminal
             THEN /\ Cardinality(rows) = 1
                  /\ \A r \in rows : r.status = nodeStatus[n]
             ELSE rows = {}
  /\ LET rows == {r \in lifecycle : r.subject = "workflow"}
     IN  IF wfStatus \in Terminal
           THEN Cardinality(rows) = 1 /\ \A r \in rows : r.status = wfStatus
           ELSE rows = {}

\* Of all concurrent trigger requests exactly one is accepted: the one that
\* moved the execution out of PENDING.
SingleTrigger ==
  /\ Cardinality({k \in Caller : caller[k] = "accepted"}) <= 1
  /\ wfStatus = "PENDING" <=> \A k \in Caller : caller[k] # "accepted"

-----------------------------------------------------------------------------
(***************************************************************************)
(* Attempts and retries                                                    *)
(***************************************************************************)
Exists(n, k) == attempt[n][k].status # "none"

\* Attempts form a chain: a node has attempt 1 exactly when it was started,
\* and attempt k + 1 exactly when a failure was recorded for attempt k, so
\* no failure event schedules two retries or collides with an existing one.
RetryChain ==
  \A n \in Node :
    /\ Exists(n, 1) => nodeStatus[n] # "PENDING"
    /\ nodeStatus[n] \in {"RUNNING", "COMPLETED"} => Exists(n, 1)
    /\ \A k \in 1..(MaxAttempts - 1) :
         Exists(n, k + 1) <=> attempt[n][k].failure # 0

\* A node fails only after its last attempt failed, or unstarted because a
\* dependency failed: retries are never cut short.
NodeFailureJustified ==
  \A n \in Node :
    nodeStatus[n] = "FAILED" =>
      \/ attempt[n][MaxAttempts].failure # 0
      \/ ~Exists(n, 1) /\ \E d \in Deps[n] : nodeStatus[d] = "FAILED"

\* A completed node has an attempt whose stored result is a success: the
\* result a reader of the execution gets is one that a handler returned.
NodeSuccessJustified ==
  \A n \in Node :
    nodeStatus[n] = "COMPLETED" =>
      \E k \in AttemptNumber : attempt[n][k].completion # 0 /\ attempt[n][k].ok

\* The outbox rows and stream entries there are for the first attempt of n.
FirstTasks(n) ==
  Cardinality({m \in LiveTaskEntries : m.node = n /\ m.attempt = 1})
    + Cardinality({r \in outbox : r.kind = "task" /\ r.node = n})

\* Without an orchestrator crash the first attempt of a node is put on the
\* task stream at most once, although replicas dispatch the same ready node
\* from different completions: there is one more task for it, in the outbox or
\* on the stream, only when the node leaves PENDING, and it never gets back
\* there.  So a task that was acknowledged long ago is not sent again either.
DispatchedOnce ==
  [][\A n \in Node :
       /\ nodeStatus'[n] = "PENDING" => nodeStatus[n] = "PENDING"
       /\ IF nodeStatus[n] = "PENDING" /\ nodeStatus'[n] # "PENDING"
            THEN FirstTasks(n)' <= 1
            ELSE FirstTasks(n)' <= FirstTasks(n)]_vars

\* DESIGN.md: the atomic claim prevents "concurrent Worker processes from
\* executing" the same attempt, as long as no lease lapses under a handler.
AttemptMutex ==
  stalls = 0 =>
    \A s, t \in Slot :
      /\ At(s, "running") /\ At(t, "running")
      /\ job[s].entry.node = job[t].entry.node
      /\ job[s].entry.attempt = job[t].entry.attempt
      => s = t

\* DESIGN.md: "A completed duplicate delivery replays the persisted result
\* event and is acknowledged without invoking the handler again": no handler
\* runs for an attempt whose result is stored.
NoHandlerAfterResult ==
  \A s \in Slot : At(s, "running") => AttemptOf(job[s].entry).completion = 0

\* The owner of the claim on attempt k of node n stores its result.
OwnerRecords(n, k) ==
  \E s \in Slot :
    /\ At(s, "finished")
    /\ job[s].entry.node = n /\ job[s].entry.attempt = k
    /\ WorkerOf[s] = attempt[n][k].claimedBy
    /\ attempt'[n][k].completion = job[s].run

\* What is known of an attempt is never taken back: its failure is recorded
\* once and a published retry stays published.  A claim ends only by a result,
\* not by a late mark_retry_published or a repeated completion; it passes to
\* another worker only when its lease has lapsed; and as long as no lease has
\* lapsed under a handler, the result is that of the claim's owner, although
\* record_result does not look at claimed_by.
AttemptProgress ==
  [][\A n \in Node, k \in AttemptNumber :
       LET before == attempt[n][k]
           after  == attempt'[n][k]
       IN  /\ before.failure # 0 => after.failure = before.failure
           /\ before.dispatch = "published" => after.dispatch = "published"
           /\ before.status = "claimed"
                => \/ after.status = "claimed"
                   \/ /\ after.status = "result_recorded"
                      /\ stalls = 0 => OwnerRecords(n, k)
           /\ before.claimedBy \notin {NoWorker, after.claimedBy}
                => before.lease = "expired"]_vars

-----------------------------------------------------------------------------
(***************************************************************************)
(* Nothing is lost                                                         *)
(***************************************************************************)
LatestAttempt(n, k) ==
  Exists(n, k) /\ \A j \in AttemptNumber : j > k => ~Exists(n, j)

\* Entries that a replica has read and not yet processed.
Unprocessed == UNION {batch[o] \ current[o] : o \in Orchestrator}

\* Something will still bring a result of attempt k of node n, or a dead
\* letter tells of it.
Carried(n, k) ==
  \/ [kind |-> "task", node |-> n] \in outbox
  \/ RetryDue(attempt[n][k])
  \/ \E m \in tasks \cup pendingTasks : m.node = n /\ m.attempt = k
  \/ \E s \in Slot : /\ job[s].pc \in JobPc \ {"ack", "skip", "doomed"}
                     /\ job[s].entry.node = n /\ job[s].entry.attempt = k
  \/ \E e \in completions \cup Unprocessed :
       e.kind = "completion" /\ e.node = n /\ e.attempt = k
  \/ \E m \in deadLetters : m.node = n /\ m.attempt = k

\* A running node is never abandoned: its latest attempt is in the outbox,
\* scheduled, on the task stream or pending there, in the hands of a worker,
\* or its completion is on its way, or its message was put aside as a dead
\* letter, through every worker crash.
WorkConserved ==
  \A n \in Node, k \in AttemptNumber :
    nodeStatus[n] = "RUNNING" /\ LatestAttempt(n, k) => Carried(n, k)

TriggerUnhandled ==
  \/ \E r \in outbox : r.kind = "trigger"
  \/ \E e \in events \cup Unprocessed : e.kind = "trigger"

\* DESIGN.md: "Ready nodes are dispatched after the completion transaction":
\* in a triggered execution every ready node is in the hands of a replica
\* that will dispatch it, or the trigger has yet to be handled.
ReadyNodesCarried ==
  wfStatus # "PENDING" =>
    \A n \in ReadyNodes(nodeStatus) :
      TriggerUnhandled \/ \E o \in Orchestrator : n \in ready[o]

\* A triggered execution reaches a terminal status.
EventuallyFinished == wfStatus = "RUNNING" ~> wfStatus \in Terminal

\* What an execution may wait for in vain: a node whose templates cannot be
\* resolved has its turn, or a task of a running node is a dead letter.
Stuck ==
  \/ \E n \in Unresolvable : n \in ReadyNodes(nodeStatus)
  \/ \E m \in deadLetters : nodeStatus[m.node] = "RUNNING"

\* Whatever is malformed, an execution does not stay RUNNING for another reason
\* than these two, and the node it waits for can be told from the database: a
\* dispatch that raises leaves its node PENDING and ready, not RUNNING without
\* a task, and everything that was under way finishes.
FinishesUnlessStuck == []<>(wfStatus # "RUNNING" \/ Stuck)

-----------------------------------------------------------------------------
Abstract == INSTANCE AbstractWorkflow WITH wf <- wfStatus, node <- nodeStatus

\* The processes, streams, retries and faults together do nothing to an
\* execution that AbstractWorkflow does not allow: the status columns move
\* only by its Trigger, Start, Succeed and Fail steps.
ImplementsWorkflow == Abstract!Spec

=============================================================================
