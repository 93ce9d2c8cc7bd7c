# A TLA+ model of the workflow engine

The repository runs workflows that are directed acyclic graphs of tasks. An API
accepts definitions and trigger requests, orchestrator replicas decide which node
may run, workers run the handlers. PostgreSQL holds the state, Redis Streams carry
the messages, and a transactional outbox connects the two. This directory models
that system, checks it with TLC on small instances, and proves the central results
with TLAPS for every instance.

## 1. The system

| Part | Code (under `src/app/`) | State | Operations |
|---|---|---|---|
| Definition validation | `domain/validation/`, `services/workflow_definition_service.py` | the definition under validation | name, handler, configuration, id, uniqueness, reference and cycle rules |
| Templates | `domain/templates/parser.py`, `services/templates/resolver.py` | none | find the references in a config string, put outputs in their place |
| Trigger API | `services/workflow_trigger_service.py` | `workflow_executions.status` | read, conditional update, outbox row |
| Outbox | `messaging/outbox_publisher.py` | `outbox_events` | select and lock, XADD, commit, clean up |
| Trigger consumer | `orchestrator/workflow_trigger_consumer.py` | entries read | evaluate readiness, dispatch, XACK |
| Completion consumer | `orchestrator/task_completion_consumer.py`, `services/task_completion_service.py`, `services/workflow_finalization_service.py` | entries read, node and execution rows, attempts | record the outcome, schedule a retry or finish the node, propagate failure, finalize, dispatch, XACK |
| Dispatcher | `services/node_task_dispatcher.py` | node rows, attempts, outbox | claim a node and write its task; publish due retries |
| Attempts | `task_retry_repository.py`, `task_attempt_processing_repository.py` | `logical_tasks`, `task_attempts`, `task_retry_dispatches` | register, claim, renew, record, complete, fail, retry |
| Worker | `worker/main.py`, `worker/task_processor.py` | coroutines in flight | deliver, reclaim, claim, run, renew, record, publish, complete, XACK |
| Readers | `services/workflow_execution_status_service.py`, `workflow_execution_results_service.py` | a request half answered | read the execution row, read the node rows |
| Graph algorithms | `domain/dag/` | none | building the DAG, readiness, failure walk |

The hard behaviours: replicas that finish the parents of a join together; ready sets
computed in one transaction and used in later ones; messages delivered twice or
reclaimed while their handler still runs; a crash between any two of the steps of a
worker or an orchestrator; retries published before they are marked; leases that
lapse under a handler; a failure that finalizes the execution while siblings run;
messages that do not parse, in either direction; answers that join rows of two moments.
`PROJECT.json` lists them as hazards at the lines where they bite.

## 2. Modules

| Module | Models |
|---|---|
| `WorkflowDag` | statuses, `evaluate_ready_node_ids`, the set computed by `evaluate_failed_dependency_node_ids`, finalization |
| `TaskAttempts` | one attempt row (its retry dispatch row folded in) and the conditional updates of the two repositories |
| `EngineState` | constants and variables of the engine: rows, streams, process memory; message types |
| `Api` | concurrent trigger requests |
| `OrchestratorProcess` | a replica: outbox, both consumers, completion transaction, dispatch, due retries, crashes |
| `WorkerProcess` | worker coroutines: delivery, XAUTOCLAIM, claim to acknowledgement, renewal, crashes, passing time |
| `WorkflowSystem` | the composition, its fairness and the properties |
| `AbstractWorkflow` | what the engine promises about one execution |
| `FailurePropagation` | the deque walk of `failure.py`, round by round |
| `DefinitionValidation` | the rules of the validator, the cycle search round by round, the DAG built from an accepted definition |
| `NodeInputTemplates` | the template parser over tokens, the resolver over small JSON values, and reference definitions of both |
| `AcceptedDefinitions` | the checks of the handlers, and what becomes of an accepted definition when it is resolved and run |
| `ExecutionReaders` | status and results requests next to the running engine |
| `OutboxPublisher`, `OutboxDelivery` | concurrent publishers with batches and locks, and their promise |
| `MC*` | instances for TLC; `MCDefinitions` puts definitions and templates into one state space |
| `*Proofs` | theorems (section 6) |

### Correspondence to the code

*One transaction is one step.* `TaskCompletionService.process` and
`RedisNodeTaskDispatcher.dispatch` lock the execution row first, the attempt
repositories use row locks or single conditional updates. Where the code uses two
transactions, or a transaction and a Redis call, the model has two steps: the trigger
request reads (`CheckTriggerable`) and later updates; a completion is processed and
its ready nodes are dispatched one transaction at a time; a retry is read, published
and marked; a worker claims, runs, records, publishes, completes and acknowledges.

*Streams are sets of entries.* Replicas hold batches at the same time, so any order
of processing occurs. `MaxCopies` bounds live entries with equal content.

*The outbox in the engine.* `PublishOutbox` publishes and marks one row in one step.
`OutboxPublisher` has the batch, the locks and the single commit; it is shown to
implement `OutboxDelivery`. A row stays locked from the XADD to the commit, so nobody
can tell that the mark comes later, unless the process goes down in between:
`PublishOutboxAndCrash`.

*Lifecycle events* are kept as rows (`lifecycle`). Their delivery is left out: the
trigger consumer acknowledges and drops every event that is no trigger.

*Time.* `WORKER_TASK_CLAIM_LEASE_SECONDS` must be shorter than
`WORKER_RECLAIM_IDLE_MS`, and a lease is renewed after a third of its length. So a
message is reclaimed only when its claim was renewed or has lapsed (`Reclaimable`),
and a lease under a live coroutine lapses only by a stall, bounded by `MaxStalls`.
`LongHandlers = FALSE` says that handlers return before the first renewal.

*Faults.* `CrashWorker` drops all coroutines of a process: a crash, or a shutdown
whose timeout cancels them. `CrashOrchestrator` drops the batch, the ready nodes and
the due retries in memory. A `RedisError` that ends a round in `orchestrator/main.py`
(a failed XACK, for instance) and an exception that ends the process have the same
effect. Processes come back: `docker-compose.yml` says `restart: unless-stopped`.

*Messages that do not parse.* `Garbled` names the attempts whose task message lacks a
field. A worker answers such a message with a failure event of its own
(`AnswerMalformed`), or puts it aside as a dead letter when it does not even name its
attempt (`Anonymous`, `DeadLetter`). In the other direction, `Mute` names the handler
executions that raise with a blank message: `from_stream_fields` refuses the failure
event, and the exception ends the replica with the entry unacknowledged
(`UnreadableCompletion`).

*Readers.* Both endpoints read the execution row and then the node rows under READ
COMMITTED without a lock. The engine takes steps in between (`ReadExecution`,
`ReadNodes`). `Results` is what the results service makes of the two reads. Readers
change nothing the engine looks at, so the runs about other questions have none.

*Templates.* A string is a sequence of braces and runs of other text, of which some
have the form of a reference. That is all the parser tells apart. Outputs are nested
objects, lists and scalars; a scalar keeps its kind and its text, because the resolver
treats a whole-value reference and an embedded one differently.

*Definitions.* The request schema has made the fields of a node mandatory. A config
maps keys to JSON values; three keys matter to a rule or a handler, a fourth stands for
all others. `AcceptedDefinitions` runs an accepted definition wave by wave: the resolver
fills in the templates from the outputs so far, then the handler makes its own checks.
`call_external_service` checks `url` and `latency_ms` as submitted, `llm_service` checks
the prompt after it has been resolved.

*One execution.* Rows of different executions are disjoint, so one execution decides
every safety property stated here.

*Data left out of the engine.* Outputs, inputs, timestamps, delays and handler names;
error texts but for being blank. A node whose templates cannot be resolved is a member
of `Unresolvable`; its dispatch raises. When that happens is the subject of
`NodeInputTemplates` and `AcceptedDefinitions`.

Definitions whose comment begins with "Mutant:" are not part of the model. Each is a
plausible bug in the definition that follows it, and shows which property notices.

## 3. Runs

| Run | Instance | Properties | Distinct states |
|---|---|---|---|
| `FanIn` | a, b → c; 2 requests, 2 replicas, 1 worker; fair | `DependencyOrder`, `OutcomeAgrees`, `SingleTrigger`, `DispatchedOnce`, `ReadyNodesCarried`, `LifecycleMatchesState`, `ImplementsWorkflow`, `EventuallyFinished` | 121 300 |
| `FailureChain` | a → b → c, 2 attempts, c cannot be resolved; two messages that do not parse, one without identity; a worker crash; a client that polls; fair | `TypeOK`, `NoStrandedDependant`, `WorkConserved`, `ResultsWhole`, `FailureExplained`, `AnswersAdvance`, `FinishesUnlessStuck` | 133 252 |
| `WorkerCrash` | 1 node, 2 attempts, 2 workers, a worker crash; fair | `NodeFailureJustified`, `WorkConserved`, `AttemptProgress`, `EventuallyFinished` | 203 320 |
| `LeaseLapse` | 1 node, 2 workers, long handlers, one stall | `AttemptMutex`, `NodeSuccessJustified`, `TerminalStable` | 62 587 |
| `OrchestratorCrash` | 1 node, 2 attempts, an orchestrator crash; a rerun of attempt 1 fails with a blank message; symmetric in the two workers | `AttemptMutex`, `OutcomeAgrees`, `RetryChain` | 671 721 |
| `FailureWalk` | 6 nodes, two roots, every status assignment after a failure | `WalkCollectsBlocked`, `WalkTerminates` | 258 |
| `Definitions` | all definitions of 3 nodes with up to 2 dependencies each, of 2 nodes with equal or malformed ids, of 2 nodes with every handler and a variety of configs, 3 execution inputs and 4 references each; all strings of up to 10 tokens | `PathBookkeeping`, `CyclesAreReal`, `AcceptedIsDag`, `DagCoversDefinition`, `OnlyLateFaultsStop`, `ParserAcceptsGrammar`, `SegmentsReassemble`, `ResolvesToAddressed`, `SearchTerminates` | 313 078 |
| `Outbox` | 3 rows, 2 publishers, batches of 2, a crash, a Redis error | `DuplicatesAccounted`, `ExclusiveBatches`, `EventuallyPublished`, `ImplementsDelivery` | 8 924 |

What they show.

* `FanIn`: whichever replica handles which completion, the join starts once, after both
  parents, one trigger request wins, and the execution finishes. `DispatchedOnce` is
  about the whole history: a first task appears only when its node leaves PENDING, to
  which it never returns. One worker coroutine is enough because it is the replicas that
  race there.
* `FailureChain`: a failure reaches everything behind it in the same transaction. A
  message that does not parse is answered or set aside and never drops its node. A
  dispatch that raises leaves its node PENDING and ready, and there is no other reason
  to stay RUNNING than such a node or a dead letter. The two reads of a client never
  make a contradictory answer; their order matters: a mutant that reads the nodes first
  breaks `FailureExplained`.
* `WorkerCrash`: no running node loses its work, retries are not cut short, and the
  execution finishes. A claim passes to another worker only when its
  lease has lapsed, and only its owner stores a result. The second holds although
  `record_result` does not look at `claimed_by`; once a lease has lapsed under a handler
  it no longer does, so `AttemptProgress` claims it for `stalls = 0` only.
* `LeaseLapse`: a renewed lease keeps a second handler out, and a lapsed one still
  leaves the node with one outcome.
* `OrchestratorCrash`: repeated publications break no safety property; retries still form
  one chain.
* `Definitions`: the cycle search ends, and is right also on the ill-formed graphs other
  rules report. The DAG built from an accepted definition has its edges. In it a node
  whose dependencies complete completes too, unless it has one of three faults that no
  rule looks at: a template that cannot be filled in; a `latency_ms` that is neither
  null nor a non-negative integer; a prompt that is one reference, to a value that is no
  string. The parser accepts exactly the strings in which every delimiter belongs to a
  placeholder, its segments put together again are the string, and the resolver returns
  what a reference addresses.
* `FailureWalk` and `Outbox` check two components on their own.

Why the bounds are enough. Three nodes give a join and a two-level failure. Two
replicas, two workers or two requests give every pairwise race. Two attempts give a
retry and its exhaustion. `MaxRuns` and `MaxCopies` never bind: raising them from 3
to 6 leaves the state counts unchanged. Ten tokens hold two placeholders side by side,
the shortest string in which the scan must restart in the right place. One crash
reaches every crash point; two crashes are not explored. The symmetry of
`OrchestratorCrash` exchanges the workers together with their coroutines; nothing in
the model or in the three invariants names one of them, and the run has no liveness
property.

Deadlock is checked except where the system really may stop: after an orchestrator
crash, a raised dispatch or a dead letter (`OrchestratorCrash`, `FailureChain`) the
execution can be stranded, which `FinishesUnlessStuck` and section 5 are about.

## 4. Fairness

`FairSpec` assumes weak fairness of each trigger request, each replica, each worker
coroutine, and of the expiry of a lease nobody attends to. It is one condition per
process, not per action: a process that is up keeps running its loop, and a round of
`orchestrator/main.py` visits the outbox, both streams and the due retries. Handlers
return: the registered ones are mocks that sleep and return or raise. Crashes and
stalls are never forced. The publisher, the failure walk and the cycle search are
loops of one process with weak fairness of their step.

## 5. Where the code and DESIGN.md disagree

Each has a run with a counterexample.

* `CrashStrandsExecution`. An orchestrator crash can leave the execution running for
  good, although every process keeps running. Its consumers read `>` only, so entries
  read before the crash stay in a pending list that nobody reads; and ready nodes pass
  from the completion transaction to the dispatch in memory, so a second delivery would
  not bring them back either.
* `BlankError`. An exception whose text is blank becomes a failure event that the
  orchestrator cannot parse. The replica stops on it, restarts, and never reads it
  again: the node runs forever and no retry is scheduled. Nothing crashed before.
* `LongHandlerCrash`. A message is reclaimed under a long handler, its claim refused
  and the message acknowledged. A later crash of that worker leaves the node running
  with nothing to recover it from.
* `RerunAfterResult`. The orchestrator records a failure before the worker marks the
  attempt completed. The mark raises, the message stays pending, and the failed
  attempt is claimed and run again. A second failure is ignored as a duplicate; a
  success completes the node, whatever its retry is doing.

## 6. Proofs

Proved for every graph, number of processes, attempt limit and fault bound. The
assumptions are the ones named in the modules: `Deps` maps nodes to sets of nodes,
each slot belongs to a worker, bounds are naturals, the attempt limit is at least one.
Acyclicity is not needed.

* `WorkflowTypeProofs`: `TypeCorrect`, `TypeOK` is inductive by itself.
* `WorkflowGraphProofs`: `DependencyOrderHolds`, `NoStrandedDependantHolds`,
  `OutcomeAgreesHolds`. They are not inductive: a replica dispatches from a set
  computed transactions ago. `GraphInv` adds that the dependencies of every node in a
  ready set are completed (`ReadySatisfied`) and that nothing has moved before the
  trigger (`Untouched`). Two lemmas carry the argument: the collected set is closed
  under failure (so no pending node is stranded), and every node in it has a failed
  or collected dependency (so no startable node is failed).
* `WorkflowRefinementProofs`: `EngineImplementsWorkflow`; under `GraphInv` every step
  is a step of `AbstractWorkflow` or leaves the statuses alone. `TerminalStableHolds`
  follows, and on it rest `ResultsWholeHolds`, `FailureExplainedHolds` and
  `AnswersAdvanceHolds`. Their invariant compares what a request has read with the
  rows as they are now: statuses only advance, so the nodes read later are at least as
  advanced as the execution read earlier.
* `WorkflowRecordProofs`, on top of `GraphInv`:
  * `SingleTriggerHolds`: only the conditional update takes an execution out of
    PENDING, and nothing takes it back.
  * `LifecycleMatchesStateHolds`: a row is written exactly when a status becomes
    terminal. The dispatcher's own failure branch writes none; it is never taken,
    because no node in a ready set has a failed dependency.
* `WorkflowAttemptProofs`: `RetryChainHolds` and `NodeFailureJustifiedHolds`.
  `AttemptInv` adds that rows never inserted are blank and that everything in flight
  (outbox rows, task entries, due retries, completions, jobs) is about an attempt that
  exists; completions carry an event id. With that, a failure is recorded for attempt k
  only while attempt k + 1 has no row, so the insert of the retry never meets one, and
  all other updates keep the set of rows and their failure events.
* `DefinitionSearchProofs`: `PathBookkeepingHolds` (active set, index, path and frames
  describe one path) and, from it, `ReportedCyclesClosed`: whatever is cut out of the
  path as a cycle is a closed walk of the graph, for every definition.
* `FailurePropagationProofs`: `WalkCorrect`. The walk returns the least closed set,
  which links the loop in `failure.py` to `FailedDependants` of the engine. The
  invariant says that the walk stays inside every closed set and that a dependant of
  a served node is no longer pending.
* `OutboxProofs`: `ExclusiveBatchesHolds`; `DuplicatesAccountedHolds`, where an entry
  is paid for in advance: copies of a row beyond the faults so far are at most one, and
  none while the row is unsent; `OutboxImplementsDelivery` with the invariant that a
  marked row has an entry on its stream.

Only model-checked: the liveness properties (fairness and ENABLED are beyond the
prover); `NodeSuccessJustified`, `AttemptMutex`, `AttemptProgress`, `WorkConserved`,
`ReadyNodesCarried` and `DispatchedOnce`, which hold under limits on faults or handler
lengths that a run sets; that an accepted definition is a DAG and that cycles are
reported whenever there are some (both need induction over paths); and the templates
and `OnlyLateFaultsStop`, which rest on recursive operators.

## 7. Not modelled

* The HTTP layer, message encoding beyond whether a message parses, logging,
  migrations, stream set-up, the superseded task processing table, the barriers of the
  integration tests.
* Handlers' computations: what a mock answers beyond the fields it returns, and the
  failures it can be told to simulate. One thing met on the way has no property: the
  `call_external_service` handler uses `url` from the raw handler configuration, in
  which a template is not resolved.
* Nothing relates the references of templates to the declared dependencies before
  dispatch. `OnlyLateFaultsStop` has this as one of its faults; in the engine
  `Unresolvable` stands for the outcome.
  Non-finite numbers are refused by the resolver (modelled), but cannot come out of
  JSONB.
* `RequiredNodeFieldsRule` cannot fire behind the request schema.
* An accepted definition without nodes stays RUNNING after its trigger, since only a
  completion finalizes; `OutcomeAgrees` says so by its `Node # {}`.
* Loss of Redis data, several executions that compete for worker slots, more than one
  crash per run.

## 8. Plan

Done: all state-changing parts of the engine and its readers, definitions and
templates, the runs above, and the theorems of section 6.

1. Prove: `AttemptMutex` from an invariant that ties a fresh or renewed lease to its
   running coroutine; `DispatchedOnce` and `WorkConserved` without orchestrator
   crashes.
2. Model: two crashes in one run; two executions that share worker slots, for the
   liveness of each.
