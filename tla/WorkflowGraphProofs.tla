------------------------ MODULE WorkflowGraphProofs ------------------------
(***************************************************************************)
(* The graph.  DependencyOrder, NoStrandedDependant and OutcomeAgrees are  *)
(* not inductive: a replica dispatches from a set computed transactions    *)
(* ago, so the set must be known to stay valid, and a node may only start  *)
(* in an execution that was triggered.                                     *)
(***************************************************************************)
EXTENDS WorkflowTypeProofs

\* Whatever happens between the computation of a ready set and the dispatch
\* of its nodes, their dependencies are completed.
ReadySatisfied ==
  \A o \in Orchestrator : \A n \in ready[o] : DependencySatisfied(nodeStatus, n)

\* Before the trigger nothing of the execution has moved.
Untouched ==
  wfStatus = "PENDING" =>
    /\ \A n \in Node : nodeStatus[n] = "PENDING"
    /\ outbox \cap TriggerRow = {}
    /\ events = {}
    /\ \A o \in Orchestrator : batch[o] \cap TriggerEntry = {} /\ ready[o] = {}

GraphOK == DependencyOrder /\ NoStrandedDependant /\ OutcomeAgrees

GraphInv == TypeOK /\ ReadySatisfied /\ Untouched /\ GraphOK

-----------------------------------------------------------------------------
(***************************************************************************)
(* Failure propagation                                                     *)
(***************************************************************************)
\* The collected set is itself closed.
LEMMA FailedDependantsClosed ==
  ASSUME NEW st
  PROVE  ClosedUnderFailure(st, FailedDependants(st))
<1> SUFFICES ASSUME NEW n \in Node, st[n] = "PENDING", NEW d \in Deps[n],
                    st[d] = "FAILED" \/ d \in FailedDependants(st)
             PROVE  n \in FailedDependants(st)
  BY DEF ClosedUnderFailure
<1> SUFFICES ASSUME NEW S \in SUBSET Node, ClosedUnderFailure(st, S)
             PROVE  n \in S
  BY DEF FailedDependants
<1>1. st[d] = "FAILED" \/ d \in S
  BY DEF FailedDependants
<1> QED
  BY <1>1 DEF ClosedUnderFailure

\* Every collected node has a failed or collected dependency: the walk fails
\* no node without a reason.
LEMMA FailedDependantsJustified ==
  ASSUME NEW st, NEW n \in FailedDependants(st)
  PROVE  \E d \in Deps[n] : st[d] = "FAILED" \/ d \in FailedDependants(st)
<1> DEFINE F == FailedDependants(st)
<1>1. n \in Node /\ F \ {n} \in SUBSET Node
  BY DEF FailedDependants
<1> SUFFICES ASSUME ~\E d \in Deps[n] : st[d] = "FAILED" \/ d \in F
             PROVE  FALSE
  OBVIOUS
<1>2. ClosedUnderFailure(st, F)
  BY FailedDependantsClosed
<1>3. ClosedUnderFailure(st, F \ {n})
  <2> HIDE DEF F
  <2> QED
    BY <1>2 DEF ClosedUnderFailure
<1>4. n \in F \ {n}
  BY <1>1, <1>3 DEF FailedDependants
<1> QED
  BY <1>4

\* After the propagation no pending node has a failed dependency.
LEMMA PropagationComplete ==
  ASSUME NEW st \in [Node -> NodeStatus],
         NEW n \in Node, NEW d \in Deps[n],
         FailPending(st, FailedDependants(st))[n] = "PENDING"
  PROVE  FailPending(st, FailedDependants(st))[d] # "FAILED"
<1> DEFINE F == FailedDependants(st)
<1>1. d \in Node
  BY DepsAssumption
<1>2. st[n] = "PENDING" /\ n \notin F
  BY DEF FailPending
<1>3. ClosedUnderFailure(st, F)
  BY FailedDependantsClosed
<1> HIDE DEF F
<1>4. st[d] # "FAILED" /\ d \notin F
  BY <1>2, <1>3 DEF ClosedUnderFailure
<1> QED
  BY <1>1, <1>4 DEF FailPending, F

-----------------------------------------------------------------------------
(***************************************************************************)
(* The steps that write node statuses                                      *)
(***************************************************************************)
\* A step that leaves the statuses alone, adds no ready node, and brings no
\* trigger about before the trigger request, keeps the invariant.
LEMMA GraphStutter ==
  ASSUME GraphInv, TypeOK', UNCHANGED <<wfStatus, nodeStatus>>,
         \A o \in Orchestrator : ready'[o] \subseteq ready[o],
         wfStatus = "PENDING" =>
           /\ outbox' \cap TriggerRow = {}
           /\ events' = {}
           /\ \A o \in Orchestrator : batch'[o] \cap TriggerEntry = {}
  PROVE  GraphInv'
<1>1. ReadySatisfied'
  BY DEF GraphInv, ReadySatisfied, DependencySatisfied
<1>2. Untouched'
  BY DEF GraphInv, Untouched
<1>3. GraphOK'
  BY DEF GraphInv, GraphOK, DependencyOrder, NoStrandedDependant,
         OutcomeAgrees, SomeFailed, AllCompleted, DependencySatisfied
<1> QED
  BY <1>1, <1>2, <1>3 DEF GraphInv

\* The trigger and completion entries of a batch are told apart by kind.
LEMMA KindsDisjoint ==
  TriggerRow \cap TaskRow = {} /\ TriggerEntry \cap CompletionEntry = {}
BY DEF TriggerRow, TaskRow, TriggerEntry, CompletionEntry

\* A node that a completion finds RUNNING belongs to an execution that was
\* triggered and has not completed.
LEMMA RunningNodeExecution ==
  ASSUME GraphInv, NEW n \in Node, nodeStatus[n] = "RUNNING"
  PROVE  wfStatus \in {"RUNNING", "FAILED"}
<1>1. wfStatus # "PENDING"
  BY DEF GraphInv, Untouched
<1>2. wfStatus # "COMPLETED"
  BY DEF GraphInv, GraphOK, OutcomeAgrees, AllCompleted
<1> QED
  BY <1>1, <1>2 DEF GraphInv, TypeOK, DatabaseTypeOK, WorkflowStatus

\* What the node statuses look like after FinishNode: the node has its new
\* status, pending nodes may have failed, and nothing else has changed.
LEMMA FinishNodeStatuses ==
  ASSUME GraphInv, NEW o \in Orchestrator, NEW e \in CompletionEntry,
         NEW st \in Terminal, FinishNode(o, e, st), NodeRunning(e)
  PROVE  /\ e.node \in Node /\ nodeStatus[e.node] = "RUNNING"
         /\ nodeStatus' \in [Node -> NodeStatus]
         /\ nodeStatus'[e.node] = st
         /\ \A m \in Node \ {e.node} :
              \/ nodeStatus'[m] = nodeStatus[m]
              \/ nodeStatus[m] = "PENDING" /\ nodeStatus'[m] = "FAILED"
                   /\ st = "FAILED"
         /\ \A m \in Node : nodeStatus'[m] = "PENDING" =>
              \A d \in Deps[m] : nodeStatus'[d] # "FAILED"
         /\ st = "FAILED" =>
              \A m \in Node \ {e.node} : nodeStatus'[m] # nodeStatus[m] =>
                \E d \in Deps[m] : nodeStatus'[d] = "FAILED"
         /\ wfStatus' = Finalized(wfStatus, nodeStatus')
         /\ ready' = [ready EXCEPT ![o] = IF st = "COMPLETED"
                                          THEN ReadyNodes(nodeStatus') ELSE {}]
<1> DEFINE own     == [nodeStatus EXCEPT ![e.node] = st]
           blocked == IF st = "FAILED" THEN FailedDependants(own) ELSE {}
           after   == FailPending(own, blocked)
<1>1. e.node \in Node /\ nodeStatus[e.node] = "RUNNING"
  BY DEF CompletionEntry, NodeRunning
<1>2. nodeStatus \in [Node -> NodeStatus]
  BY DEF GraphInv, TypeOK, DatabaseTypeOK
<1>3. st = "COMPLETED" \/ st = "FAILED"
  BY DEF Terminal
<1>4. own \in [Node -> NodeStatus]
  BY <1>2, <1>3, Zenon DEF NodeStatus
<1>5. after \in [Node -> NodeStatus]
  BY <1>4, FailPendingType, Zenon
<1>6. nodeStatus' = after /\ wfStatus' = Finalized(wfStatus, after)
        /\ ready' = [ready EXCEPT ![o] = NewlyReady(nodeStatus, after, st)]
  BY DEF FinishNode, Begin
<1>7. own[e.node] = st /\ \A m \in Node \ {e.node} : own[m] = nodeStatus[m]
  BY <1>1, <1>2
<1>8. \A m \in Node : after[m] = IF m \in blocked /\ own[m] = "PENDING"
                                THEN "FAILED" ELSE own[m]
  BY DEF FailPending
<1>9. st = "COMPLETED" => blocked = {}
  OBVIOUS
<1>10. ASSUME NEW m \in Node, after[m] = "PENDING", NEW d \in Deps[m]
       PROVE  after[d] # "FAILED"
  <2>1. CASE st = "FAILED"
    BY <1>4, <1>10, <2>1, PropagationComplete, Zenon
  <2>2. CASE st = "COMPLETED"
    <3>1. d \in Node
      BY DepsAssumption
    <3>2. after[m] = own[m] /\ after[d] = own[d]
      BY <1>8, <1>9, <2>2, <3>1, Zenon
    <3>3. nodeStatus[m] = "PENDING"
      BY <1>1, <1>7, <1>10, <2>2, <3>2
    <3>4. nodeStatus[d] # "FAILED"
      BY <1>10, <3>3 DEF GraphInv, GraphOK, NoStrandedDependant
    <3> QED
      BY <1>7, <2>2, <3>1, <3>2, <3>4
  <2> QED
    BY <1>3, <2>1, <2>2
<1>11. ASSUME st = "FAILED", NEW m \in Node \ {e.node},
              after[m] # nodeStatus[m]
       PROVE  \E d \in Deps[m] : after[d] = "FAILED"
  <2>1. m \in FailedDependants(own)
    BY <1>7, <1>8, <1>11, Zenon
  <2>2. PICK d \in Deps[m] : own[d] = "FAILED" \/ d \in FailedDependants(own)
    BY <2>1, FailedDependantsJustified, Zenon
  <2>3. d \in Node /\ (d \in FailedDependants(own) => own[d] = "PENDING")
    BY DepsAssumption DEF FailedDependants
  <2> QED
    BY <1>8, <1>11, <2>2, <2>3, Zenon
<1> HIDE DEF after, blocked, own
<1>12. \A m \in Node \ {e.node} :
         \/ after[m] = nodeStatus[m]
         \/ nodeStatus[m] = "PENDING" /\ after[m] = "FAILED" /\ st = "FAILED"
  BY <1>3, <1>7, <1>8, <1>9, Zenon
<1>13. after[e.node] = st
  BY <1>1, <1>3, <1>7, <1>8
<1>14. NewlyReady(nodeStatus, after, st)
         = IF st = "COMPLETED" THEN ReadyNodes(after) ELSE {}
  BY DEF NewlyReady
<1> QED
  BY <1>1, <1>5, <1>6, <1>10, <1>11, <1>12, <1>13, <1>14

\* A completion that finishes a node keeps the invariant.
LEMMA FinishNodeGraph ==
  ASSUME GraphInv, TypeOK', NEW o \in Orchestrator, NEW e \in CompletionEntry,
         NEW st \in Terminal, FinishNode(o, e, st), NodeRunning(e)
  PROVE  GraphInv'
<1>1. wfStatus \in {"RUNNING", "FAILED"}
  BY FinishNodeStatuses, RunningNodeExecution
<1>2. wfStatus' \in {"RUNNING", "FAILED", "COMPLETED"}
  BY <1>1, FinishNodeStatuses DEF Finalized
<1>3. \A m \in Node : nodeStatus[m] = "COMPLETED" => nodeStatus'[m] = "COMPLETED"
  BY FinishNodeStatuses
<1>4. \A m \in Node : nodeStatus[m] = "FAILED" => nodeStatus'[m] = "FAILED"
  BY FinishNodeStatuses
<1>5. ReadySatisfied'
  <2> SUFFICES ASSUME NEW p \in Orchestrator, NEW n \in ready'[p],
                      NEW d \in Deps[n]
               PROVE  nodeStatus'[d] = "COMPLETED"
    BY DEF ReadySatisfied, DependencySatisfied
  <2>1. ready \in [Orchestrator -> SUBSET Node]
    BY DEF GraphInv, TypeOK, ProcessTypeOK
  <2>2. CASE n \in ready[p]
    BY <1>3, <2>1, <2>2, DepsAssumption
       DEF GraphInv, ReadySatisfied, DependencySatisfied
  <2>3. CASE n \in ReadyNodes(nodeStatus')
    BY <2>3 DEF ReadyNodes, DependencySatisfied
  <2> QED
    BY <2>1, <2>2, <2>3, FinishNodeStatuses
<1>6. Untouched'
  BY <1>2 DEF Untouched
<1>7. DependencyOrder'
  <2> SUFFICES ASSUME NEW n \in Node, nodeStatus'[n] \in {"RUNNING", "COMPLETED"},
                      NEW d \in Deps[n]
               PROVE  nodeStatus'[d] = "COMPLETED"
    BY DEF DependencyOrder, DependencySatisfied
  <2>1. nodeStatus[n] \in {"RUNNING", "COMPLETED"}
    BY FinishNodeStatuses
  <2>2. nodeStatus[d] = "COMPLETED"
    BY <2>1 DEF GraphInv, GraphOK, DependencyOrder, DependencySatisfied
  <2> QED
    BY <1>3, <2>2, DepsAssumption
<1>8. NoStrandedDependant'
  BY FinishNodeStatuses DEF NoStrandedDependant
<1>9. OutcomeAgrees'
  <2>1. SomeFailed(nodeStatus) <=> wfStatus = "FAILED"
    BY DEF GraphInv, GraphOK, OutcomeAgrees
  <2>2. SomeFailed(nodeStatus) => SomeFailed(nodeStatus')
    BY <1>4 DEF SomeFailed
  <2>3. wfStatus' = Finalized(wfStatus, nodeStatus') /\ Node # {}
    BY FinishNodeStatuses
  <2>4. SomeFailed(nodeStatus') => ~AllCompleted(nodeStatus')
    BY DEF SomeFailed, AllCompleted
  <2>5. wfStatus' = "FAILED" <=> SomeFailed(nodeStatus')
    BY <1>1, <2>1, <2>2, <2>3 DEF Finalized
  <2>6. wfStatus' = "COMPLETED" <=> Node # {} /\ AllCompleted(nodeStatus')
    BY <1>1, <2>1, <2>2, <2>3, <2>4 DEF Finalized
  <2> QED
    BY <2>5, <2>6 DEF OutcomeAgrees, SomeFailed, AllCompleted
<1> QED
  BY <1>5, <1>6, <1>7, <1>8, <1>9 DEF GraphInv, GraphOK

\* A ready node has no failed dependency, so the branch of dispatch that
\* fails a node is never taken: every failure goes through FinishNode.
LEMMA ReadyNotBlocked ==
  ASSUME GraphInv, NEW o \in Orchestrator, NEW n \in ready[o]
  PROVE  ~DependencyFailed(n)
BY DEF GraphInv, ReadySatisfied, DependencySatisfied, DependencyFailed

\* A dispatch starts a node whose dependencies are completed.
LEMMA DispatchGraph ==
  ASSUME GraphInv, TypeOK', NEW o \in Orchestrator, NEW n \in Node,
         DispatchNode(o, n)
  PROVE  GraphInv'
<1>1. n \in ready[o] /\ ready' = [ready EXCEPT ![o] = @ \ {n}]
  BY DEF DispatchNode, Dispatched
<1>2. nodeStatus[n] = "PENDING" /\ nodeStatus' = [nodeStatus EXCEPT ![n] = "RUNNING"]
        /\ wfStatus' = wfStatus
  BY <1>1, ReadyNotBlocked DEF DispatchNode, Claimable
<1>3. nodeStatus \in [Node -> NodeStatus] /\ ready \in [Orchestrator -> SUBSET Node]
  BY DEF GraphInv, TypeOK, DatabaseTypeOK, ProcessTypeOK
<1>4. wfStatus # "PENDING"
  BY <1>1 DEF GraphInv, Untouched
<1>5. \A m \in Node : /\ nodeStatus'[m] = "COMPLETED" <=> nodeStatus[m] = "COMPLETED"
                      /\ nodeStatus'[m] = "FAILED" <=> nodeStatus[m] = "FAILED"
                      /\ nodeStatus'[m] = "PENDING" => nodeStatus[m] = "PENDING"
  BY <1>2, <1>3
<1>6. \A p \in Orchestrator : ready'[p] \subseteq ready[p]
  BY <1>1, <1>3
<1>7. ReadySatisfied'
  <2> SUFFICES ASSUME NEW p \in Orchestrator, NEW m \in ready'[p],
                      NEW d \in Deps[m]
               PROVE  nodeStatus'[d] = "COMPLETED"
    BY DEF ReadySatisfied, DependencySatisfied
  <2>1. m \in Node /\ nodeStatus[d] = "COMPLETED"
    BY <1>3, <1>6 DEF GraphInv, ReadySatisfied, DependencySatisfied
  <2> QED
    BY <1>5, <2>1, DepsAssumption
<1>8. Untouched'
  BY <1>2, <1>4 DEF Untouched
<1>9. DependencyOrder'
  <2> SUFFICES ASSUME NEW m \in Node, nodeStatus'[m] \in {"RUNNING", "COMPLETED"},
                      NEW d \in Deps[m]
               PROVE  nodeStatus'[d] = "COMPLETED"
    BY DEF DependencyOrder, DependencySatisfied
  <2>1. m = n \/ nodeStatus[m] \in {"RUNNING", "COMPLETED"}
    BY <1>2, <1>3
  <2>2. nodeStatus[d] = "COMPLETED"
    BY <1>1, <2>1 DEF GraphInv, ReadySatisfied, GraphOK, DependencyOrder,
                      DependencySatisfied
  <2> QED
    BY <1>5, <2>2, DepsAssumption
<1>10. NoStrandedDependant'
  BY <1>5, DepsAssumption DEF GraphInv, GraphOK, NoStrandedDependant
<1>11. OutcomeAgrees'
  <2>1. SomeFailed(nodeStatus') <=> SomeFailed(nodeStatus)
    BY <1>5 DEF SomeFailed
  <2>2. AllCompleted(nodeStatus') <=> AllCompleted(nodeStatus)
    BY <1>5 DEF AllCompleted
  <2> QED
    BY <1>2, <2>1, <2>2 DEF GraphInv, GraphOK, OutcomeAgrees, SomeFailed,
                            AllCompleted
<1> QED
  BY <1>7, <1>8, <1>9, <1>10, <1>11 DEF GraphInv, GraphOK

-----------------------------------------------------------------------------
(***************************************************************************)
(* The steps of the processes                                              *)
(***************************************************************************)
\* A step that touches none of the variables of the invariant except the
\* memory that an orchestrator loses or has finished with.
LEMMA GraphQuiet ==
  ASSUME GraphInv, TypeOK', UNCHANGED <<wfStatus, nodeStatus, outbox, events>>,
         \A o \in Orchestrator : /\ ready'[o] \subseteq ready[o]
                                 /\ batch'[o] \subseteq batch[o]
  PROVE  GraphInv'
<1>1. wfStatus = "PENDING" =>
        /\ outbox' \cap TriggerRow = {}
        /\ events' = {}
        /\ \A o \in Orchestrator : batch'[o] \cap TriggerEntry = {}
  BY DEF GraphInv, Untouched
<1> QED
  BY <1>1, GraphStutter

\* A trigger request keeps the invariant.
LEMMA ApiGraph ==
  ASSUME GraphInv, TypeOK', NEW c \in Caller, ApiStep(c)
  PROVE  GraphInv'
<1>1. CASE TriggerExecution(c)
  <2>1. wfStatus = "PENDING" /\ wfStatus' = "RUNNING"
          /\ UNCHANGED <<nodeStatus, ready>>
    BY <1>1 DEF TriggerExecution, Transitions, orchVars
  <2>2. ~SomeFailed(nodeStatus) /\ (Node # {} => ~AllCompleted(nodeStatus))
    BY <2>1 DEF GraphInv, Untouched, SomeFailed, AllCompleted
  <2>3. OutcomeAgrees'
    BY <2>1, <2>2 DEF OutcomeAgrees, SomeFailed, AllCompleted
  <2>4. DependencyOrder' /\ NoStrandedDependant' /\ ReadySatisfied'
    BY <2>1 DEF GraphInv, GraphOK, DependencyOrder, NoStrandedDependant,
                ReadySatisfied, DependencySatisfied
  <2> QED
    BY <2>1, <2>3, <2>4 DEF GraphInv, GraphOK, Untouched
<1>2. CASE CheckTriggerable(c) \/ LoseTriggerRace(c)
  BY <1>2, GraphQuiet, Zenon
     DEF CheckTriggerable, LoseTriggerRace, dbVars, streamVars, orchVars
<1> QED
  BY <1>1, <1>2 DEF ApiStep

\* Publishing an outbox row, marked or not, keeps the invariant.
LEMMA PublishGraph ==
  ASSUME GraphInv, TypeOK', NEW m \in outbox,
         PublishTrigger(m) \/ PublishTask(m),
         UNCHANGED <<wfStatus, nodeStatus, batch, ready>>,
         outbox' \subseteq outbox
  PROVE  GraphInv'
<1>1. CASE PublishTrigger(m)
  <2>1. wfStatus # "PENDING"
    BY <1>1 DEF PublishTrigger, GraphInv, Untouched
  <2> QED
    BY <2>1, GraphStutter
<1>2. CASE PublishTask(m)
  <2>1. events' = events
    BY <1>2 DEF PublishTask
  <2> QED
    BY <2>1, GraphStutter, Zenon DEF GraphInv, Untouched
<1> QED
  BY <1>1, <1>2

\* Handling a trigger computes a set whose dependencies are completed.
LEMMA HandleTriggerGraph ==
  ASSUME GraphInv, TypeOK', NEW o \in Orchestrator, NEW e \in batch[o],
         HandleTrigger(o, e)
  PROVE  GraphInv'
<1>1. /\ UNCHANGED <<wfStatus, nodeStatus>>
      /\ ready' = [ready EXCEPT ![o] = ReadyNodes(nodeStatus)]
      /\ e \in TriggerEntry
  BY DEF HandleTrigger, Begin, dbVars
<1>2. wfStatus # "PENDING"
  BY <1>1 DEF GraphInv, Untouched
<1>3. ready \in [Orchestrator -> SUBSET Node]
  BY DEF GraphInv, TypeOK, ProcessTypeOK
<1>4. ReadySatisfied'
  <2> SUFFICES ASSUME NEW p \in Orchestrator, NEW n \in ready'[p],
                      NEW d \in Deps[n]
               PROVE  nodeStatus'[d] = "COMPLETED"
    BY DEF ReadySatisfied, DependencySatisfied
  <2>1. n \in ready[p] \/ n \in ReadyNodes(nodeStatus)
    BY <1>1, <1>3
  <2> QED
    BY <1>1, <2>1 DEF GraphInv, ReadySatisfied, ReadyNodes, DependencySatisfied
<1>5. GraphOK' /\ Untouched'
  BY <1>1, <1>2 DEF GraphInv, GraphOK, DependencyOrder, NoStrandedDependant,
     OutcomeAgrees, SomeFailed, AllCompleted, DependencySatisfied, Untouched
<1> QED
  BY <1>4, <1>5 DEF GraphInv

\* A completion keeps the invariant.
LEMMA CompletionGraph ==
  ASSUME GraphInv, TypeOK', NEW o \in Orchestrator, NEW e \in batch[o],
         CompleteNode(o, e) \/ FailNode(o, e) \/ ScheduleRetry(o, e)
           \/ IgnoreCompletion(o, e)
  PROVE  GraphInv'
<1>0. batch \in [Orchestrator -> SUBSET (TriggerEntry \cup CompletionEntry)]
        /\ ready \in [Orchestrator -> SUBSET Node]
  BY DEF GraphInv, TypeOK, ProcessTypeOK
<1>1. CASE CompleteNode(o, e)
  BY <1>1, FinishNodeGraph DEF CompleteNode, Completion, Terminal
<1>2. CASE FailNode(o, e)
  BY <1>2, FinishNodeGraph DEF FailNode, Completion, Terminal
<1>3. CASE ScheduleRetry(o, e) \/ IgnoreCompletion(o, e)
  <2>1. UNCHANGED <<wfStatus, nodeStatus, outbox, events>>
    BY <1>3 DEF ScheduleRetry, IgnoreCompletion, streamVars
  <2>2. Begin(o, e, {}) \/ Down(o)
    BY <1>3 DEF ScheduleRetry, IgnoreCompletion
  <2>3. \A p \in Orchestrator : ready'[p] \subseteq ready[p]
                               /\ batch'[p] \subseteq batch[p]
    BY <1>0, <2>2 DEF Begin, Down
  <2> QED
    BY <2>1, <2>3, GraphQuiet
<1> QED
  BY <1>1, <1>2, <1>3

\* Every step of a running orchestrator keeps the invariant.
LEMMA OrchestratorGraph ==
  ASSUME GraphInv, TypeOK', NEW o \in Orchestrator, OrchestratorStep(o)
  PROVE  GraphInv'
<1>0. batch \in [Orchestrator -> SUBSET (TriggerEntry \cup CompletionEntry)]
        /\ ready \in [Orchestrator -> SUBSET Node]
  BY DEF GraphInv, TypeOK, ProcessTypeOK
<1>1. ASSUME NEW m \in OutboxRow, PublishOutbox(o, m)
      PROVE  GraphInv'
  BY <1>1, PublishGraph DEF PublishOutbox, orchVars
<1>2. CASE ReadEvents(o)
  <2>1. wfStatus # "PENDING"
    BY <1>2 DEF ReadEvents, GraphInv, Untouched
  <2> QED
    BY <1>2, <2>1, GraphStutter DEF ReadEvents, dbVars
<1>3. CASE ReadCompletions(o)
  <2>1. completions \cap TriggerEntry = {}
    BY KindsDisjoint DEF GraphInv, TypeOK, StreamTypeOK
  <2>2. \A p \in Orchestrator :
          batch[p] \cap TriggerEntry = {} => batch'[p] \cap TriggerEntry = {}
    BY <1>0, <1>3, <2>1 DEF ReadCompletions
  <2>3. UNCHANGED <<wfStatus, nodeStatus, outbox, events, ready>>
    BY <1>3 DEF ReadCompletions, dbVars
  <2> QED
    BY <2>2, <2>3, GraphStutter DEF GraphInv, Untouched
<1>4. ASSUME NEW e \in batch[o], HandleTrigger(o, e)
      PROVE  GraphInv'
  BY <1>4, HandleTriggerGraph
<1>5. ASSUME NEW e \in batch[o],
             CompleteNode(o, e) \/ FailNode(o, e) \/ ScheduleRetry(o, e)
               \/ IgnoreCompletion(o, e)
      PROVE  GraphInv'
  BY <1>5, CompletionGraph
<1>6. ASSUME NEW n \in Node, DispatchNode(o, n)
      PROVE  GraphInv'
  BY <1>6, DispatchGraph
<1>7. ASSUME NEW n \in Node, SkipDispatch(o, n)
      PROVE  GraphInv'
  BY <1>0, <1>7, GraphQuiet DEF SkipDispatch, Dispatched, dbVars, streamVars
<1>8. ASSUME NEW n \in Node, DispatchRaises(o, n)
      PROVE  GraphInv'
  BY <1>0, <1>8, GraphQuiet DEF DispatchRaises, Down, dbVars, streamVars
<1>9. CASE AckEntry(o)
  BY <1>0, <1>9, GraphQuiet DEF AckEntry, dbVars, streamVars
<1>10. ASSUME NEW R \in SUBSET DueRetries, ReadDueRetries(o, R)
       PROVE  GraphInv'
  BY <1>10, GraphQuiet DEF ReadDueRetries, dbVars, streamVars
<1>11. ASSUME NEW r \in RetryKey, PublishRetry(o, r) \/ MarkRetry(o, r)
       PROVE  GraphInv'
  BY <1>11, GraphQuiet DEF PublishRetry, MarkRetry, dbVars, streamVars
<1>12. ASSUME NEW e \in batch[o], UnreadableCompletion(o, e)
       PROVE  GraphInv'
  BY <1>0, <1>12, GraphQuiet DEF UnreadableCompletion, Down, dbVars, streamVars
<1> QED
  BY <1>1, <1>2, <1>3, <1>4, <1>5, <1>6, <1>7, <1>8, <1>9, <1>10, <1>11,
     <1>12, Zenon DEF OrchestratorStep

\* A crash of an orchestrator keeps the invariant.
LEMMA OrchestratorFaultGraph ==
  ASSUME GraphInv, TypeOK', NEW o \in Orchestrator, OrchestratorFault(o)
  PROVE  GraphInv'
<1>0. batch \in [Orchestrator -> SUBSET (TriggerEntry \cup CompletionEntry)]
        /\ ready \in [Orchestrator -> SUBSET Node]
  BY DEF GraphInv, TypeOK, ProcessTypeOK
<1>1. ASSUME NEW m \in OutboxRow, PublishOutboxAndCrash(o, m)
      PROVE  GraphInv'
  BY <1>1, PublishGraph DEF PublishOutboxAndCrash, dbVars, orchVars
<1>2. CASE CrashOrchestrator(o)
  BY <1>0, <1>2, GraphQuiet DEF CrashOrchestrator, Down, dbVars, streamVars
<1> QED
  BY <1>1, <1>2 DEF OrchestratorFault

\* Workers write neither node statuses nor the execution's.
LEMMA WorkerQuiet ==
  ASSUME NEW s \in Slot, WorkerStep(s)
  PROVE  UNCHANGED <<wfStatus, nodeStatus, outbox, events, batch, ready>>
BY Zenon DEF WorkerStep, Deliver, Reclaim, Claim, ClaimRefused, ReplayResult,
       RenewLease, RenewalFails, DiscardResult, FinishHandler,
       RecordTaskResult, PublishCompletion, MarkTaskCompleted, AckTask,
       AnswerMalformed, DeadLetter, dbVars, streamVars, orchVars

\* The invariant is inductive.
LEMMA NextGraph ==
  ASSUME GraphInv, [Next]_vars
  PROVE  GraphInv'
<1>0. TypeOK'
  BY NextTypeOK DEF GraphInv
<1>1. ASSUME NEW c \in Caller, ApiStep(c)
      PROVE  GraphInv'
  BY <1>0, <1>1, ApiGraph
<1>2. ASSUME NEW o \in Orchestrator, OrchestratorStep(o)
      PROVE  GraphInv'
  BY <1>0, <1>2, OrchestratorGraph
<1>3. ASSUME NEW o \in Orchestrator, OrchestratorFault(o)
      PROVE  GraphInv'
  BY <1>0, <1>3, OrchestratorFaultGraph
<1>4. ASSUME NEW s \in Slot, WorkerStep(s)
      PROVE  GraphInv'
  BY <1>0, <1>4, WorkerQuiet, GraphQuiet
<1>5. ASSUME NEW w \in Worker, CrashWorker(w)
      PROVE  GraphInv'
  BY <1>0, <1>5, GraphQuiet DEF CrashWorker, dbVars, streamVars, orchVars
<1>6. ASSUME NEW n \in Node, NEW k \in AttemptNumber, ExpireLease(n, k)
      PROVE  GraphInv'
  BY <1>0, <1>6, GraphQuiet DEF ExpireLease, streamVars, orchVars
<1>7. CASE UNCHANGED engineVars
  BY <1>0, <1>7, GraphQuiet DEF engineVars
<1> QED
  BY <1>1, <1>2, <1>3, <1>4, <1>5, <1>6, <1>7, ReadersQuiet DEF Next

\* The invariant holds initially.
LEMMA InitGraph == Init => GraphInv
<1> SUFFICES ASSUME Init PROVE GraphInv
  OBVIOUS
<1>1. TypeOK
  BY InitTypeOK
<1>2. ReadySatisfied /\ Untouched
  BY DEF Init, ReadySatisfied, Untouched
<1>3. GraphOK
  <2>1. wfStatus = "PENDING" /\ \A n \in Node : nodeStatus[n] = "PENDING"
    BY DEF Init
  <2> QED
    BY <2>1, DepsAssumption
       DEF GraphOK, DependencyOrder, NoStrandedDependant, OutcomeAgrees,
           SomeFailed, AllCompleted
<1> QED
  BY <1>1, <1>2, <1>3 DEF GraphInv

\* The inductive invariant holds in every reachable state.
THEOREM GraphInvariant == Spec => []GraphInv
BY InitGraph, NextGraph, PTL DEF Spec

\* No node runs before its dependencies have completed, whatever replicas
\* read, crash or dispatch from stale sets (readiness.py, dispatch).
THEOREM DependencyOrderHolds == Spec => []DependencyOrder
<1>1. GraphInv => DependencyOrder
  BY DEF GraphInv, GraphOK
<1> QED
  BY <1>1, GraphInvariant, PTL

\* In every graph, the transaction that fails a node leaves no pending node
\* behind a failed one (failure.py, TaskCompletionService.process).
THEOREM NoStrandedDependantHolds == Spec => []NoStrandedDependant
<1>1. GraphInv => NoStrandedDependant
  BY DEF GraphInv, GraphOK
<1> QED
  BY <1>1, GraphInvariant, PTL

\* The execution row agrees with the node rows in every reachable state
\* (WorkflowFinalizationService.finalize).
THEOREM OutcomeAgreesHolds == Spec => []OutcomeAgrees
<1>1. GraphInv => OutcomeAgrees
  BY DEF GraphInv, GraphOK
<1> QED
  BY <1>1, GraphInvariant, PTL

=============================================================================
