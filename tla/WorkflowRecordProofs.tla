------------------------ MODULE WorkflowRecordProofs ------------------------
(***************************************************************************)
(* What the engine records beside the statuses: which trigger request was  *)
(* accepted, and the lifecycle rows.  Both rest on GraphInv.               *)
(***************************************************************************)
EXTENDS WorkflowGraphProofs, FiniteSetTheorems

-----------------------------------------------------------------------------
(***************************************************************************)
(* One accepted request                                                    *)
(***************************************************************************)
OneAccepted ==
  /\ \A j, k \in Caller : caller[j] = "accepted" /\ caller[k] = "accepted" => j = k
  /\ wfStatus = "PENDING" <=> \A k \in Caller : caller[k] # "accepted"

\* A completion or dispatch never leads an execution into or out of PENDING.
LEMMA OrchestratorKeepsPending ==
  ASSUME GraphInv, NEW o \in Orchestrator, OrchestratorStep(o)
  PROVE  caller' = caller /\ (wfStatus' = "PENDING" <=> wfStatus = "PENDING")
<1>1. ASSUME NEW e \in batch[o], CompleteNode(o, e) \/ FailNode(o, e)
      PROVE  caller' = caller /\ (wfStatus' = "PENDING" <=> wfStatus = "PENDING")
  <2>1. PICK st \in Terminal : FinishNode(o, e, st)
    BY <1>1 DEF CompleteNode, FailNode, Terminal
  <2>2. e \in CompletionEntry /\ NodeRunning(e) /\ caller' = caller
    BY <1>1 DEF CompleteNode, FailNode, Completion
  <2>3. nodeStatus[e.node] = "RUNNING" /\ e.node \in Node
          /\ wfStatus' = Finalized(wfStatus, nodeStatus')
    BY <2>1, <2>2, FinishNodeStatuses
  <2>4. wfStatus \in {"RUNNING", "FAILED"}
    BY <2>3, RunningNodeExecution
  <2> QED
    BY <2>2, <2>3, <2>4 DEF Finalized
<1>2. ASSUME ~\E e \in batch[o] : CompleteNode(o, e) \/ FailNode(o, e)
      PROVE  caller' = caller /\ wfStatus' = wfStatus
  BY <1>2, Zenon
     DEF OrchestratorStep, PublishOutbox, ReadEvents, ReadCompletions,
     HandleTrigger, ScheduleRetry, IgnoreCompletion, UnreadableCompletion,
     DispatchNode, SkipDispatch, DispatchRaises, AckEntry, ReadDueRetries,
     PublishRetry, MarkRetry, dbVars
<1> QED
  BY <1>1, <1>2

\* The other processes touch neither the execution's status nor a request.
LEMMA OthersKeepPending ==
  ASSUME \/ \E o \in Orchestrator : OrchestratorFault(o)
         \/ \E s \in Slot : WorkerStep(s)
         \/ \E w \in Worker : CrashWorker(w)
         \/ \E n \in Node, k \in AttemptNumber : ExpireLease(n, k)
  PROVE  UNCHANGED <<caller, wfStatus>>
<1>1. ASSUME NEW s \in Slot, WorkerStep(s)
      PROVE  UNCHANGED <<caller, wfStatus>>
  BY <1>1, Zenon
     DEF WorkerStep, Deliver, Reclaim, Claim, ClaimRefused, ReplayResult,
     RenewLease, RenewalFails, DiscardResult, FinishHandler,
     RecordTaskResult, PublishCompletion, MarkTaskCompleted, AckTask,
     AnswerMalformed, DeadLetter, dbVars
<1> QED
  BY <1>1 DEF OrchestratorFault, PublishOutboxAndCrash, CrashOrchestrator,
     CrashWorker, ExpireLease, dbVars

\* The conditional update lets one request through.
LEMMA ApiOneAccepted ==
  ASSUME GraphInv, OneAccepted, NEW c \in Caller, ApiStep(c)
  PROVE  OneAccepted'
<1>1. caller \in [Caller -> CallerState]
  BY DEF GraphInv, TypeOK, ProcessTypeOK
<1>2. CASE TriggerExecution(c)
  BY <1>1, <1>2 DEF TriggerExecution, Transitions, OneAccepted
<1>3. CASE CheckTriggerable(c) \/ LoseTriggerRace(c)
  <2>1. caller[c] \in {"idle", "checked"} /\ wfStatus' = wfStatus
    BY <1>3 DEF CheckTriggerable, LoseTriggerRace, dbVars
  <2>2. \A k \in Caller : caller'[k] = "accepted" <=> caller[k] = "accepted"
    BY <1>1, <1>3, <2>1 DEF CheckTriggerable, LoseTriggerRace
  <2> QED
    BY <2>1, <2>2 DEF OneAccepted
<1> QED
  BY <1>2, <1>3 DEF ApiStep

\* Every step keeps at most one request accepted.
LEMMA NextOneAccepted ==
  ASSUME GraphInv, OneAccepted, [Next]_vars
  PROVE  OneAccepted'
<1>1. CASE \E c \in Caller : ApiStep(c)
  BY <1>1, ApiOneAccepted
<1>2. CASE ~\E c \in Caller : ApiStep(c)
  <2>1. caller' = caller /\ (wfStatus' = "PENDING" <=> wfStatus = "PENDING")
    BY <1>2, OrchestratorKeepsPending, OthersKeepPending, ReadersQuiet
       DEF Next, engineVars
  <2> QED
    BY <2>1 DEF OneAccepted
<1> QED
  BY <1>1, <1>2

\* However many trigger requests race, one is accepted, and the execution is
\* PENDING until then (WorkflowTriggerService.trigger).
THEOREM SingleTriggerHolds == Spec => []SingleTrigger
<1>1. Init => OneAccepted
  BY DEF Init, OneAccepted
<1>2. OneAccepted => SingleTrigger
  <2> SUFFICES ASSUME OneAccepted
               PROVE  Cardinality({k \in Caller : caller[k] = "accepted"}) <= 1
    BY DEF OneAccepted, SingleTrigger
  <2> DEFINE A == {k \in Caller : caller[k] = "accepted"}
  <2>1. A = {} \/ \E k : A = {k}
    BY DEF OneAccepted
  <2> HIDE DEF A
  <2>2. Cardinality(A) = 0 \/ Cardinality(A) = 1
    BY <2>1, FS_EmptySet, FS_Singleton, Zenon
  <2>3. Cardinality(A) <= 1
    BY <2>2
  <2> QED
    BY <2>3 DEF A
<1> QED
  BY <1>1, <1>2, GraphInvariant, NextOneAccepted, PTL DEF Spec

-----------------------------------------------------------------------------
(***************************************************************************)
(* Lifecycle rows                                                          *)
(***************************************************************************)
NodeRows(n) == {r \in lifecycle : r.subject = "node" /\ r.node = n}

WorkflowRows == {r \in lifecycle : r.subject = "workflow"}

\* rows reports status and nothing else, once it is terminal.
Reports(rows, status) ==
  IF status \in Terminal THEN \E r : rows = {r} /\ r.status = status
                         ELSE rows = {}

LifecycleInv ==
  /\ \A n \in Node : Reports(NodeRows(n), nodeStatus[n])
  /\ Reports(WorkflowRows, wfStatus)

\* A transaction that finishes a node writes a row for it, for each node it
\* fails with it, and for the execution if that is finalized.
LEMMA FinishNodeLifecycle ==
  ASSUME GraphInv, LifecycleInv, NEW o \in Orchestrator,
         NEW e \in CompletionEntry, NEW st \in Terminal,
         FinishNode(o, e, st), NodeRunning(e)
  PROVE  LifecycleInv'
<1> DEFINE own     == [nodeStatus EXCEPT ![e.node] = st]
           blocked == IF st = "FAILED" THEN FailedDependants(own) ELSE {}
           after   == FailPending(own, blocked)
           failed  == {NodeEvent(n, "FAILED", e) : n \in blocked}
           final   == WorkflowEvents(wfStatus, after, e)
<1>1. /\ nodeStatus' = after /\ wfStatus' = Finalized(wfStatus, after)
      /\ lifecycle' = lifecycle \cup failed \cup {NodeEvent(e.node, st, e)}
                        \cup final
  BY DEF FinishNode
<1>2. e.node \in Node /\ nodeStatus[e.node] = "RUNNING"
        /\ nodeStatus \in [Node -> NodeStatus]
  BY DEF NodeRunning, CompletionEntry, GraphInv, TypeOK, DatabaseTypeOK
<1>3. \A n \in blocked : n \in Node /\ own[n] = "PENDING"
  BY DEF FailedDependants
<1>4. own[e.node] = st /\ st # "PENDING"
        /\ \A n \in Node \ {e.node} : own[n] = nodeStatus[n]
  BY <1>2 DEF Terminal
<1>5. e.node \notin blocked /\ \A n \in blocked : nodeStatus[n] = "PENDING"
  BY <1>3, <1>4, Zenon
<1>6. \A n \in Node : after[n] = IF n \in blocked THEN "FAILED" ELSE own[n]
  <2> HIDE DEF own, blocked
  <2> QED
    BY <1>3 DEF FailPending
<1>7. \A r \in final : r.subject = "workflow"
  BY DEF WorkflowEvents, WorkflowEvent
<1>8. \A r \in failed : r.subject = "node" /\ r.node \in blocked
                        /\ r = NodeEvent(r.node, "FAILED", e)
  <2> HIDE DEF blocked
  <2> QED
    BY DEF NodeEvent
<1>9. \A n \in blocked : NodeEvent(n, "FAILED", e) \in failed
  OBVIOUS
<1> HIDE DEF own, blocked, after, failed, final
<1>10. ASSUME NEW n \in Node  PROVE Reports(NodeRows(n), nodeStatus[n])'
  <2>1. CASE n = e.node
    <3>1. NodeRows(n) = {}
      BY <1>2, <2>1 DEF LifecycleInv, Reports, Terminal
    <3>2. NodeRows(n)' = {NodeEvent(n, st, e)}
      BY <1>1, <1>5, <1>7, <1>8, <2>1, <3>1 DEF NodeRows, NodeEvent
    <3>3. nodeStatus'[n] = st /\ NodeEvent(n, st, e).status = st
      BY <1>1, <1>2, <1>4, <1>5, <1>6, <2>1 DEF NodeEvent
    <3> QED
      BY <3>2, <3>3 DEF Reports
  <2>2. CASE n \in blocked
    <3>1. NodeRows(n) = {}
      BY <1>5, <2>2 DEF LifecycleInv, Reports, Terminal
    <3>2. NodeRows(n)' = {NodeEvent(n, "FAILED", e)}
      <4>1. n # e.node
        BY <1>5, <2>2
      <4>2. \A r \in NodeRows(n)' : r = NodeEvent(n, "FAILED", e)
        BY <1>1, <1>7, <1>8, <3>1, <4>1 DEF NodeRows, NodeEvent
      <4>3. NodeEvent(n, "FAILED", e) \in NodeRows(n)'
        BY <1>1, <1>9, <2>2 DEF NodeRows, NodeEvent
      <4> QED
        BY <4>2, <4>3
    <3>3. nodeStatus'[n] = "FAILED" /\ NodeEvent(n, "FAILED", e).status = "FAILED"
      BY <1>1, <1>6, <2>2 DEF NodeEvent
    <3> QED
      BY <3>2, <3>3 DEF Reports, Terminal
  <2>3. CASE n # e.node /\ n \notin blocked
    <3>1. NodeRows(n)' = NodeRows(n)
      BY <1>1, <1>7, <1>8, <2>3 DEF NodeRows, NodeEvent
    <3>2. nodeStatus'[n] = nodeStatus[n]
      BY <1>1, <1>4, <1>6, <2>3
    <3> QED
      BY <3>1, <3>2 DEF LifecycleInv, Reports
  <2> QED
    BY <2>1, <2>2, <2>3
<1>11. Reports(WorkflowRows, wfStatus)'
  <2>1. WorkflowRows' = WorkflowRows \cup final
    BY <1>1, <1>7, <1>8 DEF WorkflowRows, NodeEvent
  <2>2. CASE wfStatus' = wfStatus
    <3>1. final = {}
      BY <1>1, <2>2 DEF final, WorkflowEvents
    <3> QED
      BY <2>1, <2>2, <3>1 DEF LifecycleInv, Reports
  <2>3. CASE wfStatus' # wfStatus
    <3>1. wfStatus = "RUNNING" /\ wfStatus' \in Terminal
      BY <1>1, <2>3 DEF Finalized, Terminal
    <3>2. WorkflowRows = {}
      BY <3>1 DEF LifecycleInv, Reports, Terminal
    <3>3. final = {WorkflowEvent(wfStatus', e)}
      BY <1>1, <2>3 DEF final, WorkflowEvents
    <3>4. WorkflowEvent(wfStatus', e).status = wfStatus'
      BY DEF WorkflowEvent
    <3> QED
      BY <2>1, <3>1, <3>2, <3>3, <3>4 DEF Reports
  <2> QED
    BY <2>2, <2>3
<1> QED
  BY <1>10, <1>11 DEF LifecycleInv

\* A step that writes no row and moves no status to or from a terminal one.
LEMMA LifecycleQuiet ==
  ASSUME LifecycleInv, lifecycle' = lifecycle,
         wfStatus' = wfStatus \/ {wfStatus, wfStatus'} \cap Terminal = {},
         \A n \in Node : nodeStatus'[n] = nodeStatus[n]
                           \/ {nodeStatus[n], nodeStatus'[n]} \cap Terminal = {}
  PROVE  LifecycleInv'
<1>1. WorkflowRows' = WorkflowRows /\ \A n \in Node : NodeRows(n)' = NodeRows(n)
  BY DEF WorkflowRows, NodeRows
<1>2. Reports(WorkflowRows, wfStatus)'
  BY <1>1 DEF LifecycleInv, Reports
<1>3. ASSUME NEW n \in Node  PROVE Reports(NodeRows(n), nodeStatus[n])'
  BY <1>1 DEF LifecycleInv, Reports
<1> QED
  BY <1>2, <1>3 DEF LifecycleInv

\* Every step of an orchestrator keeps rows and statuses together.
LEMMA OrchestratorLifecycle ==
  ASSUME GraphInv, LifecycleInv, NEW o \in Orchestrator, OrchestratorStep(o)
  PROVE  LifecycleInv'
<1>1. ASSUME NEW e \in batch[o], CompleteNode(o, e) \/ FailNode(o, e)
      PROVE  LifecycleInv'
  <2>1. PICK st \in Terminal : FinishNode(o, e, st)
    BY <1>1 DEF CompleteNode, FailNode, Terminal
  <2>2. e \in CompletionEntry /\ NodeRunning(e)
    BY <1>1 DEF CompleteNode, FailNode, Completion
  <2> QED
    BY <2>1, <2>2, FinishNodeLifecycle
<1>2. ASSUME NEW n \in Node, DispatchNode(o, n)
      PROVE  LifecycleInv'
  <2>1. n \in ready[o]
    BY <1>2 DEF DispatchNode, Dispatched
  <2>2. nodeStatus[n] = "PENDING" /\ nodeStatus' = [nodeStatus EXCEPT ![n] = "RUNNING"]
          /\ UNCHANGED <<wfStatus, lifecycle>>
    BY <1>2, <2>1, ReadyNotBlocked DEF DispatchNode, Claimable
  <2>3. nodeStatus \in [Node -> NodeStatus]
    BY DEF GraphInv, TypeOK, DatabaseTypeOK
  <2> QED
    BY <2>2, <2>3, LifecycleQuiet DEF Terminal
<1>3. ASSUME ~\E e \in batch[o] : CompleteNode(o, e) \/ FailNode(o, e),
             ~\E n \in Node : DispatchNode(o, n)
      PROVE  UNCHANGED <<lifecycle, wfStatus, nodeStatus>>
  BY <1>3, Zenon
     DEF OrchestratorStep, PublishOutbox, ReadEvents, ReadCompletions,
     HandleTrigger, ScheduleRetry, IgnoreCompletion, UnreadableCompletion,
     SkipDispatch, DispatchRaises, AckEntry, ReadDueRetries,
     PublishRetry, MarkRetry, dbVars
<1> QED
  BY <1>1, <1>2, <1>3, LifecycleQuiet

\* Every step keeps rows and statuses together.
LEMMA NextLifecycle ==
  ASSUME GraphInv, LifecycleInv, [Next]_vars
  PROVE  LifecycleInv'
<1>1. ASSUME NEW c \in Caller, ApiStep(c)
      PROVE  LifecycleInv'
  <2>1. UNCHANGED <<lifecycle, nodeStatus>>
          /\ (wfStatus' = wfStatus \/ (wfStatus = "PENDING" /\ wfStatus' = "RUNNING"))
    <3>1. CASE TriggerExecution(c)
      BY <3>1 DEF TriggerExecution, Transitions
    <3>2. CASE CheckTriggerable(c) \/ LoseTriggerRace(c)
      BY <3>2 DEF CheckTriggerable, LoseTriggerRace, dbVars
    <3> QED
      BY <1>1, <3>1, <3>2 DEF ApiStep
  <2> QED
    BY <2>1, LifecycleQuiet DEF Terminal
<1>2. ASSUME NEW s \in Slot, WorkerStep(s)
      PROVE  UNCHANGED <<lifecycle, wfStatus, nodeStatus>>
  BY <1>2, Zenon
     DEF WorkerStep, Deliver, Reclaim, Claim, ClaimRefused, ReplayResult,
     RenewLease, RenewalFails, DiscardResult, FinishHandler,
     RecordTaskResult, PublishCompletion, MarkTaskCompleted, AckTask,
     AnswerMalformed, DeadLetter, dbVars
<1>3. ASSUME \/ \E o \in Orchestrator : OrchestratorFault(o)
             \/ \E w \in Worker : CrashWorker(w)
             \/ \E n \in Node, k \in AttemptNumber : ExpireLease(n, k)
             \/ UNCHANGED engineVars
      PROVE  UNCHANGED <<lifecycle, wfStatus, nodeStatus>>
  BY <1>3 DEF OrchestratorFault, PublishOutboxAndCrash, CrashOrchestrator,
     CrashWorker, ExpireLease, dbVars, engineVars
<1> QED
  BY <1>1, <1>2, <1>3, LifecycleQuiet, OrchestratorLifecycle, ReadersQuiet DEF Next

\* Every terminal node and execution has exactly one lifecycle row, with its
\* status, however completions repeat and propagation fails nodes in bulk
\* (TaskCompletionService.process, WorkflowFinalizationService.finalize).
THEOREM LifecycleMatchesStateHolds == Spec => []LifecycleMatchesState
<1>1. Init => LifecycleInv
  <2> SUFFICES ASSUME Init  PROVE LifecycleInv
    OBVIOUS
  <2>1. lifecycle = {} /\ wfStatus = "PENDING"
          /\ \A n \in Node : nodeStatus[n] = "PENDING"
    BY DEF Init
  <2> QED
    BY <2>1 DEF LifecycleInv, Reports, NodeRows, WorkflowRows, Terminal
<1>2. LifecycleInv => LifecycleMatchesState
  <2> SUFFICES ASSUME LifecycleInv  PROVE LifecycleMatchesState
    OBVIOUS
  <2>1. ASSUME NEW rows, NEW status, Reports(rows, status)
        PROVE  IF status \in Terminal
                 THEN Cardinality(rows) = 1 /\ \A r \in rows : r.status = status
                 ELSE rows = {}
    BY <2>1, FS_Singleton DEF Reports
  <2>2. ASSUME NEW n \in Node
        PROVE  IF nodeStatus[n] \in Terminal
                 THEN /\ Cardinality(NodeRows(n)) = 1
                      /\ \A r \in NodeRows(n) : r.status = nodeStatus[n]
                 ELSE NodeRows(n) = {}
    BY <2>1 DEF LifecycleInv
  <2>3. IF wfStatus \in Terminal
          THEN Cardinality(WorkflowRows) = 1 /\ \A r \in WorkflowRows : r.status = wfStatus
          ELSE WorkflowRows = {}
    BY <2>1 DEF LifecycleInv
  <2> QED
    BY <2>2, <2>3 DEF LifecycleMatchesState, NodeRows, WorkflowRows
<1> QED
  BY <1>1, <1>2, GraphInvariant, NextLifecycle, PTL DEF Spec

=============================================================================
