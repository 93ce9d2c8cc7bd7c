---------------------- MODULE WorkflowRefinementProofs ----------------------
(***************************************************************************)
(* The engine implements AbstractWorkflow: under GraphInv every step is a  *)
(* step of the abstract execution or leaves the status columns alone.      *)
(***************************************************************************)
EXTENDS WorkflowGraphProofs

\* A completion that finds its node running finishes it once.
LEMMA FinishNodeImplements ==
  ASSUME GraphInv, NEW o \in Orchestrator, NEW e \in CompletionEntry,
         NEW st \in Terminal, FinishNode(o, e, st), NodeRunning(e)
  PROVE  Abstract!Succeed(e.node) \/ Abstract!Fail(e.node)
<1> DEFINE x   == e.node
           own == [nodeStatus EXCEPT ![x] = st]
           F   == FailedDependants(own)
<1>0. nodeStatus \in [Node -> NodeStatus] /\ x \in Node /\ st \in NodeStatus
  BY FinishNodeStatuses DEF GraphInv, TypeOK, DatabaseTypeOK, Terminal, NodeStatus
<1>1. wfStatus \in {"RUNNING", "FAILED"} /\ nodeStatus[x] = "RUNNING"
        /\ wfStatus' = Finalized(wfStatus, nodeStatus')
  BY FinishNodeStatuses, RunningNodeExecution
<1>2. wfStatus = "FAILED" <=> SomeFailed(nodeStatus)
  BY DEF GraphInv, GraphOK, OutcomeAgrees
<1>3. own \in [Node -> NodeStatus] /\ own[x] = st
        /\ \A m \in Node \ {x} : own[m] = nodeStatus[m]
  BY <1>0
<1>4. CASE st = "COMPLETED"
  <2>1. nodeStatus' = own
    BY <1>3, <1>4, Zenon DEF FinishNode, FailPending
  <2>2. SomeFailed(nodeStatus') <=> SomeFailed(nodeStatus)
    BY <1>0, <1>1, <1>4, <2>1 DEF SomeFailed
  <2>3. AllCompleted(nodeStatus') => ~SomeFailed(nodeStatus')
    BY <1>0 DEF SomeFailed, AllCompleted
  <2>4. wfStatus' = IF AllCompleted(nodeStatus') THEN "COMPLETED" ELSE wfStatus
    BY <1>1, <1>2, <2>2, <2>3 DEF Finalized
  <2> QED
    BY <1>1, <1>4, <2>1, <2>4 DEF Abstract!Succeed, AllCompleted
<1>5. CASE st = "FAILED"
  <2>1. nodeStatus' = FailPending(own, F)
    BY <1>5 DEF FinishNode
  <2>2. F \in SUBSET Node /\ \A m \in F : own[m] = "PENDING"
    <3>1. {m \in Node : own[m] = "PENDING"} \in SUBSET Node
      OBVIOUS
    <3>2. ClosedUnderFailure(own, {m \in Node : own[m] = "PENDING"})
      BY DEF ClosedUnderFailure
    <3> QED
      BY <3>1, <3>2 DEF FailedDependants
  <2> HIDE DEF own, F
  <2>3. F \in SUBSET {m \in Node : nodeStatus[m] = "PENDING"}
    BY <1>3, <1>5, <2>2
  <2>4. nodeStatus' = [m \in Node |-> IF m = x \/ m \in F THEN "FAILED" ELSE nodeStatus[m]]
    BY <1>3, <1>5, <2>1, <2>2 DEF FailPending
  <2>5. \A m \in F : \E d \in Deps[m] : nodeStatus'[d] = "FAILED"
    <3> SUFFICES ASSUME NEW m \in F
                 PROVE  \E d \in Deps[m] : nodeStatus'[d] = "FAILED"
      OBVIOUS
    <3>1. PICK d \in Deps[m] : own[d] = "FAILED" \/ d \in F
      BY FailedDependantsJustified DEF F
    <3>2. d \in Node
      BY <2>2, DepsAssumption
    <3> QED
      BY <1>3, <2>4, <3>1, <3>2
  <2>6. \A m \in Node :
          nodeStatus'[m] = "PENDING" => \A d \in Deps[m] : nodeStatus'[d] # "FAILED"
    BY <1>3, <2>1, PropagationComplete DEF F
  <2>7. wfStatus' = "FAILED"
    <3>1. SomeFailed(nodeStatus')
      BY <1>0, <2>4 DEF SomeFailed
    <3> QED
      BY <1>1, <3>1 DEF Finalized
  <2> QED
    BY <1>1, <2>3, <2>4, <2>5, <2>6, <2>7, Zenon DEF Abstract!Fail
<1> QED
  BY <1>4, <1>5 DEF Terminal

\* A dispatch starts its node.
LEMMA DispatchImplements ==
  ASSUME GraphInv, NEW o \in Orchestrator, NEW n \in Node, DispatchNode(o, n)
  PROVE  Abstract!Start(n)
<1>1. n \in ready[o]
  BY DEF DispatchNode, Dispatched
<1>2. nodeStatus[n] = "PENDING" /\ nodeStatus' = [nodeStatus EXCEPT ![n] = "RUNNING"]
        /\ wfStatus' = wfStatus
  BY <1>1, ReadyNotBlocked DEF DispatchNode, Claimable
<1>3. \A d \in Deps[n] : nodeStatus[d] = "COMPLETED"
  BY <1>1 DEF GraphInv, ReadySatisfied, DependencySatisfied
<1>4. wfStatus # "PENDING"
  BY <1>1 DEF GraphInv, Untouched
<1>5. wfStatus # "COMPLETED"
  BY <1>2 DEF GraphInv, GraphOK, OutcomeAgrees, AllCompleted
<1>6. wfStatus \in {"RUNNING", "FAILED"}
  BY <1>4, <1>5 DEF GraphInv, TypeOK, DatabaseTypeOK, WorkflowStatus
<1> QED
  BY <1>2, <1>3, <1>6 DEF Abstract!Start

\* The orchestrator's steps.
LEMMA OrchestratorImplements ==
  ASSUME GraphInv, NEW o \in Orchestrator, OrchestratorStep(o)
  PROVE  Abstract!Next \/ UNCHANGED <<wfStatus, nodeStatus>>
<1>1. ASSUME NEW e \in batch[o], CompleteNode(o, e) \/ FailNode(o, e)
      PROVE  Abstract!Next
  <2>1. e \in CompletionEntry /\ e.node \in Node /\ NodeRunning(e)
    BY <1>1 DEF CompleteNode, FailNode, Completion, CompletionEntry
  <2>2. PICK st \in Terminal : FinishNode(o, e, st)
    BY <1>1 DEF CompleteNode, FailNode, Terminal
  <2> QED
    BY <2>1, <2>2, FinishNodeImplements DEF Abstract!Next
<1>2. ASSUME NEW n \in Node, DispatchNode(o, n)
      PROVE  Abstract!Next
  BY <1>2, DispatchImplements DEF Abstract!Next
<1>3. ASSUME NEW e \in batch[o],
             HandleTrigger(o, e) \/ ScheduleRetry(o, e) \/ IgnoreCompletion(o, e)
               \/ UnreadableCompletion(o, e)
      PROVE  UNCHANGED <<wfStatus, nodeStatus>>
  BY <1>3 DEF HandleTrigger, ScheduleRetry, IgnoreCompletion,
              UnreadableCompletion, dbVars
<1>4. ASSUME NEW n \in Node, SkipDispatch(o, n) \/ DispatchRaises(o, n)
      PROVE  UNCHANGED <<wfStatus, nodeStatus>>
  BY <1>4 DEF SkipDispatch, DispatchRaises, dbVars
<1>5. ASSUME NEW m \in OutboxRow, PublishOutbox(o, m)
      PROVE  UNCHANGED <<wfStatus, nodeStatus>>
  BY <1>5 DEF PublishOutbox
<1>6. CASE ReadEvents(o) \/ ReadCompletions(o) \/ AckEntry(o)
  BY <1>6 DEF ReadEvents, ReadCompletions, AckEntry, dbVars
<1>7. ASSUME NEW R \in SUBSET DueRetries, ReadDueRetries(o, R)
      PROVE  UNCHANGED <<wfStatus, nodeStatus>>
  BY <1>7 DEF ReadDueRetries, dbVars
<1>8. ASSUME NEW r \in RetryKey, PublishRetry(o, r) \/ MarkRetry(o, r)
      PROVE  UNCHANGED <<wfStatus, nodeStatus>>
  BY <1>8 DEF PublishRetry, MarkRetry, dbVars
<1> QED
  BY <1>1, <1>2, <1>3, <1>4, <1>5, <1>6, <1>7, <1>8 DEF OrchestratorStep

\* Every step of the engine is a step of the abstract execution.
LEMMA NextImplements ==
  ASSUME GraphInv, [Next]_vars
  PROVE  [Abstract!Next]_(Abstract!absVars)
<1> SUFFICES Abstract!Next \/ UNCHANGED <<wfStatus, nodeStatus>>
  BY DEF Abstract!absVars
<1>1. ASSUME NEW c \in Caller, ApiStep(c)
      PROVE  Abstract!Next \/ UNCHANGED <<wfStatus, nodeStatus>>
  BY <1>1 DEF ApiStep, CheckTriggerable, TriggerExecution, LoseTriggerRace,
              Transitions, dbVars, Abstract!Next, Abstract!Trigger
<1>2. ASSUME NEW o \in Orchestrator, OrchestratorFault(o)
      PROVE  UNCHANGED <<wfStatus, nodeStatus>>
  BY <1>2 DEF OrchestratorFault, PublishOutboxAndCrash, CrashOrchestrator, dbVars
<1>3. ASSUME NEW w \in Worker, CrashWorker(w)
      PROVE  UNCHANGED <<wfStatus, nodeStatus>>
  BY <1>3 DEF CrashWorker, dbVars
<1>4. ASSUME NEW n \in Node, NEW k \in AttemptNumber, ExpireLease(n, k)
      PROVE  UNCHANGED <<wfStatus, nodeStatus>>
  BY <1>4 DEF ExpireLease
<1>5. CASE UNCHANGED engineVars
  BY <1>5 DEF engineVars
<1> QED
  BY <1>1, <1>2, <1>3, <1>4, <1>5, OrchestratorImplements, WorkerQuiet,
     ReadersQuiet DEF Next

\* Processes, streams, retries and faults together move the status columns
\* only as AbstractWorkflow allows, for every graph and number of replicas.
THEOREM EngineImplementsWorkflow == Spec => ImplementsWorkflow
<1>1. Init => Abstract!Init
  BY DEF Init, Abstract!Init
<1> QED
  BY <1>1, GraphInvariant, NextImplements, PTL
     DEF Spec, ImplementsWorkflow, Abstract!Spec

\* No step leaves a terminal status.
LEMMA NextTerminal ==
  ASSUME GraphInv, [Next]_vars
  PROVE  /\ wfStatus \in Terminal => wfStatus' = wfStatus
         /\ \A n \in Node : nodeStatus[n] \in Terminal
                               => nodeStatus'[n] = nodeStatus[n]
<1>0. nodeStatus \in [Node -> NodeStatus]
  BY DEF GraphInv, TypeOK, DatabaseTypeOK
<1>1. CASE Abstract!Trigger
  BY <1>1 DEF Abstract!Trigger, Terminal
<1>2. ASSUME NEW x \in Node, Abstract!Start(x)
      PROVE  /\ wfStatus' = wfStatus
             /\ \A n \in Node : nodeStatus[n] \in Terminal
                                   => nodeStatus'[n] = nodeStatus[n]
  BY <1>0, <1>2 DEF Abstract!Start, Terminal
<1>3. ASSUME NEW x \in Node, Abstract!Succeed(x) \/ Abstract!Fail(x)
      PROVE  /\ wfStatus \in Terminal => wfStatus' = wfStatus
             /\ \A n \in Node : nodeStatus[n] \in Terminal
                                   => nodeStatus'[n] = nodeStatus[n]
  <2>1. wfStatus \in {"RUNNING", "FAILED"}
    BY <1>3, RunningNodeExecution DEF Abstract!Succeed, Abstract!Fail
  <2>2. \A n \in Node : nodeStatus[n] \in Terminal
                           => nodeStatus'[n] = nodeStatus[n]
    BY <1>0, <1>3 DEF Abstract!Succeed, Abstract!Fail, Terminal
  <2>3. wfStatus = "FAILED" => wfStatus' = "FAILED"
    <3> SUFFICES ASSUME wfStatus = "FAILED" PROVE wfStatus' = "FAILED"
      OBVIOUS
    <3>1. PICK m \in Node : nodeStatus[m] = "FAILED"
      BY DEF GraphInv, GraphOK, OutcomeAgrees, SomeFailed
    <3>2. nodeStatus'[m] = "FAILED"
      BY <2>2, <3>1 DEF Terminal
    <3> QED
      BY <1>3, <3>2 DEF Abstract!Succeed, Abstract!Fail
  <2> QED
    BY <2>1, <2>2, <2>3 DEF Terminal
<1>4. CASE UNCHANGED <<wfStatus, nodeStatus>>
  BY <1>4
<1> QED
  BY <1>1, <1>2, <1>3, <1>4, NextImplements
     DEF Abstract!Next, Abstract!absVars

\* A terminal status is never left by any step.
THEOREM TerminalStableHolds == Spec => TerminalStable
BY NextTerminal, GraphInvariant, PTL DEF Spec, TerminalStable

-----------------------------------------------------------------------------
(***************************************************************************)
(* What a client sees.  The status columns only move forward, so the node  *)
(* rows, read second, are at least as far as the execution row read first; *)
(* and a terminal execution row fixes what the node rows say.              *)
(***************************************************************************)
Status == WorkflowStatus \cup NodeStatus

\* Everything a client has read is behind the database, and an answer behind
\* the request that follows it.
Behind ==
  \A r \in Reader :
    /\ Advances(answer[r].status, wfStatus)
    /\ \A n \in Node : Advances(answer[r].nodes[n], nodeStatus[n])
    /\ \A st \in reading[r] :
         Advances(answer[r].status, st) /\ Advances(st, wfStatus)

\* An answer with a terminal status has the node rows that go with it.
Coherent ==
  \A r \in Reader :
    /\ answer[r].status = "FAILED" => SomeFailed(answer[r].nodes)
    /\ answer[r].status = "COMPLETED" => AllCompleted(answer[r].nodes)

ReadersInv == GraphInv /\ ReadersTypeOK /\ Behind /\ Coherent

-----------------------------------------------------------------------------
\* Statuses are ordered, with the two terminal ones at the top.
LEMMA AdvancesOrder ==
  ASSUME NEW x \in Status, NEW y \in Status, NEW z \in Status
  PROVE  /\ Advances(x, x)
         /\ Advances(x, y) /\ Advances(y, z) => Advances(x, z)
         /\ x \in Terminal /\ Advances(x, y) => x = y
         /\ Advances("PENDING", x)
         /\ x \notin Terminal /\ y \in Terminal => Advances(x, y)
BY DEF Advances, Rank, Status, WorkflowStatus, NodeStatus, Terminal

\* No step of the engine takes a status back.
LEMMA NextForward ==
  ASSUME GraphInv, [Next]_vars
  PROVE  /\ Advances(wfStatus, wfStatus')
         /\ \A n \in Node : Advances(nodeStatus[n], nodeStatus'[n])
<1>0. /\ nodeStatus \in [Node -> NodeStatus] /\ wfStatus \in WorkflowStatus
      /\ nodeStatus' \in [Node -> NodeStatus] /\ wfStatus' \in WorkflowStatus
  BY NextTypeOK DEF GraphInv, TypeOK, DatabaseTypeOK
<1>1. /\ wfStatus \in Terminal => wfStatus' = wfStatus
      /\ \A n \in Node : nodeStatus[n] \in Terminal
                            => nodeStatus'[n] = nodeStatus[n]
  BY NextTerminal
<1>2. CASE Abstract!Trigger
  BY <1>0, <1>2 DEF Abstract!Trigger, Advances, Rank
<1>3. ASSUME NEW x \in Node,
             Abstract!Start(x) \/ Abstract!Succeed(x) \/ Abstract!Fail(x)
      PROVE  /\ Advances(wfStatus, wfStatus')
             /\ \A n \in Node : Advances(nodeStatus[n], nodeStatus'[n])
  <2>1. wfStatus' = wfStatus \/ wfStatus' \in Terminal
    BY <1>3 DEF Abstract!Start, Abstract!Succeed, Abstract!Fail, Terminal
  <2>2. Advances(wfStatus, wfStatus')
    BY <1>0, <1>1, <2>1, AdvancesOrder DEF Status
  <2>3. ASSUME NEW n \in Node
        PROVE  \/ nodeStatus'[n] = nodeStatus[n]
               \/ nodeStatus'[n] \in Terminal
               \/ nodeStatus[n] = "PENDING"
    BY <1>0, <1>3 DEF Abstract!Start, Abstract!Succeed, Abstract!Fail, Terminal
  <2>4. ASSUME NEW n \in Node
        PROVE  Advances(nodeStatus[n], nodeStatus'[n])
    <3>1. nodeStatus[n] \in Status /\ nodeStatus'[n] \in Status
      BY <1>0 DEF Status
    <3> QED
      BY <1>1, <2>3, <3>1, AdvancesOrder
  <2> QED
    BY <2>2, <2>4
<1>4. CASE UNCHANGED <<wfStatus, nodeStatus>>
  BY <1>4 DEF Advances
<1> QED
  BY <1>2, <1>3, <1>4, NextImplements DEF Abstract!Next, Abstract!absVars

-----------------------------------------------------------------------------
\* The invariant holds initially.
LEMMA InitReaders == Init => ReadersInv
<1> SUFFICES ASSUME Init PROVE ReadersInv
  OBVIOUS
<1>1. GraphInv
  BY InitGraph
<1>2. ReadersTypeOK
  BY DEF Init, NothingRead, ReadersTypeOK, Answer, WorkflowStatus, NodeStatus
<1>3. Behind
  BY DEF Init, NothingRead, Behind, Advances
<1>4. Coherent
  BY DEF Init, NothingRead, Coherent
<1> QED
  BY <1>1, <1>2, <1>3, <1>4 DEF ReadersInv

\* A step of the engine keeps it: the database moves forward.
LEMMA EngineReaders ==
  ASSUME ReadersInv, [Next]_vars, UNCHANGED readerVars
  PROVE  ReadersInv'
<1>0. GraphInv' /\ TypeOK /\ TypeOK'
  BY NextGraph, NextTypeOK DEF ReadersInv, GraphInv
<1>1. ReadersTypeOK' /\ Coherent'
  BY DEF ReadersInv, ReadersTypeOK, Coherent, readerVars
<1>2. Behind'
  <2> SUFFICES ASSUME NEW r \in Reader
               PROVE  /\ Advances(answer[r].status, wfStatus')
                      /\ \A n \in Node : Advances(answer[r].nodes[n], nodeStatus'[n])
                      /\ \A st \in reading[r] :
                           Advances(answer[r].status, st) /\ Advances(st, wfStatus')
    BY DEF Behind, readerVars
  <2>1. /\ wfStatus \in Status /\ wfStatus' \in Status
        /\ \A n \in Node : nodeStatus[n] \in Status /\ nodeStatus'[n] \in Status
    BY <1>0 DEF TypeOK, DatabaseTypeOK, Status
  <2>2. /\ answer[r].status \in Status
        /\ \A n \in Node : answer[r].nodes[n] \in Status
        /\ \A st \in reading[r] : st \in Status
    BY DEF ReadersInv, ReadersTypeOK, Answer, Status
  <2>3. /\ Advances(wfStatus, wfStatus')
        /\ \A n \in Node : Advances(nodeStatus[n], nodeStatus'[n])
    BY NextForward DEF ReadersInv
  <2>4. /\ Advances(answer[r].status, wfStatus)
        /\ \A n \in Node : Advances(answer[r].nodes[n], nodeStatus[n])
        /\ \A st \in reading[r] :
             Advances(answer[r].status, st) /\ Advances(st, wfStatus)
    BY DEF ReadersInv, Behind
  <2>5. ASSUME NEW n \in Node PROVE Advances(answer[r].nodes[n], nodeStatus'[n])
    BY <2>1, <2>2, <2>3, <2>4, AdvancesOrder
  <2>6. ASSUME NEW st \in reading[r] PROVE Advances(st, wfStatus')
    BY <2>1, <2>2, <2>3, <2>4, AdvancesOrder
  <2>7. Advances(answer[r].status, wfStatus')
    BY <2>1, <2>2, <2>3, <2>4, AdvancesOrder
  <2> QED
    BY <2>4, <2>5, <2>6, <2>7
<1> QED
  BY <1>0, <1>1, <1>2 DEF ReadersInv

\* A terminal execution row read a moment ago is still the current one, so the
\* node rows read now are those of a finished execution.
LEMMA AnswerCoherent ==
  ASSUME ReadersInv, NEW r \in Reader, NEW st \in reading[r]
  PROVE  /\ st = "FAILED" => SomeFailed(nodeStatus)
         /\ st = "COMPLETED" => AllCompleted(nodeStatus)
<1>1. st \in Status /\ wfStatus \in Status /\ Advances(st, wfStatus)
  BY DEF ReadersInv, ReadersTypeOK, Behind, GraphInv, TypeOK, DatabaseTypeOK,
         Status
<1>2. st \in Terminal => wfStatus = st
  BY <1>1, AdvancesOrder
<1> QED
  BY <1>2 DEF ReadersInv, GraphInv, GraphOK, OutcomeAgrees, Terminal

\* A request keeps the invariant, and its answer is ahead of the last one.
LEMMA GetReaders ==
  ASSUME ReadersInv, NEW r \in Reader, Get(r)
  PROVE  /\ ReadersInv'
         /\ Advances(answer[r].status, answer'[r].status)
         /\ \A n \in Node : Advances(answer[r].nodes[n], answer'[r].nodes[n])
         /\ \A q \in Reader : q # r => answer'[q] = answer[q]
<1>0. GraphInv' /\ wfStatus' = wfStatus /\ nodeStatus' = nodeStatus
  BY NextGraph, ReadersQuiet DEF ReadersInv, Next, engineVars
<1>1. /\ wfStatus \in WorkflowStatus /\ nodeStatus \in [Node -> NodeStatus]
      /\ reading \in [Reader -> SUBSET WorkflowStatus]
      /\ answer \in [Reader -> Answer]
  BY DEF ReadersInv, ReadersTypeOK, GraphInv, TypeOK, DatabaseTypeOK
<1>2. CASE ReadExecution(r)
  <2>1. /\ answer' = answer
        /\ reading' = [reading EXCEPT ![r] = {wfStatus}]
    BY <1>2 DEF ReadExecution
  <2>2. ReadersTypeOK' /\ Coherent'
    BY <1>1, <2>1 DEF ReadersInv, ReadersTypeOK, Coherent
  <2>3. Behind'
    <3>1. Advances(wfStatus, wfStatus)
      BY DEF Advances
    <3> QED
      BY <1>0, <1>1, <2>1, <3>1 DEF ReadersInv, Behind
  <2> QED
    BY <1>0, <2>1, <2>2, <2>3 DEF ReadersInv, Advances
<1>3. CASE ReadNodes(r)
  <2>1. PICK st \in reading[r] : Respond(r, st, nodeStatus)
    BY <1>3 DEF ReadNodes
  <2> DEFINE ans == [status |-> st, nodes |-> nodeStatus]
  <2>2. /\ reading' = [reading EXCEPT ![r] = {}]
        /\ answer' = [answer EXCEPT ![r] = ans]
    BY <2>1 DEF Respond
  <2>3. ans \in Answer
    BY <1>1, <2>1 DEF Answer
  <2>4. ReadersTypeOK'
    BY <1>1, <2>2, <2>3 DEF ReadersTypeOK
  <2>5. ans.status = st /\ ans.nodes = nodeStatus
    OBVIOUS
  <2>6. /\ answer'[r] = ans
        /\ \A q \in Reader : q # r => answer'[q] = answer[q]
        /\ reading'[r] = {}
        /\ \A q \in Reader : q # r => reading'[q] = reading[q]
    BY <1>1, <2>2
  <2> HIDE DEF ans
  <2>7. Coherent'
    <3>1. /\ st = "FAILED" => SomeFailed(nodeStatus)
          /\ st = "COMPLETED" => AllCompleted(nodeStatus)
      BY AnswerCoherent
    <3> QED
      BY <2>5, <2>6, <3>1 DEF ReadersInv, Coherent
  <2>8. Advances(st, wfStatus) /\ Advances(answer[r].status, st)
          /\ \A n \in Node : Advances(answer[r].nodes[n], nodeStatus[n])
    BY DEF ReadersInv, Behind
  <2>9. Behind'
    <3>1. \A n \in Node : Advances(nodeStatus[n], nodeStatus[n])
      BY DEF Advances
    <3> QED
      BY <1>0, <2>5, <2>6, <2>8, <3>1 DEF ReadersInv, Behind
  <2> QED
    BY <1>0, <2>4, <2>5, <2>6, <2>7, <2>8, <2>9 DEF ReadersInv
<1> QED
  BY <1>2, <1>3 DEF Get

\* Only requests change what clients have read.
LEMMA OthersDoNotRead ==
  ASSUME [Next]_vars
  PROVE  (\E r \in Reader : Get(r)) \/ UNCHANGED readerVars
<1>1. ASSUME NEW c \in Caller, ApiStep(c) PROVE UNCHANGED readerVars
  BY <1>1 DEF ApiStep, CheckTriggerable, TriggerExecution, LoseTriggerRace
<1>2. ASSUME NEW o \in Orchestrator, OrchestratorStep(o) PROVE UNCHANGED readerVars
  BY <1>2, Zenon
     DEF OrchestratorStep, PublishOutbox, ReadEvents, ReadCompletions,
     HandleTrigger, CompleteNode, FailNode, ScheduleRetry, IgnoreCompletion,
     UnreadableCompletion, DispatchNode, SkipDispatch, DispatchRaises,
     AckEntry, ReadDueRetries, PublishRetry, MarkRetry
<1>3. ASSUME NEW o \in Orchestrator, OrchestratorFault(o) PROVE UNCHANGED readerVars
  BY <1>3 DEF OrchestratorFault, PublishOutboxAndCrash, CrashOrchestrator
<1>4. ASSUME NEW s \in Slot, WorkerStep(s) PROVE UNCHANGED readerVars
  BY <1>4, Zenon
     DEF WorkerStep, Deliver, Reclaim, Claim, ClaimRefused, ReplayResult,
     RenewLease, RenewalFails, DiscardResult, FinishHandler,
     RecordTaskResult, PublishCompletion, MarkTaskCompleted, AckTask,
     AnswerMalformed, DeadLetter
<1>5. CASE \/ \E w \in Worker : CrashWorker(w)
           \/ \E n \in Node, k \in AttemptNumber : ExpireLease(n, k)
  BY <1>5 DEF CrashWorker, ExpireLease
<1>6. CASE UNCHANGED vars
  BY <1>6 DEF vars
<1> QED
  BY <1>1, <1>2, <1>3, <1>4, <1>5, <1>6 DEF Next, Done

\* The invariant is inductive.
LEMMA NextReaders ==
  ASSUME ReadersInv, [Next]_vars
  PROVE  ReadersInv'
<1>1. CASE UNCHANGED readerVars
  BY <1>1, EngineReaders
<1>2. ASSUME NEW r \in Reader, Get(r)
      PROVE  ReadersInv'
  BY <1>2, GetReaders
<1> QED
  BY <1>1, <1>2, OthersDoNotRead

\* ReadersInv is an invariant of the engine with its readers.
THEOREM ReadersInvariant == Spec => []ReadersInv
BY InitReaders, NextReaders, PTL DEF Spec

\* Results are given out only whole and for a completed execution, and the
\* guard of WorkflowExecutionResultsService against a completed execution
\* with failed nodes never fires.
THEOREM ResultsWholeHolds == Spec => []ResultsWhole
<1>1. ReadersInv => ResultsWhole
  <2> SUFFICES ASSUME ReadersInv, NEW r \in Reader,
                      answer[r].status = "COMPLETED"
               PROVE  /\ ~SomeFailed(answer[r].nodes)
                      /\ {n \in Node : answer[r].nodes[n] = "COMPLETED"} = Node
                      /\ wfStatus = "COMPLETED"
    BY DEF ResultsWhole, Results
  <2>1. AllCompleted(answer[r].nodes)
    BY DEF ReadersInv, Coherent
  <2>2. wfStatus \in Status /\ Advances("COMPLETED", wfStatus)
    BY DEF ReadersInv, Behind, GraphInv, TypeOK, DatabaseTypeOK, Status
  <2>3. wfStatus = "COMPLETED"
    BY <2>2, AdvancesOrder DEF Terminal, Status, WorkflowStatus
  <2> QED
    BY <2>1, <2>3 DEF AllCompleted, SomeFailed
<1> QED
  BY <1>1, ReadersInvariant, PTL

\* A failed execution is never shown without a failed node.
THEOREM FailureExplainedHolds == Spec => []FailureExplained
<1>1. ReadersInv => FailureExplained
  BY DEF ReadersInv, Coherent, FailureExplained
<1> QED
  BY <1>1, ReadersInvariant, PTL

\* Polling clients only see statuses move forward.
THEOREM AnswersAdvanceHolds == Spec => AnswersAdvance
<1>1. ASSUME ReadersInv, [Next]_vars
      PROVE  \A r \in Reader :
               /\ Advances(answer[r].status, answer'[r].status)
               /\ \A n \in Node :
                    Advances(answer[r].nodes[n], answer'[r].nodes[n])
  <2>1. CASE UNCHANGED readerVars
    BY <2>1 DEF readerVars, Advances
  <2>2. ASSUME NEW r \in Reader, Get(r)
        PROVE  \A q \in Reader :
                 /\ Advances(answer[q].status, answer'[q].status)
                 /\ \A n \in Node :
                      Advances(answer[q].nodes[n], answer'[q].nodes[n])
    <3>1. /\ Advances(answer[r].status, answer'[r].status)
          /\ \A n \in Node : Advances(answer[r].nodes[n], answer'[r].nodes[n])
          /\ \A q \in Reader : q # r => answer'[q] = answer[q]
      BY <1>1, <2>2, GetReaders
    <3> QED
      BY <3>1 DEF Advances
  <2> QED
    BY <1>1, <2>1, <2>2, OthersDoNotRead
<1> QED
  BY <1>1, ReadersInvariant, PTL DEF Spec, AnswersAdvance

=============================================================================
