----------------------- MODULE WorkflowAttemptProofs -----------------------
(***************************************************************************)
(* The attempts of every node: attempts form a chain, and a node fails     *)
(* only once its last attempt has failed or a dependency did.  The         *)
(* argument: every message in flight is about an attempt that exists, and  *)
(* no step deletes one.                                                    *)
(***************************************************************************)
EXTENDS WorkflowGraphProofs

\* A row that was never inserted is blank.
BlankRows ==
  \A n \in Node, k \in AttemptNumber : ~Exists(n, k) => attempt[n][k] = NoAttempt

TableInv == BlankRows /\ RetryChain /\ NodeFailureJustified

CompletionKnown(e) == Exists(e.node, e.attempt) /\ e.run # 0

JobKnown(j) ==
  j.pc # "idle" =>
    /\ Exists(j.entry.node, j.entry.attempt)
    /\ j.pc \in {"finished", "recorded", "published"} => j.run # 0

\* Whatever is in flight is about an attempt that exists.
MessagesKnown ==
  /\ \A r \in outbox : r.kind = "task" => Exists(r.node, 1)
  /\ \A m \in tasks \cup pendingTasks : Exists(m.node, m.attempt)
  /\ \A e \in completions : CompletionKnown(e)
  /\ \A o \in Orchestrator :
       /\ \A e \in batch[o] : e.kind = "completion" => CompletionKnown(e)
       /\ \A r \in due[o] : Exists(r[1], r[2])
  /\ \A s \in Slot : JobKnown(job[s])

AttemptInv == TableInv /\ MessagesKnown

\* No step deletes a row.
Grown == \A n \in Node, k \in AttemptNumber : Exists(n, k) => Exists(n, k)'

\* The rows are the ones that were there; only the last attempt may get a
\* failure, and none loses one.
SameRows ==
  \A n \in Node, k \in AttemptNumber :
    /\ Exists(n, k)' <=> Exists(n, k)
    /\ ~Exists(n, k) => attempt'[n][k] = attempt[n][k]
    /\ k # MaxAttempts => attempt'[n][k].failure = attempt[n][k].failure
    /\ k = MaxAttempts /\ attempt[n][k].failure # 0 => attempt'[n][k].failure # 0

\* How a node may move while no row is inserted.
NodeMove(n) ==
  \/ nodeStatus'[n] = nodeStatus[n]
  \/ nodeStatus[n] = "RUNNING" /\ nodeStatus'[n] = "COMPLETED"
  \/ nodeStatus[n] = "RUNNING" /\ nodeStatus'[n] = "FAILED"
       /\ attempt'[n][MaxAttempts].failure # 0
  \/ nodeStatus[n] = "PENDING" /\ nodeStatus'[n] = "FAILED"
       /\ \E d \in Deps[n] : nodeStatus'[d] = "FAILED"

\* Writing over an existing row.
LEMMA RowWritten ==
  ASSUME TypeOK, NEW n \in Node, NEW k \in AttemptNumber, NEW row \in AttemptRow,
         attempt' = [attempt EXCEPT ![n][k] = row],
         Exists(n, k), row.status # "none",
         \/ row.failure = attempt[n][k].failure
         \/ k = MaxAttempts /\ row.failure # 0
  PROVE  SameRows
<1>1. attempt \in [Node -> [AttemptNumber -> AttemptRow]]
  BY DEF TypeOK, DatabaseTypeOK
<1>2. attempt'[n][k] = row
        /\ \A i \in Node, j \in AttemptNumber :
             <<i, j>> # <<n, k>> => attempt'[i][j] = attempt[i][j]
  BY <1>1
<1> SUFFICES ASSUME NEW i \in Node, NEW j \in AttemptNumber
             PROVE  /\ Exists(i, j)' <=> Exists(i, j)
                    /\ ~Exists(i, j) => attempt'[i][j] = attempt[i][j]
                    /\ j # MaxAttempts => attempt'[i][j].failure = attempt[i][j].failure
                    /\ j = MaxAttempts /\ attempt[i][j].failure # 0
                         => attempt'[i][j].failure # 0
  BY DEF SameRows
<1>3. CASE i = n /\ j = k
  BY <1>2, <1>3 DEF Exists
<1>4. CASE ~(i = n /\ j = k)
  BY <1>2, <1>4 DEF Exists
<1> QED
  BY <1>3, <1>4

\* The table survives a step that inserts no row.
LEMMA TableMoves ==
  ASSUME TypeOK, TableInv, SameRows, \A n \in Node : NodeMove(n)
  PROVE  TableInv' /\ Grown
<1>0. 1 \in AttemptNumber /\ MaxAttempts \in AttemptNumber
        /\ \A k \in 1..(MaxAttempts - 1) :
             k \in AttemptNumber /\ k + 1 \in AttemptNumber /\ k # MaxAttempts
  BY MaxAttemptsAssumption DEF AttemptNumber
<1>1. Grown
  BY DEF SameRows, Grown
<1>2. BlankRows'
  BY DEF SameRows, BlankRows, TableInv
<1>3. RetryChain'
  <2> SUFFICES ASSUME NEW n \in Node
               PROVE  /\ Exists(n, 1)' => nodeStatus'[n] # "PENDING"
                      /\ nodeStatus'[n] \in {"RUNNING", "COMPLETED"} => Exists(n, 1)'
                      /\ \A k \in 1..(MaxAttempts - 1) :
                           Exists(n, k + 1)' <=> attempt'[n][k].failure # 0
    BY DEF RetryChain
  <2>1. /\ Exists(n, 1) => nodeStatus[n] # "PENDING"
        /\ nodeStatus[n] \in {"RUNNING", "COMPLETED"} => Exists(n, 1)
        /\ \A k \in 1..(MaxAttempts - 1) :
             Exists(n, k + 1) <=> attempt[n][k].failure # 0
    BY DEF TableInv, RetryChain
  <2>2. Exists(n, 1)' <=> Exists(n, 1)
    BY <1>0 DEF SameRows
  <2>3. ASSUME NEW k \in 1..(MaxAttempts - 1)
        PROVE  Exists(n, k + 1)' <=> attempt'[n][k].failure # 0
    BY <1>0, <2>1 DEF SameRows
  <2>4. NodeMove(n)
    OBVIOUS
  <2> QED
    BY <2>1, <2>2, <2>3, <2>4 DEF NodeMove
<1>4. NodeFailureJustified'
  <2> SUFFICES ASSUME NEW n \in Node, nodeStatus'[n] = "FAILED"
               PROVE  \/ attempt'[n][MaxAttempts].failure # 0
                      \/ ~Exists(n, 1)' /\ \E d \in Deps[n] : nodeStatus'[d] = "FAILED"
    BY DEF NodeFailureJustified
  <2>1. \A d \in Deps[n] : d \in Node
    BY DepsAssumption
  <2>2. Exists(n, 1)' <=> Exists(n, 1)
    BY <1>0 DEF SameRows
  <2>3. CASE nodeStatus[n] = "FAILED"
    <3>1. \/ attempt[n][MaxAttempts].failure # 0
          \/ ~Exists(n, 1) /\ \E d \in Deps[n] : nodeStatus[d] = "FAILED"
      BY <2>3 DEF TableInv, NodeFailureJustified
    <3>2. attempt[n][MaxAttempts].failure # 0 => attempt'[n][MaxAttempts].failure # 0
      BY <1>0 DEF SameRows
    <3>3. \A d \in Node : nodeStatus[d] = "FAILED" => nodeStatus'[d] = "FAILED"
      BY DEF NodeMove
    <3> QED
      BY <2>1, <2>2, <3>1, <3>2, <3>3
  <2>4. CASE nodeStatus[n] # "FAILED"
    <3>1. NodeMove(n)
      OBVIOUS
    <3>2. nodeStatus[n] = "PENDING" => ~Exists(n, 1)
      BY DEF TableInv, RetryChain
    <3> QED
      BY <2>2, <2>4, <3>1, <3>2 DEF NodeMove
  <2> QED
    BY <2>3, <2>4
<1> QED
  BY <1>1, <1>2, <1>3, <1>4 DEF TableInv

\* The messages after a step are old ones or about an attempt that exists.
LEMMA MessagesKept ==
  ASSUME TypeOK, MessagesKnown, Grown,
         \A r \in outbox' : r.kind = "task" => r \in outbox \/ Exists(r.node, 1)',
         \A m \in tasks' \cup pendingTasks' :
           m \in tasks \cup pendingTasks \/ Exists(m.node, m.attempt)',
         \A e \in completions' : e \in completions \/ CompletionKnown(e)',
         \A o \in Orchestrator :
           /\ \A e \in batch'[o] :
                e.kind = "completion" => e \in batch[o] \cup completions
           /\ \A r \in due'[o] : r \in due[o] \/ Exists(r[1], r[2])',
         \A s \in Slot : job'[s] = job[s] \/ JobKnown(job[s])'
  PROVE  MessagesKnown'
<1>1. ASSUME NEW r \in outbox', r.kind = "task"  PROVE Exists(r.node, 1)'
  <2>1. CASE r \in outbox
    <3>1. r.node \in Node /\ 1 \in AttemptNumber
      BY <1>1, <2>1, MaxAttemptsAssumption
         DEF TypeOK, DatabaseTypeOK, OutboxRow, TriggerRow, TaskRow, AttemptNumber
    <3> QED
      BY <1>1, <2>1, <3>1 DEF MessagesKnown, Grown
  <2> QED
    BY <1>1, <2>1
<1>2. ASSUME NEW m \in (tasks \cup pendingTasks)'  PROVE Exists(m.node, m.attempt)'
  <2>1. CASE m \in tasks \cup pendingTasks
    <3>1. m.node \in Node /\ m.attempt \in AttemptNumber
      BY <2>1 DEF TypeOK, StreamTypeOK, TaskEntry
    <3> QED
      BY <2>1, <3>1 DEF MessagesKnown, Grown
  <2> QED
    BY <1>2, <2>1
<1>3. ASSUME NEW e \in CompletionEntry, CompletionKnown(e)
      PROVE  CompletionKnown(e)'
  BY <1>3, Zenon DEF CompletionKnown, Grown, CompletionEntry
<1>4. ASSUME NEW e \in completions'  PROVE CompletionKnown(e)'
  BY <1>3 DEF MessagesKnown, TypeOK, StreamTypeOK
<1>5. ASSUME NEW o \in Orchestrator, NEW e \in batch'[o], e.kind = "completion"
      PROVE  CompletionKnown(e)'
  <2>1. e \in batch[o] \cup completions
    BY <1>5
  <2>2. e \in CompletionEntry /\ CompletionKnown(e)
    BY <1>5, <2>1 DEF MessagesKnown, TypeOK, StreamTypeOK, ProcessTypeOK, TriggerEntry
  <2> QED
    BY <1>3, <2>2
<1>6. ASSUME NEW o \in Orchestrator, NEW r \in due'[o]  PROVE Exists(r[1], r[2])'
  <2>1. CASE r \in due[o]
    <3>1. r[1] \in Node /\ r[2] \in AttemptNumber
      BY <2>1 DEF TypeOK, ProcessTypeOK, RetryKey
    <3> QED
      BY <2>1, <3>1 DEF MessagesKnown, Grown
  <2> QED
    BY <1>6, <2>1
<1>7. ASSUME NEW s \in Slot  PROVE JobKnown(job[s])'
  <2>1. CASE job'[s] = job[s]
    <3>1. JobKnown(job[s])
      BY DEF MessagesKnown
    <3>2. CASE job[s].pc # "idle"
      <4>1. job[s].entry.node \in Node /\ job[s].entry.attempt \in AttemptNumber
        BY <3>2, BusyJob, Zenon
      <4> QED
        BY <2>1, <3>1, <3>2, <4>1 DEF JobKnown, Grown
    <3>3. CASE job[s].pc = "idle"
      BY <2>1, <3>3, Zenon DEF JobKnown
    <3> QED
      BY <3>2, <3>3
  <2> QED
    BY <1>7, <2>1
<1> QED
  BY <1>1, <1>2, <1>4, <1>5, <1>6, <1>7 DEF MessagesKnown

\* A step that leaves the table and the nodes alone.
LEMMA TableUnchanged ==
  ASSUME TypeOK, TableInv, UNCHANGED <<attempt, nodeStatus>>
  PROVE  TableInv' /\ Grown
<1>1. SameRows
  BY DEF SameRows, Exists
<1>2. \A n \in Node : NodeMove(n)
  BY DEF NodeMove
<1> QED
  BY <1>1, <1>2, TableMoves

\* An update of one existing row that records no failure.
LEMMA RowUpdated ==
  ASSUME TypeOK, TableInv, nodeStatus' = nodeStatus,
         NEW n \in Node, NEW k \in AttemptNumber, NEW row \in AttemptRow,
         attempt' = [attempt EXCEPT ![n][k] = row],
         Exists(n, k), row.status # "none", row.failure = attempt[n][k].failure
  PROVE  TableInv' /\ Grown
<1>1. SameRows
  BY RowWritten, Zenon
<1>2. \A i \in Node : NodeMove(i)
  BY DEF NodeMove
<1> QED
  BY <1>1, <1>2, TableMoves

\* A coroutine writes only into the row of its own attempt, if at all.
LEMMA WorkerTable ==
  ASSUME TypeOK, AttemptInv, NEW s \in Slot, WorkerStep(s)
  PROVE  TableInv' /\ Grown
<1> DEFINE m == job[s].entry
           a == AttemptOf(m)
<1>0. TableInv /\ nodeStatus' = nodeStatus
  BY WorkerQuiet DEF AttemptInv
<1>1. ASSUME NEW row \in AttemptRow, job[s].pc # "idle", StoreAttempt(m, row),
             row.failure = a.failure, row.status = a.status \/ row.status # "none"
      PROVE  TableInv' /\ Grown
  <2>1. m.node \in Node /\ m.attempt \in AttemptNumber
    BY <1>1, BusyJob
  <2>2. Exists(m.node, m.attempt)
    BY <1>1 DEF AttemptInv, MessagesKnown, JobKnown
  <2>3. row.status # "none"
    BY <1>1, <2>2, Zenon DEF Exists, AttemptOf
  <2>4. attempt' = [attempt EXCEPT ![m.node][m.attempt] = row]
          /\ row.failure = attempt[m.node][m.attempt].failure
    BY <1>1, Zenon DEF StoreAttempt, AttemptOf
  <2> HIDE DEF m, a
  <2> QED
    BY <1>0, <2>1, <2>2, <2>3, <2>4, RowUpdated, Zenon
<1>2. CASE attempt' = attempt
  BY <1>0, <1>2, TableUnchanged
<1>3. CASE Claim(s)
  <2>1. WorkerOf[s] \in Worker
    BY WorkerOfAssumption
  <2>2. a \in AttemptRow /\ job[s].pc # "idle"
    BY <1>3, BusyJob DEF Claim, At
  <2>3. ClaimAttempt(a, WorkerOf[s]) \in AttemptRow
    BY <2>1, <2>2, ClaimedRow
  <2>4. StoreAttempt(m, ClaimAttempt(a, WorkerOf[s]))
    BY <1>3 DEF Claim
  <2>5. ClaimAttempt(a, WorkerOf[s]).failure = a.failure
          /\ ClaimAttempt(a, WorkerOf[s]).status # "none"
    BY <2>2 DEF ClaimAttempt, AttemptRow
  <2> HIDE DEF m, a
  <2> QED
    BY <1>1, <2>2, <2>3, <2>4, <2>5
<1>4. CASE RenewLease(s)
  <2>1. a \in AttemptRow /\ job[s].pc # "idle"
    BY <1>4, BusyJob DEF RenewLease, At
  <2>2. RenewClaim(a) \in AttemptRow
    BY <2>1, UpdatedRows, Zenon
  <2>3. StoreAttempt(m, RenewClaim(a))
    BY <1>4 DEF RenewLease
  <2>4. RenewClaim(a).failure = a.failure /\ RenewClaim(a).status = a.status
    BY <2>1 DEF RenewClaim, AttemptRow
  <2> HIDE DEF m, a
  <2> QED
    BY <1>1, <2>1, <2>2, <2>3, <2>4
<1>5. CASE (\E ok \in BOOLEAN : FinishHandler(s, ok)) \/ AnswerMalformed(s)
  <2>1. a \in AttemptRow /\ job[s].pc # "idle"
    BY <1>5, BusyJob, Zenon DEF FinishHandler, AnswerMalformed, At
  <2>2. [a EXCEPT !.runs = @ + 1] \in AttemptRow
    BY <2>1, UpdatedRows, Zenon
  <2>3. StoreAttempt(m, [a EXCEPT !.runs = @ + 1])
    BY <1>5, Zenon DEF FinishHandler, AnswerMalformed
  <2>4. [a EXCEPT !.runs = @ + 1].failure = a.failure
          /\ [a EXCEPT !.runs = @ + 1].status = a.status
    BY <2>1 DEF AttemptRow
  <2> HIDE DEF m, a
  <2> QED
    BY <1>1, <2>1, <2>2, <2>3, <2>4, Zenon
<1>6. CASE RecordTaskResult(s) /\ attempt' # attempt
  <2> DEFINE row == RecordResult(a, job[s].run, job[s].ok)
  <2>1. a \in AttemptRow /\ job[s].pc # "idle" /\ job[s] \in Job
    BY <1>6, BusyJob, Zenon DEF RecordTaskResult, At
  <2>2. row \in AttemptRow
    BY <2>1, UpdatedRows, Zenon DEF Job
  <2>3. StoreAttempt(m, row)
    BY <1>6 DEF RecordTaskResult
  <2>4. row.failure = a.failure /\ row.status # "none"
    BY <2>1 DEF RecordResult, AttemptRow
  <2> HIDE DEF m, a, row
  <2> QED
    BY <1>1, <2>1, <2>2, <2>3, <2>4
<1>7. CASE MarkTaskCompleted(s) /\ attempt' # attempt
  <2>1. a \in AttemptRow /\ job[s].pc # "idle"
    BY <1>7, BusyJob DEF MarkTaskCompleted, At
  <2>2. MarkCompleted(a) \in AttemptRow
    BY <2>1, UpdatedRows, Zenon
  <2>3. StoreAttempt(m, MarkCompleted(a))
    BY <1>7 DEF MarkTaskCompleted
  <2>4. MarkCompleted(a).failure = a.failure /\ MarkCompleted(a).status # "none"
    BY <2>1 DEF MarkCompleted, AttemptRow
  <2> HIDE DEF m, a
  <2> QED
    BY <1>1, <2>1, <2>2, <2>3, <2>4
<1> QED
  BY <1>2, <1>3, <1>4, <1>5, <1>6, <1>7, Zenon
     DEF WorkerStep, Deliver, Reclaim, ClaimRefused, ReplayResult, RenewalFails,
         DiscardResult, PublishCompletion, AckTask, DeadLetter, dbVars

\* What a coroutine publishes is about the attempt it holds.
LEMMA WorkerMessages ==
  ASSUME TypeOK, AttemptInv, NEW s \in Slot, WorkerStep(s), Grown
  PROVE  MessagesKnown'
<1> DEFINE m == job[s].entry
           a == AttemptOf(m)
<1>0. /\ job \in [Slot -> Job \cup {IdleJob}]
      /\ MessagesKnown
      /\ outbox' = outbox /\ batch' = batch
  BY WorkerQuiet DEF AttemptInv, TypeOK, ProcessTypeOK
<1>1. due' = due
  BY Zenon DEF WorkerStep, Deliver, Reclaim, Claim, ClaimRefused, ReplayResult,
     RenewLease, RenewalFails, DiscardResult, FinishHandler,
     RecordTaskResult, PublishCompletion, MarkTaskCompleted, AckTask,
     AnswerMalformed, DeadLetter, orchVars
<1>2. ASSUME \A t \in tasks' \cup pendingTasks' : t \in tasks \cup pendingTasks,
             \A e \in completions' : e \in completions \/ CompletionKnown(e)',
             \A t \in Slot : t # s => job'[t] = job[t],
             job'[s] = job[s] \/ JobKnown(job[s])'
      PROVE  MessagesKnown'
  <2>1. \A t \in Slot : job'[t] = job[t] \/ JobKnown(job[t])'
    BY <1>2
  <2> QED
    BY <1>0, <1>1, <1>2, <2>1, MessagesKept
<1>3. ASSUME job[s].pc # "idle"
      PROVE  /\ m.node \in Node /\ m.attempt \in AttemptNumber
             /\ attempt'[m.node][m.attempt].status # "none"
             /\ job[s] \in Job /\ a \in AttemptRow
             /\ job[s].pc \in {"finished", "recorded", "published"} => job[s].run # 0
  <2>1. m.node \in Node /\ m.attempt \in AttemptNumber /\ job[s] \in Job
          /\ a \in AttemptRow
    BY <1>3, BusyJob
  <2>2. Exists(m.node, m.attempt)
          /\ (job[s].pc \in {"finished", "recorded", "published"} => job[s].run # 0)
    BY <1>0, <1>3 DEF MessagesKnown, JobKnown
  <2> QED
    BY <2>1, <2>2, Zenon DEF Grown, Exists
<1>4. ASSUME NEW e \in tasks \cup pendingTasks, Hold(s, e),
             tasks' \cup pendingTasks' \subseteq tasks \cup pendingTasks,
             completions' = completions
      PROVE  MessagesKnown'
  <2>1. e.node \in Node /\ e.attempt \in AttemptNumber
    BY DEF TypeOK, StreamTypeOK, TaskEntry
  <2>2. Exists(e.node, e.attempt)'
    BY <1>0, <2>1 DEF MessagesKnown, Grown
  <2>3. job' = [job EXCEPT ![s] = [pc |-> "delivered", entry |-> e, run |-> 0, ok |-> TRUE]]
    BY <1>4 DEF Hold
  <2>4. JobKnown(job[s])' /\ \A t \in Slot : t # s => job'[t] = job[t]
    BY <1>0, <2>2, <2>3 DEF JobKnown
  <2> QED
    BY <1>2, <1>4, <2>4
<1>5. ASSUME job[s].pc # "idle", NEW pc, Step(s, pc),
             pc \in {"finished", "recorded", "published"}
               => job[s].pc \in {"finished", "recorded", "published"}
      PROVE  JobKnown(job[s])' /\ \A t \in Slot : t # s => job'[t] = job[t]
  <2>1. job'[s].entry = m /\ job'[s].run = job[s].run /\ job'[s].pc = pc
          /\ \A t \in Slot : t # s => job'[t] = job[t]
    BY <1>0, <1>3, <1>5 DEF Step, Job
  <2> QED
    BY <1>3, <1>5, <2>1, Zenon DEF JobKnown, Exists
<1>6. ASSUME Quit(s)
      PROVE  JobKnown(job[s])' /\ \A t \in Slot : t # s => job'[t] = job[t]
  BY <1>0, <1>6 DEF Quit, IdleJob, JobKnown
<1>7. ASSUME job[s].pc # "idle", NEW run, run # 0, NEW ok, AddCompletion(m, run, ok)
      PROVE  \A e \in completions' : e \in completions \/ CompletionKnown(e)'
  <2>1. PICK c \in Copy : completions' = completions \cup
           {[kind |-> "completion", node |-> m.node, attempt |-> m.attempt,
             run |-> run, ok |-> ok, copy |-> c]}
    BY <1>7 DEF AddCompletion
  <2>2. attempt'[m.node][m.attempt].status # "none"
    BY <1>3, <1>7, Zenon
  <2>3. \A e \in completions' : e \in completions
          \/ (e.node = m.node /\ e.attempt = m.attempt /\ e.run = run)
    BY <2>1
  <2> QED
    BY <1>7, <2>2, <2>3, Zenon DEF CompletionKnown, Exists
<1>8. ASSUME NEW e \in tasks, Deliver(s, e)  PROVE MessagesKnown'
  BY <1>4, <1>8 DEF Deliver
<1>9. ASSUME NEW e \in pendingTasks, Reclaim(s, e)  PROVE MessagesKnown'
  BY <1>4, <1>9 DEF Reclaim, streamVars
<1>10. CASE Claim(s) \/ RenewalFails(s) \/ DeadLetter(s)
  <2>1. job[s].pc # "idle" /\ UNCHANGED <<tasks, pendingTasks, completions>>
          /\ \E pc \in {"running", "doomed", "skip"} : Step(s, pc)
    BY <1>10, Zenon DEF Claim, RenewalFails, DeadLetter, At, streamVars
  <2> QED
    BY <1>2, <1>5, <2>1
<1>11. CASE ClaimRefused(s)
  <2>1. job[s].pc # "idle" /\ UNCHANGED <<tasks, pendingTasks, completions>>
          /\ (Quit(s) \/ \E pc \in {"replay", "skip"} : Step(s, pc))
    BY <1>11 DEF ClaimRefused, AfterRefusal, At, streamVars
  <2> QED
    BY <1>2, <1>5, <1>6, <2>1, Zenon
<1>12. CASE DiscardResult(s) \/ AckTask(s)
  <2>1. Quit(s) /\ UNCHANGED <<tasks, completions>> /\ pendingTasks' \subseteq pendingTasks
    BY <1>12 DEF DiscardResult, AckTask, streamVars
  <2> QED
    BY <1>2, <1>6, <2>1
<1>13. CASE ReplayResult(s)
  <2>1. job[s].pc # "idle" /\ UNCHANGED <<tasks, pendingTasks, completions>>
    BY <1>13 DEF ReplayResult, At, streamVars
  <2>2. CASE a.completion = 0
    BY <1>2, <1>6, <1>13, <2>1, <2>2 DEF ReplayResult
  <2>3. CASE a.completion # 0
    <3>1. job' = [job EXCEPT ![s].pc = "recorded", ![s].run = a.completion, ![s].ok = a.ok]
      BY <1>13, <2>3 DEF ReplayResult
    <3>2. job'[s].entry = m /\ job'[s].run = a.completion /\ job'[s].pc = "recorded"
            /\ \A t \in Slot : t # s => job'[t] = job[t]
      BY <1>0, <1>3, <2>1, <3>1 DEF Job
    <3>3. JobKnown(job[s])'
      BY <1>3, <2>1, <2>3, <3>2, Zenon DEF JobKnown, Exists
    <3> QED
      BY <1>2, <2>1, <3>2, <3>3
  <2> QED
    BY <2>2, <2>3
<1>14. CASE RenewLease(s)
  BY <1>2, <1>14 DEF RenewLease, streamVars
<1>15. ASSUME NEW ok \in BOOLEAN, FinishHandler(s, ok)  PROVE MessagesKnown'
  <2>1. job[s].pc # "idle" /\ UNCHANGED <<tasks, pendingTasks, completions>>
          /\ job' = [job EXCEPT ![s].pc = "finished", ![s].run = a.runs + 1, ![s].ok = ok]
    BY <1>15 DEF FinishHandler, At, streamVars
  <2>2. job'[s].entry = m /\ job'[s].run = a.runs + 1 /\ job'[s].pc = "finished"
          /\ \A t \in Slot : t # s => job'[t] = job[t]
    BY <1>0, <1>3, <2>1 DEF Job
  <2>3. a.runs + 1 # 0
    BY <1>3, <2>1 DEF AttemptRow
  <2>4. JobKnown(job[s])'
    BY <1>3, <2>1, <2>2, <2>3, Zenon DEF JobKnown, Exists
  <2> QED
    BY <1>2, <2>1, <2>2, <2>4, Zenon
<1>16. CASE RecordTaskResult(s) \/ MarkTaskCompleted(s)
  <2>1. /\ job[s].pc \in {"finished", "published"}
        /\ UNCHANGED <<tasks, pendingTasks, completions>>
        /\ Quit(s) \/ \E pc \in {"recorded", "ack"} : Step(s, pc)
    BY <1>16, Zenon DEF RecordTaskResult, MarkTaskCompleted, At, streamVars
  <2> QED
    BY <1>2, <1>5, <1>6, <2>1
<1>17. CASE PublishCompletion(s)
  <2>1. job[s].pc = "recorded" /\ UNCHANGED <<tasks, pendingTasks>>
          /\ Step(s, "published") /\ AddCompletion(m, job[s].run, job[s].ok)
    BY <1>17, Zenon DEF PublishCompletion, At
  <2> QED
    BY <1>2, <1>3, <1>5, <1>7, <2>1, Zenon
<1>18. CASE AnswerMalformed(s)
  <2>1. job[s].pc # "idle" /\ UNCHANGED <<tasks, pendingTasks>>
          /\ Step(s, "skip") /\ AddCompletion(m, a.runs + 1, FALSE)
    BY <1>18, Zenon DEF AnswerMalformed, At
  <2>2. a.runs + 1 # 0
    <3>1. a \in AttemptRow
      BY <1>3, <2>1, Zenon
    <3>2. a.runs \in Nat
      BY <3>1, Zenon DEF AttemptRow
    <3> QED
      BY <3>2, SMT
  <2>3. JobKnown(job[s])' /\ \A t \in Slot : t # s => job'[t] = job[t]
    BY <1>5, <2>1
  <2>4. \A e \in completions' : e \in completions \/ CompletionKnown(e)'
    BY <1>7, <2>1, <2>2, Zenon
  <2> QED
    BY <1>2, <2>1, <2>3, <2>4
<1> QED
  BY <1>8, <1>9, <1>10, <1>11, <1>12, <1>13, <1>14, <1>15, <1>16, <1>17, <1>18
     DEF WorkerStep

\* An outcome is written over the row of its attempt; short of the last
\* attempt only a success is.
LEMMA OutcomeRows ==
  ASSUME TypeOK, NEW e \in CompletionEntry, CompletionKnown(e), RecordOutcome(e),
         e.ok \/ ~Recorded(e) \/ RetriesExhausted(e.attempt)
  PROVE  /\ SameRows
         /\ ~e.ok /\ Recorded(e) => attempt'[e.node][MaxAttempts].failure # 0
<1> DEFINE old == attempt[e.node][e.attempt]
           row == IF ~Recorded(e) THEN old
                  ELSE IF e.ok THEN RecordSuccess(old, e.run)
                       ELSE RecordFailure(old, e.run)
<1>1. e.node \in Node /\ e.attempt \in AttemptNumber /\ e.run \in Nat
        /\ Exists(e.node, e.attempt) /\ e.run # 0
  BY DEF CompletionEntry, CompletionKnown
<1>2. old \in AttemptRow /\ old.status # "none"
  BY <1>1 DEF TypeOK, DatabaseTypeOK, Exists
<1>3. RecordSuccess(old, e.run) \in AttemptRow /\ RecordFailure(old, e.run) \in AttemptRow
  BY <1>1, <1>2, UpdatedRows, Zenon
<1>4. /\ RecordSuccess(old, e.run).status # "none"
      /\ RecordSuccess(old, e.run).failure = old.failure
      /\ RecordFailure(old, e.run).status # "none"
      /\ RecordFailure(old, e.run).failure = e.run
  BY <1>2 DEF RecordSuccess, RecordFailure, AttemptRow
<1>5. RetriesExhausted(e.attempt) => e.attempt = MaxAttempts
  BY <1>1, MaxAttemptsAssumption DEF RetriesExhausted, AttemptNumber
<1>6. /\ row \in AttemptRow /\ row.status # "none"
      /\ row.failure = old.failure \/ (e.attempt = MaxAttempts /\ row.failure # 0)
      /\ ~e.ok /\ Recorded(e) => e.attempt = MaxAttempts /\ row.failure # 0
  BY <1>1, <1>2, <1>3, <1>4, <1>5, Zenon
<1>7. attempt' = [attempt EXCEPT ![e.node][e.attempt] = row]
  BY <1>1 DEF RecordOutcome, TypeOK, DatabaseTypeOK
<1>8. SameRows
  <2> HIDE DEF row
  <2> QED
    BY <1>1, <1>6, <1>7, RowWritten, Zenon
<1>9. attempt'[e.node][e.attempt] = row
  <2> HIDE DEF row
  <2> QED
    BY <1>1, <1>7 DEF TypeOK, DatabaseTypeOK
<1> QED
  BY <1>6, <1>8, <1>9, Zenon

\* A transaction that finishes a node.
LEMMA FinishTable ==
  ASSUME GraphInv, AttemptInv, NEW o \in Orchestrator, NEW e \in batch[o],
         CompleteNode(o, e) \/ FailNode(o, e)
  PROVE  TableInv' /\ Grown
<1>1. /\ e \in CompletionEntry /\ NodeRunning(e) /\ RecordOutcome(e)
      /\ FinishNode(o, e, IF e.ok THEN "COMPLETED" ELSE "FAILED")
      /\ e.ok \/ (Recorded(e) /\ RetriesExhausted(e.attempt))
  BY DEF CompleteNode, FailNode, Completion
<1>2. CompletionKnown(e)
  BY <1>1, Zenon DEF AttemptInv, MessagesKnown, CompletionEntry
<1>3. SameRows /\ (~e.ok => attempt'[e.node][MaxAttempts].failure # 0)
  BY <1>1, <1>2, OutcomeRows DEF GraphInv
<1> DEFINE st == IF e.ok THEN "COMPLETED" ELSE "FAILED"
<1>4. st \in Terminal /\ FinishNode(o, e, st)
  BY <1>1 DEF Terminal
<1>5. /\ e.node \in Node /\ nodeStatus[e.node] = "RUNNING"
      /\ nodeStatus'[e.node] = st
      /\ \A n \in Node \ {e.node} :
           \/ nodeStatus'[n] = nodeStatus[n]
           \/ nodeStatus[n] = "PENDING" /\ nodeStatus'[n] = "FAILED"
  <2> HIDE DEF st
  <2>1. /\ e.node \in Node /\ nodeStatus[e.node] = "RUNNING"
        /\ nodeStatus'[e.node] = st
    BY <1>1, <1>4, FinishNodeStatuses
  <2>2. \A n \in Node \ {e.node} :
          \/ nodeStatus'[n] = nodeStatus[n]
          \/ nodeStatus[n] = "PENDING" /\ nodeStatus'[n] = "FAILED"
               /\ st = "FAILED"
    BY <1>1, <1>4, FinishNodeStatuses, Zenon
  <2> QED
    BY <2>1, <2>2, Zenon
<1>6. ASSUME NEW n \in Node, nodeStatus[n] = "PENDING", nodeStatus'[n] = "FAILED"
      PROVE  \E d \in Deps[n] : nodeStatus'[d] = "FAILED"
  <2> DEFINE own     == [nodeStatus EXCEPT ![e.node] = st]
             blocked == IF st = "FAILED" THEN FailedDependants(own) ELSE {}
  <2>1. nodeStatus' = FailPending(own, blocked)
    BY <1>1 DEF FinishNode
  <2>2. own[n] = "PENDING"
    BY <1>5, <1>6, Zenon DEF GraphInv, TypeOK, DatabaseTypeOK
  <2>3. n \in blocked /\ \A d \in Node :
          own[d] = "FAILED" \/ (d \in blocked /\ own[d] = "PENDING") => nodeStatus'[d] = "FAILED"
    <3> HIDE DEF own, blocked
    <3> QED
      BY <1>6, <2>1, <2>2 DEF FailPending
  <2>4. n \in FailedDependants(own) /\ blocked = FailedDependants(own)
    BY <2>3
  <2>5. PICK d \in Deps[n] : own[d] = "FAILED" \/ d \in FailedDependants(own)
    <3> HIDE DEF own
    <3> QED
      BY <2>4, FailedDependantsJustified
  <2>6. d \in Node
    BY DepsAssumption
  <2>7. d \in FailedDependants(own) => own[d] = "PENDING"
    <3> HIDE DEF own
    <3> QED
      BY DEF FailedDependants
  <2> HIDE DEF own, blocked
  <2> QED
    BY <2>3, <2>4, <2>5, <2>6, <2>7
<1>7. \A n \in Node : NodeMove(n)
  BY <1>3, <1>5, <1>6 DEF NodeMove
<1> QED
  BY <1>3, <1>7, TableMoves DEF GraphInv, AttemptInv

\* A retry is the first row for its attempt number.
LEMMA RetryTable ==
  ASSUME TypeOK, AttemptInv, NEW o \in Orchestrator, NEW e \in batch[o],
         ScheduleRetry(o, e)
  PROVE  TableInv' /\ Grown
<1> DEFINE n == e.node
           k == e.attempt
<1>0. attempt \in [Node -> [AttemptNumber -> AttemptRow]]
  BY DEF TypeOK, DatabaseTypeOK
<1>1. e \in CompletionEntry /\ n \in Node /\ k \in AttemptNumber /\ ~e.ok
        /\ ~FailureIsDuplicate(attempt[n][k], e.run) /\ nodeStatus' = nodeStatus
  BY DEF ScheduleRetry, Completion, CompletionEntry, Recorded, AttemptOf
<1>2. Exists(n, k) /\ e.run # 0
  BY <1>1, Zenon DEF AttemptInv, MessagesKnown, CompletionKnown, CompletionEntry
<1>3. k \in 1..(MaxAttempts - 1) /\ k + 1 \in AttemptNumber
        /\ k # MaxAttempts /\ k + 1 # k /\ k + 1 # 1
  BY <1>1, MaxAttemptsAssumption DEF ScheduleRetry, RetriesExhausted, AttemptNumber
<1>4. attempt[n][k].failure = 0
  BY <1>1 DEF FailureIsDuplicate
<1>5. ~Exists(n, k + 1) /\ attempt[n][k + 1] = NoAttempt
  BY <1>1, <1>3, <1>4 DEF AttemptInv, TableInv, RetryChain, BlankRows
<1>6. attempt[n][k + 1].failure = 0
  BY <1>5 DEF NoAttempt
<1>7. RecordFailure(attempt[n][k], e.run).status # "none"
        /\ RecordFailure(attempt[n][k], e.run).failure = e.run
  BY <1>0, <1>1 DEF RecordFailure, AttemptRow
<1>8. ScheduledAttempt.status # "none" /\ ScheduledAttempt.failure = 0
  BY DEF ScheduledAttempt, NoAttempt
<1>9. /\ attempt'[n][k] = RecordFailure(attempt[n][k], e.run)
      /\ attempt'[n][k + 1] = ScheduledAttempt
      /\ \A i \in Node, j \in AttemptNumber :
           <<i, j>> # <<n, k>> /\ <<i, j>> # <<n, k + 1>>
             => attempt'[i][j] = attempt[i][j]
  BY <1>0, <1>1, <1>3, Zenon DEF ScheduleRetry
<1>10. \A i \in Node, j \in AttemptNumber :
         /\ <<i, j>> # <<n, k + 1>> => (Exists(i, j)' <=> Exists(i, j))
         /\ <<i, j>> # <<n, k>> => attempt'[i][j].failure = attempt[i][j].failure
  <2> SUFFICES ASSUME NEW i \in Node, NEW j \in AttemptNumber
               PROVE  /\ <<i, j>> # <<n, k + 1>> => (Exists(i, j)' <=> Exists(i, j))
                      /\ <<i, j>> # <<n, k>>
                           => attempt'[i][j].failure = attempt[i][j].failure
    BY Zenon
  <2>1. CASE i = n /\ j = k
    BY <1>2, <1>7, <1>9, <2>1 DEF Exists
  <2>2. CASE i = n /\ j = k + 1
    BY <1>6, <1>8, <1>9, <2>2
  <2>3. CASE <<i, j>> # <<n, k>> /\ <<i, j>> # <<n, k + 1>>
    BY <1>9, <2>3 DEF Exists
  <2> QED
    BY <2>1, <2>2, <2>3, Zenon
<1>11. attempt'[n][k + 1].status # "none" /\ attempt'[n][k].failure # 0
  BY <1>2, <1>7, <1>8, <1>9, Zenon
<1> HIDE DEF n, k
<1>12. Grown
  <2> SUFFICES ASSUME NEW i \in Node, NEW j \in AttemptNumber, Exists(i, j)
               PROVE  attempt'[i][j].status # "none"
    BY DEF Grown, Exists
  <2> QED
    BY <1>10, <1>11 DEF Exists
<1>13. BlankRows'
  <2> SUFFICES ASSUME NEW i \in Node, NEW j \in AttemptNumber,
                      attempt'[i][j].status = "none"
               PROVE  attempt'[i][j] = NoAttempt
    BY DEF BlankRows, Exists
  <2>1. <<i, j>> # <<n, k + 1>>
    BY <1>11
  <2>2. ~Exists(i, j)
    BY <1>10, <2>1 DEF Exists
  <2>3. <<i, j>> # <<n, k>>
    BY <1>2, <2>2 DEF n, k
  <2> QED
    BY <1>9, <2>1, <2>2, <2>3 DEF AttemptInv, TableInv, BlankRows
<1>14. RetryChain'
  <2> SUFFICES ASSUME NEW i \in Node
               PROVE  /\ Exists(i, 1)' => nodeStatus'[i] # "PENDING"
                      /\ nodeStatus'[i] \in {"RUNNING", "COMPLETED"} => Exists(i, 1)'
                      /\ \A j \in 1..(MaxAttempts - 1) :
                           Exists(i, j + 1)' <=> attempt'[i][j].failure # 0
    BY DEF RetryChain
  <2>1. /\ Exists(i, 1) => nodeStatus[i] # "PENDING"
        /\ nodeStatus[i] \in {"RUNNING", "COMPLETED"} => Exists(i, 1)
        /\ \A j \in 1..(MaxAttempts - 1) :
             Exists(i, j + 1) <=> attempt[i][j].failure # 0
    BY DEF AttemptInv, TableInv, RetryChain
  <2>2. Exists(i, 1)' <=> Exists(i, 1)
    BY <1>3, <1>10, MaxAttemptsAssumption DEF AttemptNumber
  <2>3. ASSUME NEW j \in 1..(MaxAttempts - 1)
        PROVE  Exists(i, j + 1)' <=> attempt'[i][j].failure # 0
    <3>1. j \in AttemptNumber /\ j + 1 \in AttemptNumber /\ (j + 1 = k + 1 => j = k)
      BY <1>3, MaxAttemptsAssumption DEF AttemptNumber
    <3>2. CASE i = n /\ j = k
      BY <1>11, <3>2 DEF Exists
    <3>3. CASE ~(i = n /\ j = k)
      BY <1>10, <2>1, <3>1, <3>3
    <3> QED
      BY <3>2, <3>3
  <2> QED
    BY <1>1, <2>1, <2>2, <2>3
<1>15. NodeFailureJustified'
  <2> SUFFICES ASSUME NEW i \in Node, nodeStatus'[i] = "FAILED"
               PROVE  \/ attempt'[i][MaxAttempts].failure # 0
                      \/ ~Exists(i, 1)' /\ \E d \in Deps[i] : nodeStatus'[d] = "FAILED"
    BY DEF NodeFailureJustified
  <2>1. \/ attempt[i][MaxAttempts].failure # 0
        \/ ~Exists(i, 1) /\ \E d \in Deps[i] : nodeStatus[d] = "FAILED"
    BY <1>1 DEF AttemptInv, TableInv, NodeFailureJustified
  <2>2. 1 \in AttemptNumber /\ MaxAttempts \in AttemptNumber
    BY MaxAttemptsAssumption DEF AttemptNumber
  <2>3. (Exists(i, 1)' <=> Exists(i, 1))
          /\ attempt'[i][MaxAttempts].failure = attempt[i][MaxAttempts].failure
    BY <1>3, <1>10, <2>2
  <2> QED
    BY <1>1, <2>1, <2>3, Zenon
<1> QED
  BY <1>12, <1>13, <1>14, <1>15 DEF TableInv

\* A dispatch inserts the first attempt of a node that had none.
LEMMA DispatchTable ==
  ASSUME GraphInv, AttemptInv, NEW o \in Orchestrator, NEW n \in Node,
         DispatchNode(o, n)
  PROVE  /\ TableInv' /\ Grown /\ Exists(n, 1)'
         /\ outbox' = outbox \cup {[kind |-> "task", node |-> n]}
<1>0. attempt \in [Node -> [AttemptNumber -> AttemptRow]]
        /\ nodeStatus \in [Node -> NodeStatus] /\ TableInv
        /\ 1 \in AttemptNumber /\ MaxAttempts \in AttemptNumber
  BY MaxAttemptsAssumption DEF GraphInv, TypeOK, DatabaseTypeOK, AttemptInv, AttemptNumber
<1>1. /\ nodeStatus[n] = "PENDING"
      /\ nodeStatus' = [nodeStatus EXCEPT ![n] = "RUNNING"]
      /\ RegisterInitialTask(n)
      /\ outbox' = outbox \cup {[kind |-> "task", node |-> n]}
  <2>1. n \in ready[o]
    BY DEF DispatchNode, Dispatched
  <2> QED
    BY <2>1, ReadyNotBlocked, Zenon DEF DispatchNode, Claimable
<1>2. ~Exists(n, 1) /\ attempt[n][1] = NoAttempt
  BY <1>0, <1>1 DEF TableInv, RetryChain, BlankRows
<1>3. /\ attempt'[n][1] = InitialAttempt
      /\ \A i \in Node, j \in AttemptNumber :
           <<i, j>> # <<n, 1>> => attempt'[i][j] = attempt[i][j]
  BY <1>0, <1>1, <1>2 DEF RegisterInitialTask, Exists
<1>4. InitialAttempt.status # "none" /\ InitialAttempt.failure = NoAttempt.failure
  BY DEF InitialAttempt, NoAttempt
<1>5. \A i \in Node, j \in AttemptNumber :
        /\ <<i, j>> # <<n, 1>> => (Exists(i, j)' <=> Exists(i, j))
        /\ attempt'[i][j].failure = attempt[i][j].failure
  BY <1>2, <1>3, <1>4 DEF Exists
<1>6. Exists(n, 1)'
  BY <1>3, <1>4 DEF Exists
<1>7. Grown
  BY <1>2, <1>5 DEF Grown
<1>8. BlankRows'
  <2> SUFFICES ASSUME NEW i \in Node, NEW j \in AttemptNumber, ~Exists(i, j)'
               PROVE  attempt'[i][j] = NoAttempt
    BY DEF BlankRows
  <2>1. <<i, j>> # <<n, 1>>
    BY <1>6
  <2> QED
    BY <1>0, <1>3, <1>5, <2>1 DEF TableInv, BlankRows
<1>9. RetryChain'
  <2> SUFFICES ASSUME NEW i \in Node
               PROVE  /\ Exists(i, 1)' => nodeStatus'[i] # "PENDING"
                      /\ nodeStatus'[i] \in {"RUNNING", "COMPLETED"} => Exists(i, 1)'
                      /\ \A j \in 1..(MaxAttempts - 1) :
                           Exists(i, j + 1)' <=> attempt'[i][j].failure # 0
    BY DEF RetryChain
  <2>1. /\ Exists(i, 1) => nodeStatus[i] # "PENDING"
        /\ nodeStatus[i] \in {"RUNNING", "COMPLETED"} => Exists(i, 1)
        /\ \A j \in 1..(MaxAttempts - 1) :
             Exists(i, j + 1) <=> attempt[i][j].failure # 0
    BY <1>0 DEF TableInv, RetryChain
  <2>2. ASSUME NEW j \in 1..(MaxAttempts - 1)
        PROVE  Exists(i, j + 1)' <=> attempt'[i][j].failure # 0
    <3>1. j \in AttemptNumber /\ j + 1 \in AttemptNumber /\ j + 1 # 1
      BY MaxAttemptsAssumption DEF AttemptNumber
    <3> QED
      BY <1>5, <2>1, <3>1, Zenon
  <2>3. CASE i = n
    BY <1>0, <1>1, <1>6, <2>2, <2>3, Zenon
  <2>4. CASE i # n
    <3>1. (Exists(i, 1)' <=> Exists(i, 1)) /\ nodeStatus'[i] = nodeStatus[i]
      BY <1>0, <1>1, <1>5, <2>4, Zenon
    <3> QED
      BY <2>1, <2>2, <3>1, Zenon
  <2> QED
    BY <2>3, <2>4, Zenon
<1>10. NodeFailureJustified'
  <2> SUFFICES ASSUME NEW i \in Node, nodeStatus'[i] = "FAILED"
               PROVE  \/ attempt'[i][MaxAttempts].failure # 0
                      \/ ~Exists(i, 1)' /\ \E d \in Deps[i] : nodeStatus'[d] = "FAILED"
    BY DEF NodeFailureJustified
  <2>1. i # n /\ nodeStatus[i] = "FAILED"
    BY <1>0, <1>1
  <2>2. \/ attempt[i][MaxAttempts].failure # 0
        \/ ~Exists(i, 1) /\ \E d \in Deps[i] : nodeStatus[d] = "FAILED"
    BY <1>0, <2>1 DEF TableInv, NodeFailureJustified
  <2>3. (Exists(i, 1)' <=> Exists(i, 1))
          /\ attempt'[i][MaxAttempts].failure = attempt[i][MaxAttempts].failure
    BY <1>0, <1>5, <2>1
  <2>4. \A d \in Deps[i] : nodeStatus[d] = "FAILED" => nodeStatus'[d] = "FAILED"
    BY <1>0, <1>1, DepsAssumption
  <2> QED
    BY <2>2, <2>3, <2>4, Zenon
<1> QED
  BY <1>1, <1>6, <1>7, <1>8, <1>9, <1>10 DEF TableInv

\* The completions that finish no node and schedule no retry.
LEMMA IgnoredTable ==
  ASSUME TypeOK, AttemptInv, NEW o \in Orchestrator, NEW e \in batch[o],
         IgnoreCompletion(o, e)
  PROVE  TableInv' /\ Grown
<1>1. e \in CompletionEntry /\ nodeStatus' = nodeStatus
        /\ (e.ok \/ ~Recorded(e) \/ RetriesExhausted(e.attempt))
  BY Zenon DEF IgnoreCompletion, Completion
<1>2. CASE attempt' = attempt
  BY <1>1, <1>2, TableUnchanged DEF AttemptInv
<1>3. CASE RecordOutcome(e)
  <2>1. CompletionKnown(e)
    BY <1>1 DEF AttemptInv, MessagesKnown, CompletionEntry
  <2>2. SameRows
    BY <1>1, <1>3, <2>1, OutcomeRows
  <2>3. \A n \in Node : NodeMove(n)
    BY <1>1 DEF NodeMove
  <2> QED
    BY <2>2, <2>3, TableMoves DEF AttemptInv
<1> QED
  BY <1>2, <1>3, Zenon DEF IgnoreCompletion

\* A late mark_retry_published finds the retry it publishes, or nothing.
LEMMA MarkTable ==
  ASSUME TypeOK, AttemptInv, NEW o \in Orchestrator, NEW r \in RetryKey,
         MarkRetry(o, r)
  PROVE  TableInv' /\ Grown
<1> DEFINE n == r[1]
           k == r[2]
           old == attempt[n][k]
<1>1. n \in Node /\ k \in AttemptNumber /\ nodeStatus' = nodeStatus
  BY DEF RetryKey, MarkRetry
<1>2. old \in AttemptRow /\ TableInv
  BY <1>1 DEF TypeOK, DatabaseTypeOK, AttemptInv
<1>3. attempt' = [attempt EXCEPT ![n][k] = MarkRetryPublished(old)]
  BY DEF MarkRetry
<1>4. CASE old.status = "none"
  <2>1. MarkRetryPublished(old) = old
    BY <1>1, <1>2, <1>4 DEF TableInv, BlankRows, Exists, NoAttempt, MarkRetryPublished
  <2>2. attempt' = attempt
    BY <1>1, <1>3, <2>1 DEF TypeOK, DatabaseTypeOK
  <2> QED
    BY <1>1, <1>2, <2>2, TableUnchanged
<1>5. CASE old.status # "none"
  <2>1. MarkRetryPublished(old) \in AttemptRow
    BY <1>2, UpdatedRows, Zenon
  <2>2. MarkRetryPublished(old).status # "none"
          /\ MarkRetryPublished(old).failure = old.failure
    BY <1>2, <1>5 DEF MarkRetryPublished, AttemptRow
  <2>3. Exists(n, k)
    BY <1>5 DEF Exists
  <2> HIDE DEF n, k
  <2> QED
    BY <1>1, <1>2, <1>3, <2>1, <2>2, <2>3, RowUpdated, Zenon
<1> QED
  BY <1>4, <1>5

\* XADD of an outbox row: a task row has its first attempt.
LEMMA PublishAttempts ==
  ASSUME TypeOK, AttemptInv, NEW m \in outbox, PublishTrigger(m) \/ PublishTask(m),
         UNCHANGED <<attempt, nodeStatus, pendingTasks, completions, batch, due, job>>,
         outbox' \subseteq outbox
  PROVE  AttemptInv'
<1>1. TableInv' /\ Grown
  BY TableUnchanged DEF AttemptInv
<1>2. \A t \in tasks' : t \in tasks \/ Exists(t.node, t.attempt)'
  <2>1. CASE PublishTask(m)
    <3>1. m.kind = "task"
      BY <2>1 DEF PublishTask, TaskRow
    <3>2. Exists(m.node, 1)'
      BY <3>1 DEF AttemptInv, MessagesKnown, Exists
    <3>3. PICK c \in Copy :
            tasks' = tasks \cup {[node |-> m.node, attempt |-> 1, copy |-> c]}
      BY <2>1 DEF PublishTask, AddTask
    <3> QED
      BY <3>2, <3>3
  <2>2. CASE PublishTrigger(m)
    BY <2>2 DEF PublishTrigger
  <2> QED
    BY <2>1, <2>2
<1>3. MessagesKnown'
  BY <1>1, <1>2, MessagesKept, Zenon DEF AttemptInv
<1> QED
  BY <1>1, <1>3 DEF AttemptInv

\* Every step of an orchestrator keeps the attempts in order.
LEMMA OrchestratorAttempts ==
  ASSUME GraphInv, AttemptInv, NEW o \in Orchestrator, OrchestratorStep(o)
  PROVE  AttemptInv'
<1>0. /\ TypeOK /\ TableInv /\ MessagesKnown
      /\ batch \in [Orchestrator -> SUBSET (TriggerEntry \cup CompletionEntry)]
      /\ due \in [Orchestrator -> SUBSET RetryKey]
  BY DEF GraphInv, AttemptInv, TypeOK, ProcessTypeOK
\* No message is added.
<1>1. ASSUME TableInv', Grown, UNCHANGED <<outbox, tasks, pendingTasks, completions, job>>,
             \A p \in Orchestrator : batch'[p] \subseteq batch[p] /\ due'[p] \subseteq due[p]
      PROVE  AttemptInv'
  <2>1. MessagesKnown'
    BY <1>0, <1>1, MessagesKept, Zenon
  <2> QED
    BY <1>1, <2>1 DEF AttemptInv
<1>2. ASSUME NEW m \in OutboxRow, PublishOutbox(o, m)
      PROVE  AttemptInv'
  BY <1>0, <1>2, PublishAttempts DEF PublishOutbox, orchVars
<1>3. CASE ReadEvents(o) \/ ReadCompletions(o)
  <2>1. UNCHANGED <<attempt, nodeStatus, outbox, tasks, pendingTasks, due, job>>
          /\ completions' \subseteq completions
    BY <1>3 DEF ReadEvents, ReadCompletions, dbVars
  <2>2. TableInv' /\ Grown
    BY <1>0, <2>1, TableUnchanged
  <2>3. \A p \in Orchestrator : \A e \in batch'[p] :
          e.kind = "completion" => e \in batch[p] \cup completions
    BY <1>0, <1>3 DEF ReadEvents, ReadCompletions, TypeOK, StreamTypeOK, TriggerEntry
  <2>4. MessagesKnown'
    BY <1>0, <2>1, <2>2, <2>3, MessagesKept
  <2> QED
    BY <2>2, <2>4 DEF AttemptInv
<1>4. ASSUME NEW e \in batch[o],
             CompleteNode(o, e) \/ FailNode(o, e) \/ ScheduleRetry(o, e)
               \/ IgnoreCompletion(o, e)
      PROVE  AttemptInv'
  <2>1. TableInv' /\ Grown
    BY <1>0, <1>4, FinishTable, RetryTable, IgnoredTable
  <2>2. UNCHANGED <<outbox, tasks, pendingTasks, completions, job>>
    BY <1>4 DEF CompleteNode, FailNode, ScheduleRetry, IgnoreCompletion, streamVars
  <2>3. UNCHANGED <<batch, due>> \/ Down(o)
    BY <1>4, Zenon
       DEF CompleteNode, FailNode, FinishNode, ScheduleRetry, IgnoreCompletion, Begin
  <2>4. \A p \in Orchestrator : batch'[p] \subseteq batch[p] /\ due'[p] \subseteq due[p]
    BY <1>0, <2>3 DEF Down
  <2> QED
    BY <1>1, <2>1, <2>2, <2>4
<1>5. ASSUME NEW n \in Node, DispatchNode(o, n)
      PROVE  AttemptInv'
  <2>1. UNCHANGED <<tasks, pendingTasks, completions, batch, due, job>>
    BY <1>5 DEF DispatchNode, Dispatched, streamVars
  <2>2. TableInv' /\ Grown /\ Exists(n, 1)'
          /\ outbox' = outbox \cup {[kind |-> "task", node |-> n]}
    BY <1>5, DispatchTable
  <2>3. \A r \in outbox' : r \in outbox \/ Exists(r.node, 1)'
    BY <2>2
  <2>4. MessagesKnown'
    <3>1. Grown
      BY <2>2
    <3> QED
      BY <1>0, <2>1, <2>3, <3>1, MessagesKept
  <2> QED
    BY <2>2, <2>4 DEF AttemptInv
<1>6. ASSUME NEW R \in SUBSET DueRetries, ReadDueRetries(o, R)
      PROVE  AttemptInv'
  <2>1. UNCHANGED <<attempt, nodeStatus, outbox, tasks, pendingTasks, completions, batch, job>>
          /\ due' = [due EXCEPT ![o] = R]
    BY <1>6 DEF ReadDueRetries, dbVars, streamVars
  <2>2. TableInv' /\ Grown
    BY <1>0, <2>1, TableUnchanged
  <2>3. \A r \in R : Exists(r[1], r[2])'
    BY <2>1, Zenon DEF DueRetries, RetryDue, Exists
  <2>4. \A p \in Orchestrator : \A r \in due'[p] : r \in due[p] \/ Exists(r[1], r[2])'
    BY <1>0, <2>1, <2>3
  <2>5. MessagesKnown'
    BY <1>0, <2>1, <2>2, <2>4, MessagesKept
  <2> QED
    BY <2>2, <2>5 DEF AttemptInv
<1>7. ASSUME NEW r \in RetryKey, PublishRetry(o, r)
      PROVE  AttemptInv'
  <2>1. UNCHANGED <<attempt, nodeStatus, outbox, pendingTasks, completions, batch, due, job>>
          /\ r \in due[o]
    BY <1>7, Zenon DEF PublishRetry, dbVars
  <2>2. TableInv' /\ Grown
    BY <1>0, <2>1, TableUnchanged
  <2>3. Exists(r[1], r[2])'
    BY <1>0, <2>1, Zenon DEF MessagesKnown, Exists
  <2>4. PICK c \in Copy :
          tasks' = tasks \cup {[node |-> r[1], attempt |-> r[2], copy |-> c]}
    BY <1>7, Zenon DEF PublishRetry, AddTask
  <2>5. \A t \in tasks' : t \in tasks \/ Exists(t.node, t.attempt)'
    BY <2>3, <2>4
  <2>6. MessagesKnown'
    BY <1>0, <2>1, <2>2, <2>5, MessagesKept
  <2> QED
    BY <2>2, <2>6 DEF AttemptInv
<1>8. ASSUME NEW r \in RetryKey, MarkRetry(o, r)
      PROVE  AttemptInv'
  <2>1. TableInv' /\ Grown
    BY <1>0, <1>8, MarkTable
  <2>2. UNCHANGED <<outbox, tasks, pendingTasks, completions, batch, job>>
          /\ due' = [due EXCEPT ![o] = @ \ {r}]
    BY <1>8 DEF MarkRetry, streamVars
  <2>3. \A p \in Orchestrator : batch'[p] \subseteq batch[p] /\ due'[p] \subseteq due[p]
    BY <1>0, <2>2
  <2> QED
    BY <1>1, <2>1, <2>2, <2>3, Zenon
<1>9. ASSUME \/ \E e \in batch[o] : HandleTrigger(o, e) \/ UnreadableCompletion(o, e)
             \/ \E n \in Node : SkipDispatch(o, n) \/ DispatchRaises(o, n)
             \/ AckEntry(o)
      PROVE  AttemptInv'
  <2>1. UNCHANGED <<attempt, nodeStatus, outbox, tasks, pendingTasks, completions, job>>
    BY <1>9, Zenon
       DEF HandleTrigger, UnreadableCompletion, SkipDispatch, DispatchRaises,
       AckEntry, dbVars, streamVars
  <2>2. \A p \in Orchestrator : batch'[p] \subseteq batch[p] /\ due'[p] \subseteq due[p]
    BY <1>0, <1>9 DEF HandleTrigger, UnreadableCompletion, SkipDispatch, Dispatched,
       DispatchRaises, AckEntry, Begin, Down
  <2>3. TableInv' /\ Grown
    BY <1>0, <2>1, TableUnchanged
  <2> QED
    BY <1>1, <2>1, <2>2, <2>3
<1> QED
  BY <1>2, <1>3, <1>4, <1>5, <1>6, <1>7, <1>8, <1>9, Zenon DEF OrchestratorStep

\* Every step keeps the attempts in order.
LEMMA NextAttempts ==
  ASSUME GraphInv, AttemptInv, [Next]_vars
  PROVE  AttemptInv'
<1>0. /\ TypeOK /\ TableInv /\ MessagesKnown
      /\ batch \in [Orchestrator -> SUBSET (TriggerEntry \cup CompletionEntry)]
      /\ due \in [Orchestrator -> SUBSET RetryKey]
      /\ job \in [Slot -> Job \cup {IdleJob}]
  BY DEF GraphInv, AttemptInv, TypeOK, ProcessTypeOK
<1>1. ASSUME NEW c \in Caller, ApiStep(c)
      PROVE  AttemptInv'
  <2>1. UNCHANGED <<attempt, nodeStatus, tasks, pendingTasks, completions, batch, due, job>>
          /\ \A r \in outbox' : r.kind = "task" => r \in outbox
    BY <1>1 DEF ApiStep, CheckTriggerable, TriggerExecution, LoseTriggerRace, dbVars,
       streamVars, orchVars
  <2>2. TableInv' /\ Grown
    BY <1>0, <2>1, TableUnchanged
  <2>3. MessagesKnown'
    BY <1>0, <2>1, <2>2, MessagesKept
  <2> QED
    BY <2>2, <2>3 DEF AttemptInv
<1>2. ASSUME NEW o \in Orchestrator, NEW m \in OutboxRow, PublishOutboxAndCrash(o, m)
      PROVE  AttemptInv'
  BY <1>0, <1>2, PublishAttempts DEF PublishOutboxAndCrash, dbVars, orchVars
<1>3. ASSUME NEW o \in Orchestrator, CrashOrchestrator(o)
      PROVE  AttemptInv'
  <2>1. UNCHANGED <<attempt, nodeStatus, outbox, tasks, pendingTasks, completions, job>>
          /\ Down(o)
    BY <1>3 DEF CrashOrchestrator, dbVars, streamVars
  <2>2. TableInv' /\ Grown
    BY <1>0, <2>1, TableUnchanged
  <2>3. \A p \in Orchestrator : batch'[p] \subseteq batch[p] /\ due'[p] \subseteq due[p]
    BY <1>0, <2>1 DEF Down
  <2>4. MessagesKnown'
    BY <1>0, <2>1, <2>2, <2>3, MessagesKept, Zenon
  <2> QED
    BY <2>2, <2>4 DEF AttemptInv
<1>4. ASSUME NEW s \in Slot, WorkerStep(s)
      PROVE  AttemptInv'
  BY <1>0, <1>4, WorkerTable, WorkerMessages DEF AttemptInv
<1>5. ASSUME NEW w \in Worker, CrashWorker(w)
      PROVE  AttemptInv'
  <2>1. UNCHANGED <<attempt, nodeStatus, outbox, tasks, pendingTasks, completions, batch, due>>
          /\ \A s \in Slot : job'[s] = job[s] \/ job'[s] = IdleJob
    BY <1>5, Zenon DEF CrashWorker, dbVars, streamVars, orchVars
  <2>2. TableInv' /\ Grown
    BY <1>0, <2>1, TableUnchanged
  <2>3. \A s \in Slot : job'[s] = job[s] \/ JobKnown(job[s])'
    BY <2>1 DEF JobKnown, IdleJob
  <2>4. MessagesKnown'
    BY <1>0, <2>1, <2>2, <2>3, MessagesKept
  <2> QED
    BY <2>2, <2>4 DEF AttemptInv
<1>6. ASSUME NEW n \in Node, NEW k \in AttemptNumber, ExpireLease(n, k)
      PROVE  AttemptInv'
  <2> DEFINE row == [attempt[n][k] EXCEPT !.lease = "expired"]
  <2>1. UNCHANGED <<nodeStatus, outbox, tasks, pendingTasks, completions, batch, due, job>>
          /\ attempt[n][k].lease \in {"fresh", "renewed"}
          /\ attempt' = [attempt EXCEPT ![n][k] = row]
    BY <1>6 DEF ExpireLease, streamVars, orchVars
  <2>2. attempt[n][k] \in AttemptRow
    BY <1>0 DEF TypeOK, DatabaseTypeOK
  <2>3. Exists(n, k)
    BY <1>0, <2>1 DEF TableInv, BlankRows, NoAttempt
  <2>4. row \in AttemptRow
    BY <2>2, UpdatedRows, Zenon
  <2>5. row.status # "none" /\ row.failure = attempt[n][k].failure
    BY <2>2, <2>3 DEF Exists, AttemptRow
  <2>6. TableInv' /\ Grown
    <3> HIDE DEF row
    <3> QED
      BY <1>0, <2>1, <2>3, <2>4, <2>5, RowUpdated, Zenon
  <2>7. MessagesKnown'
    BY <1>0, <2>1, <2>6, MessagesKept
  <2> QED
    BY <2>6, <2>7 DEF AttemptInv
<1>7. CASE UNCHANGED engineVars
  <2>1. UNCHANGED <<attempt, nodeStatus, outbox, tasks, pendingTasks, completions,
                    batch, due, job>>
    BY <1>7 DEF engineVars
  <2>2. TableInv' /\ Grown
    BY <1>0, <2>1, TableUnchanged
  <2>3. MessagesKnown'
    BY <1>0, <2>1, <2>2, MessagesKept
  <2> QED
    BY <2>2, <2>3 DEF AttemptInv
<1> QED
  BY <1>1, <1>2, <1>3, <1>4, <1>5, <1>6, <1>7, OrchestratorAttempts,
     ReadersQuiet DEF Next, OrchestratorFault

\* AttemptInv holds of every reachable state.
THEOREM AttemptInvariant == Spec => []AttemptInv
<1>1. Init => AttemptInv
  <2> SUFFICES ASSUME Init  PROVE AttemptInv
    OBVIOUS
  <2>1. \A n \in Node : nodeStatus[n] = "PENDING"
          /\ \A k \in AttemptNumber : attempt[n][k] = NoAttempt
    BY Zenon DEF Init
  <2>2. NoAttempt.status = "none" /\ NoAttempt.failure = 0
    BY DEF NoAttempt
  <2>3. 1 \in AttemptNumber
          /\ \A k \in 1..(MaxAttempts - 1) : k \in AttemptNumber /\ k + 1 \in AttemptNumber
    BY MaxAttemptsAssumption DEF AttemptNumber
  <2>4. TableInv
    BY <2>1, <2>2, <2>3, Zenon
       DEF TableInv, BlankRows, RetryChain, NodeFailureJustified, Exists
  <2>5. MessagesKnown
    BY Zenon DEF Init, MessagesKnown, JobKnown, IdleJob
  <2> QED
    BY <2>4, <2>5 DEF AttemptInv
<1> QED
  BY <1>1, GraphInvariant, NextAttempts, PTL DEF Spec

\* For every number of attempts, replicas and workers the attempts of a node
\* form a chain: no failure event, repeated or late, schedules a second
\* retry (SqlAlchemyTaskRetryRepository.record_failure).
THEOREM RetryChainHolds == Spec => []RetryChain
<1>1. AttemptInv => RetryChain
  BY DEF AttemptInv, TableInv
<1> QED
  BY <1>1, AttemptInvariant, PTL

\* A node fails only with its last attempt or unstarted behind a failed
\* dependency (TaskCompletionService.process, failure propagation).
THEOREM NodeFailureJustifiedHolds == Spec => []NodeFailureJustified
<1>1. AttemptInv => NodeFailureJustified
  BY DEF AttemptInv, TableInv
<1> QED
  BY <1>1, AttemptInvariant, PTL

=============================================================================
