---------------------------- MODULE WorkerProcess ----------------------------
(***************************************************************************)
(* The worker processes.  A worker runs one coroutine per task message     *)
(* ("slot"), up to max_concurrency of them; a coroutine claims the attempt *)
(* in PostgreSQL, runs the handler while a second coroutine renews the     *)
(* lease, stores the result, publishes the completion, marks the attempt   *)
(* completed and acknowledges the message, each in a step of its own.  An  *)
(* exception ends the coroutine and leaves the message unacknowledged.     *)
(*                                                                         *)
(* Time is abstracted by what the settings guarantee: a lease is renewed   *)
(* after a third of its length, and is shorter than the idle time after    *)
(* which a pending message may be reclaimed.                               *)
(***************************************************************************)
EXTENDS EngineState

Step(s, pc) == job' = [job EXCEPT ![s].pc = pc]

Quit(s) == job' = [job EXCEPT ![s] = IdleJob]

At(s, pc) == job[s].pc = pc

StoreAttempt(m, row) ==
  attempt' = [attempt EXCEPT ![m.node][m.attempt] = row]

Hold(s, m) ==
  job' = [job EXCEPT
    ![s] = [pc |-> "delivered", entry |-> m, run |-> 0, ok |-> TRUE]]

Holders(m) == {s \in Slot : Busy(s) /\ job[s].entry = m}

-----------------------------------------------------------------------------
(***************************************************************************)
(* WorkerRuntime: XREADGROUP and XAUTOCLAIM into a free slot               *)
(***************************************************************************)
Deliver(s, m) ==
  /\ At(s, "idle")
  /\ m \in tasks
  /\ tasks' = tasks \ {m}
  /\ pendingTasks' = pendingTasks \cup {m}
  /\ Hold(s, m)
  /\ UNCHANGED <<dbVars, events, completions, deadLetters, caller,
                 readerVars, orchVars, faultVars>>

\* The coroutine that holds m may have had it for the whole idle time: its
\* handler was long enough for a renewal, or lost its lease.
HeldForLong(s) ==
  /\ LongHandlers
  /\ job[s].pc \in {"running", "doomed", "finished", "recorded", "published",
                    "ack"}
  /\ AttemptOf(job[s].entry).lease \in {"renewed", "expired", "cleared"}

\* A lease that was never renewed has lapsed when the message that carried
\* the claim has been idle long enough, unless a coroutine has claimed the
\* attempt through another message since.
ClaimedThroughAnother(m) ==
  \E s \in Slot :
    /\ Busy(s)
    /\ job[s].entry.node = m.node /\ job[s].entry.attempt = m.attempt
    /\ job[s].entry # m
    /\ AttemptOf(m).claimedBy = WorkerOf[s]

Reclaimable(m) ==
  /\ m \in pendingTasks
  /\ \A s \in Holders(m) : HeldForLong(s)
  /\ AttemptOf(m).lease = "fresh" => ClaimedThroughAnother(m)

Reclaim(s, m) ==
  /\ At(s, "idle")
  /\ Reclaimable(m)
  /\ Hold(s, m)
  /\ UNCHANGED <<dbVars, streamVars, caller, readerVars, orchVars,
                 faultVars>>

-----------------------------------------------------------------------------
(***************************************************************************)
(* WorkerTaskProcessor.process                                             *)
(***************************************************************************)
Claim(s) ==
  LET m == job[s].entry IN
  /\ At(s, "delivered")
  /\ TaskParses(m)
  /\ ClaimOutcome(AttemptOf(m)) = "claimed"
  /\ StoreAttempt(m, ClaimAttempt(AttemptOf(m), WorkerOf[s]))
  /\ Step(s, "running")
  /\ UNCHANGED <<wfStatus, nodeStatus, task, outbox, lifecycle, streamVars,
                 caller, readerVars, orchVars, faultVars>>

\* Mutant: any refused claim is taken for a duplicate that is done with.
RefusedClaimSkips(outcome) == "skip"

\* Mutant: any refused claim raises and leaves the message unacknowledged.
RefusedClaimRaises(outcome) == "idle"

\* What follows a refused claim; an attempt that does not exist raises.
AfterRefusal(outcome) ==
  CASE outcome = "result_recorded" -> "replay"
    [] outcome = "not_found"       -> "idle"
    [] OTHER                       -> "skip"

ClaimRefused(s) ==
  LET outcome == ClaimOutcome(AttemptOf(job[s].entry)) IN
  /\ At(s, "delivered")
  /\ TaskParses(job[s].entry)
  /\ outcome # "claimed"
  /\ IF AfterRefusal(outcome) = "idle"
       THEN Quit(s)
       ELSE Step(s, AfterRefusal(outcome))
  /\ UNCHANGED <<dbVars, streamVars, caller, readerVars, orchVars,
                 faultVars>>

\* get_result in a transaction of its own.
ReplayResult(s) ==
  LET row == AttemptOf(job[s].entry) IN
  /\ At(s, "replay")
  /\ IF row.completion = 0
       THEN Quit(s)
       ELSE job' = [job EXCEPT ![s].pc = "recorded",
                               ![s].run = row.completion, ![s].ok = row.ok]
  /\ UNCHANGED <<dbVars, streamVars, caller, readerVars, orchVars,
                 faultVars>>

\* The renewal coroutine fires while the handler runs.
RenewLease(s) ==
  LET m == job[s].entry IN
  /\ LongHandlers
  /\ At(s, "running")
  /\ Renewable(AttemptOf(m), WorkerOf[s])
  /\ AttemptOf(m).lease # "renewed"
  /\ StoreAttempt(m, RenewClaim(AttemptOf(m)))
  /\ UNCHANGED <<wfStatus, nodeStatus, task, outbox, lifecycle, streamVars,
                 caller, readerVars, orchVars, job, faultVars>>

\* The renewal matched no row: its coroutine raises, which is noticed only
\* when the handler returns.
RenewalFails(s) ==
  /\ LongHandlers
  /\ At(s, "running")
  /\ ~Renewable(AttemptOf(job[s].entry), WorkerOf[s])
  /\ Step(s, "doomed")
  /\ UNCHANGED <<dbVars, streamVars, caller, readerVars, orchVars,
                 faultVars>>

DiscardResult(s) ==
  /\ At(s, "doomed")
  /\ Quit(s)
  /\ UNCHANGED <<dbVars, streamVars, caller, readerVars, orchVars,
                 faultVars>>

\* The handler returns (ok) or raises, and an event id is drawn.
FinishHandler(s, ok) ==
  LET m == job[s].entry IN
  /\ At(s, "running")
  /\ AttemptOf(m).runs < MaxRuns
  /\ StoreAttempt(m, [AttemptOf(m) EXCEPT !.runs = @ + 1])
  /\ job' = [job EXCEPT ![s].pc = "finished",
                        ![s].run = AttemptOf(m).runs + 1, ![s].ok = ok]
  /\ UNCHANGED <<wfStatus, nodeStatus, task, outbox, lifecycle, streamVars,
                 caller, readerVars, orchVars, faultVars>>

RecordTaskResult(s) ==
  LET m == job[s].entry IN
  /\ At(s, "finished")
  /\ IF ResultRecordable(AttemptOf(m))
       THEN /\ StoreAttempt(m, RecordResult(AttemptOf(m), job[s].run, job[s].ok))
            /\ Step(s, "recorded")
       ELSE Quit(s) /\ UNCHANGED attempt
  /\ UNCHANGED <<wfStatus, nodeStatus, task, outbox, lifecycle, streamVars,
                 caller, readerVars, orchVars, faultVars>>

\* XADD workflow.task-completions for task entry m.
AddCompletion(m, run, ok) ==
  \E c \in Copy :
    LET e == [kind |-> "completion", node |-> m.node, attempt |-> m.attempt,
              run |-> run, ok |-> ok, copy |-> c]
    IN  /\ Fresh(LiveCompletions, e)
        /\ completions' = completions \cup {e}

PublishCompletion(s) ==
  /\ At(s, "recorded")
  /\ AddCompletion(job[s].entry, job[s].run, job[s].ok)
  /\ Step(s, "published")
  /\ UNCHANGED <<dbVars, events, tasks, pendingTasks, deadLetters, caller,
                 readerVars, orchVars, faultVars>>

MarkTaskCompleted(s) ==
  LET m == job[s].entry IN
  /\ At(s, "published")
  /\ IF Completable(AttemptOf(m))
       THEN /\ StoreAttempt(m, MarkCompleted(AttemptOf(m)))
            /\ Step(s, "ack")
       ELSE Quit(s) /\ UNCHANGED attempt
  /\ UNCHANGED <<wfStatus, nodeStatus, task, outbox, lifecycle, streamVars,
                 caller, readerVars, orchVars, faultVars>>

AckTask(s) ==
  /\ At(s, "ack") \/ At(s, "skip")
  /\ pendingTasks' = pendingTasks \ {job[s].entry}
  /\ Quit(s)
  /\ UNCHANGED <<dbVars, events, completions, tasks, deadLetters, caller,
                 readerVars, orchVars, faultVars>>

-----------------------------------------------------------------------------
(***************************************************************************)
(* WorkerTaskProcessor.process_malformed: no claim and no stored result.   *)
(***************************************************************************)
\* A failure event with an id of its own answers for the message.
AnswerMalformed(s) ==
  LET m == job[s].entry IN
  /\ At(s, "delivered")
  /\ ~TaskParses(m) /\ Identified(m)
  /\ AttemptOf(m).runs < MaxRuns
  /\ StoreAttempt(m, [AttemptOf(m) EXCEPT !.runs = @ + 1])
  /\ AddCompletion(m, AttemptOf(m).runs + 1, FALSE)
  /\ Step(s, "skip")
  /\ UNCHANGED <<wfStatus, nodeStatus, task, outbox, lifecycle, events,
                 tasks, pendingTasks, deadLetters, caller, readerVars,
                 orchVars, faultVars>>

\* Mutant: the message is dropped.
LetterDropped(m) == UNCHANGED deadLetters

\* XADD workflow.task-dead-letter.
AddDeadLetter(m) == deadLetters' = deadLetters \cup {m}

DeadLetter(s) ==
  LET m == job[s].entry IN
  /\ At(s, "delivered")
  /\ ~TaskParses(m) /\ ~Identified(m)
  /\ AddDeadLetter(m)
  /\ Step(s, "skip")
  /\ UNCHANGED <<dbVars, events, completions, tasks, pendingTasks, caller,
                 readerVars, orchVars, faultVars>>

-----------------------------------------------------------------------------
(***************************************************************************)
(* Faults and time                                                         *)
(***************************************************************************)
\* All coroutines of the process are lost (a crash, or a shutdown that
\* cancels them after its timeout); the process is started again.
CrashWorker(w) ==
  /\ \E s \in Slot : WorkerOf[s] = w /\ Busy(s)
  /\ workerCrashes < MaxWorkerCrashes
  /\ job' = [s \in Slot |-> IF WorkerOf[s] = w THEN IdleJob ELSE job[s]]
  /\ workerCrashes' = workerCrashes + 1
  /\ UNCHANGED <<dbVars, streamVars, caller, readerVars, orchVars,
                 orchCrashes, stalls>>

\* A live coroutine of the claim's owner is at work on attempt k of node n.
Attended(n, k) ==
  \E s \in Slot :
    /\ job[s].pc \in {"running", "finished", "recorded", "published"}
    /\ job[s].entry.node = n /\ job[s].entry.attempt = k
    /\ WorkerOf[s] = attempt[n][k].claimedBy

\* claim_expires_at passes.  Under a coroutine that renews it in time this
\* takes a stall (a blocked event loop, a database that does not answer).
ExpireLease(n, k) ==
  /\ attempt[n][k].lease \in {"fresh", "renewed"}
  /\ IF Attended(n, k)
       THEN stalls < MaxStalls /\ stalls' = stalls + 1
       ELSE UNCHANGED stalls
  /\ attempt' = [attempt EXCEPT ![n][k].lease = "expired"]
  /\ UNCHANGED <<wfStatus, nodeStatus, task, outbox, lifecycle, streamVars,
                 caller, readerVars, orchVars, job, orchCrashes,
                 workerCrashes>>

WorkerStep(s) ==
  \/ \E m \in tasks : Deliver(s, m)
  \/ \E m \in pendingTasks : Reclaim(s, m)
  \/ Claim(s)
  \/ ClaimRefused(s)
  \/ ReplayResult(s)
  \/ RenewLease(s)
  \/ RenewalFails(s)
  \/ DiscardResult(s)
  \/ \E ok \in BOOLEAN : FinishHandler(s, ok)
  \/ RecordTaskResult(s)
  \/ PublishCompletion(s)
  \/ MarkTaskCompleted(s)
  \/ AckTask(s)
  \/ AnswerMalformed(s)
  \/ DeadLetter(s)

=============================================================================
