---------------------------- MODULE TaskAttempts ----------------------------
(***************************************************************************)
(* One row of task_attempts (with its task_retry_dispatches row folded in) *)
(* and the conditional updates the two repositories make to it.  Each      *)
(* operator is one repository method as a function from the row before to  *)
(* the row after; the transactions that call them are actions of the       *)
(* Orchestrator and Worker modules.                                        *)
(*                                                                         *)
(* Event ids are uuid4 values drawn once per handler execution.  Within    *)
(* one attempt they are told apart by the number of the execution that     *)
(* drew them, so "run" stands for the id and 0 for NULL.                   *)
(*                                                                         *)
(* claim_expires_at is abstracted to what the code compares it with:       *)
(*   none     claimed_by IS NULL                                           *)
(*   fresh    in the future, never renewed                                 *)
(*   renewed  in the future, extended by a renewal                         *)
(*   expired  in the past                                                  *)
(*   cleared  claimed_by set, claim_expires_at NULL (after mark_completed) *)
(***************************************************************************)
EXTENDS Naturals

CONSTANTS
  Worker,       \* worker ids (claimed_by)
  MaxAttempts,  \* RetryPolicy.max_attempts
  MaxRuns       \* bound: handler executions of one attempt

ASSUME MaxAttemptsAssumption == MaxAttempts \in Nat \ {0}
ASSUME MaxRunsAssumption == MaxRuns \in Nat \ {0}

\* claimed_by IS NULL.  Not a worker id.
NoWorker == "no worker"

ASSUME NoWorkerAssumption == NoWorker \notin Worker

AttemptNumber == 1..MaxAttempts

AttemptStatus == {"none", "running", "scheduled", "queued", "claimed",
                  "result_recorded", "completed", "failed"}

Lease == {"none", "fresh", "renewed", "expired", "cleared"}

AttemptRow ==
  [status     : AttemptStatus,
   claimedBy  : Worker \cup {NoWorker},
   lease      : Lease,
   runs       : Nat,                              \* handler executions so far
   completion : Nat,                              \* completion_event_id
   ok         : BOOLEAN,                          \* error_message IS NULL
   failure    : Nat,                              \* failure_event_id
   dispatch   : {"none", "pending", "published"}] \* task_retry_dispatches

\* No row for this attempt number yet.
NoAttempt ==
  [status |-> "none", claimedBy |-> NoWorker, lease |-> "none", runs |-> 0,
   completion |-> 0, ok |-> TRUE, failure |-> 0, dispatch |-> "none"]

(***************************************************************************)
(* SqlAlchemyTaskRetryRepository                                           *)
(***************************************************************************)
\* register_initial_task: the row of attempt 1.
InitialAttempt == [NoAttempt EXCEPT !.status = "running"]

\* record_failure inserts the next attempt and its pending dispatch row.
ScheduledAttempt ==
  [NoAttempt EXCEPT !.status = "scheduled", !.dispatch = "pending"]

\* record_success is FALSE for an event already stored with the attempt and
\* for an attempt that has a terminal result: nothing is written then.
SuccessIsNew(a, run) ==
  /\ a.completion # run
  /\ ~(a.status \in {"completed", "failed"} /\ a.completion # 0)

RecordSuccess(a, run) ==
  [a EXCEPT !.status = "completed", !.completion = run]

\* record_failure returns DUPLICATE.
FailureIsDuplicate(a, run) ==
  a.failure # 0 \/ (a.status = "completed" /\ a.completion # run)

\* Mutant: the id of the failure event is not stored with the attempt.
FailureUnstored(a, run) == [a EXCEPT !.status = "failed", !.ok = FALSE]

RecordFailure(a, run) ==
  [a EXCEPT !.status = "failed", !.failure = run, !.ok = FALSE]

\* Mutant: the limit counts retries made, not attempts.
LastRetrySkipped(k) == k + 1 >= MaxAttempts

\* record_failure returns EXHAUSTED for attempt number k.
RetriesExhausted(k) == k >= MaxAttempts

\* get_due_retries: the row qualifies (available_at has passed when it is read).
RetryDue(a) == a.dispatch = "pending" /\ a.status = "scheduled"

\* Mutant: the status update loses its WHERE status = 'scheduled'.
MarkRetryQueued(a) ==
  IF a.dispatch = "pending"
    THEN [a EXCEPT !.dispatch = "published", !.status = "queued"]
    ELSE a

MarkRetryPublished(a) ==
  IF a.dispatch = "pending"
    THEN [a EXCEPT !.dispatch = "published",
                   !.status = IF @ = "scheduled" THEN "queued" ELSE @]
    ELSE a

(***************************************************************************)
(* SqlAlchemyTaskAttemptProcessingRepository                               *)
(***************************************************************************)
\* Mutant: every claim is taken to have lapsed.
NeverClaimed(a) == FALSE

\* claimed_by is set and claim_expires_at is NULL or in the future.
CurrentlyClaimed(a) == a.lease \in {"fresh", "renewed", "cleared"}

ClaimOutcome(a) ==
  CASE a.status = "none"            -> "not_found"
    [] a.status = "completed"       -> "already_completed"
    [] a.status = "result_recorded" -> "result_recorded"
    [] OTHER -> IF CurrentlyClaimed(a) THEN "currently_claimed" ELSE "claimed"

ClaimAttempt(a, w) ==
  [a EXCEPT !.status = "claimed", !.claimedBy = w, !.lease = "fresh"]

\* Mutant: record_result loses its WHERE status = 'claimed'.
ResultAlwaysRecordable(a) == a.status # "none"

\* record_result applies: WHERE status = 'claimed' (whoever holds the claim).
ResultRecordable(a) == a.status = "claimed"

RecordResult(a, run, ok) ==
  [a EXCEPT !.status = "result_recorded", !.completion = run, !.ok = ok]

\* mark_completed applies: WHERE status = 'result_recorded'.
Completable(a) == a.status = "result_recorded"

MarkCompleted(a) == [a EXCEPT !.status = "completed", !.lease = "cleared"]

\* renew_claim applies: WHERE status = 'claimed' AND claimed_by = worker.
Renewable(a, w) == a.status = "claimed" /\ a.claimedBy = w

RenewClaim(a) == [a EXCEPT !.lease = "renewed"]

=============================================================================
