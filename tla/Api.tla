-------------------------------- MODULE Api --------------------------------
(***************************************************************************)
(* POST /workflow/trigger/{execution_id}.  The transaction reads the       *)
(* execution without a lock, then moves it from PENDING to RUNNING with a  *)
(* conditional update and writes the trigger row; two requests may both    *)
(* pass the read.                                                          *)
(***************************************************************************)
EXTENDS EngineState

CallerState == {"idle", "checked", "accepted", "rejected"}

\* The read and its early error.
CheckTriggerable(c) ==
  /\ caller[c] = "idle"
  /\ caller' = [caller EXCEPT
       ![c] = IF wfStatus = "PENDING" THEN "checked" ELSE "rejected"]
  /\ UNCHANGED <<dbVars, streamVars, readerVars, orchVars, job, faultVars>>

\* Mutant: the update is not conditional.
TransitionsAlways == wfStatus \in WorkflowStatus

\* UPDATE ... WHERE status = 'pending' matches a row.
Transitions == wfStatus = "PENDING"

TriggerExecution(c) ==
  /\ caller[c] = "checked"
  /\ Transitions
  /\ wfStatus' = "RUNNING"
  /\ outbox' = outbox \cup {[kind |-> "trigger", by |-> c]}
  /\ caller' = [caller EXCEPT ![c] = "accepted"]
  /\ UNCHANGED <<nodeStatus, task, attempt, lifecycle, streamVars, readerVars,
                 orchVars, job, faultVars>>

\* The conditional update matched no row: 409, nothing written.
LoseTriggerRace(c) ==
  /\ caller[c] = "checked"
  /\ ~Transitions
  /\ caller' = [caller EXCEPT ![c] = "rejected"]
  /\ UNCHANGED <<dbVars, streamVars, readerVars, orchVars, job, faultVars>>

ApiStep(c) == CheckTriggerable(c) \/ TriggerExecution(c) \/ LoseTriggerRace(c)

=============================================================================
