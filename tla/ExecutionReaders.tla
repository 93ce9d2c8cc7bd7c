-------------------------- MODULE ExecutionReaders --------------------------
(***************************************************************************)
(* GET /workflows/{id} and GET /workflows/{id}/results next to the running *)
(* engine.  Both read the execution row and then the node rows, in one     *)
(* READ COMMITTED transaction without a lock: other transactions commit    *)
(* between the two statements, so an answer joins rows of two moments.     *)
(***************************************************************************)
EXTENDS EngineState

Answer == [status : WorkflowStatus, nodes : [Node -> NodeStatus]]

Respond(r, status, nodes) ==
  /\ reading' = [reading EXCEPT ![r] = {}]
  /\ answer' = [answer EXCEPT ![r] = [status |-> status, nodes |-> nodes]]
  /\ UNCHANGED engineVars

\* Mutant: the node rows are read before the execution row.
ReadNodesFirst(r) ==
  \/ /\ reading[r] = {}
     /\ reading' = [reading EXCEPT ![r] = {nodeStatus}]
     /\ UNCHANGED <<answer, engineVars>>
  \/ \E nodes \in reading[r] : Respond(r, wfStatus, nodes)

ReadExecution(r) ==
  /\ reading[r] = {}
  /\ reading' = [reading EXCEPT ![r] = {wfStatus}]
  /\ UNCHANGED <<answer, engineVars>>

ReadNodes(r) == \E status \in reading[r] : Respond(r, status, nodeStatus)

Get(r) == ReadExecution(r) \/ ReadNodes(r)

\* Mutant: the first failure does not withhold the results.
ResultsAnyway(ans) ==
  [message |-> IF ans.status \in Terminal THEN "available" ELSE "unavailable",
   nodes |-> {n \in Node : ans.nodes[n] = "COMPLETED"}]

\* WorkflowExecutionResultsService.get: what the results endpoint makes of
\* the two reads.
Results(ans) ==
  [message |-> IF ans.status # "COMPLETED" THEN "unavailable"
               ELSE IF SomeFailed(ans.nodes) THEN "inconsistent"
               ELSE "available",
   nodes |-> IF ans.status = "COMPLETED" /\ ~SomeFailed(ans.nodes)
               THEN {n \in Node : ans.nodes[n] = "COMPLETED"} ELSE {}]

NothingRead ==
  /\ reading = [r \in Reader |-> {}]
  /\ answer = [r \in Reader |->
       [status |-> "PENDING", nodes |-> [n \in Node |-> "PENDING"]]]

ReadersTypeOK ==
  /\ reading \in [Reader -> SUBSET WorkflowStatus]
  /\ answer \in [Reader -> Answer]

-----------------------------------------------------------------------------
\* "COMPLETED is treated as successful completion for final results": results
\* are given out only whole, for an execution that has completed, and the
\* guard against "inconsistent persisted state" never finds one, although
\* the two reads see different moments.
ResultsWhole ==
  \A r \in Reader :
    LET res == Results(answer[r])
    IN  /\ res.message # "inconsistent"
        /\ res.message = "available" => res.nodes = Node /\ wfStatus = "COMPLETED"

\* An execution reported as failed comes with a failed node to blame.
FailureExplained ==
  \A r \in Reader :
    answer[r].status = "FAILED" => SomeFailed(answer[r].nodes)

Rank(status) ==
  CASE status = "PENDING" -> 0 [] status = "RUNNING" -> 1 [] OTHER -> 2

Advances(before, after) ==
  before = after \/ Rank(before) < Rank(after)

\* A client that polls never sees the execution or a node go back, nor one
\* terminal status replaced by the other.
AnswersAdvance ==
  [][\A r \in Reader :
       /\ Advances(answer[r].status, answer'[r].status)
       /\ \A n \in Node :
            Advances(answer[r].nodes[n], answer'[r].nodes[n])]_vars

=============================================================================
