-------------------------- MODULE AbstractWorkflow --------------------------
(***************************************************************************)
(* What the engine promises about one execution, without messages,         *)
(* processes, attempts or retries: a triggered execution starts a node     *)
(* once its dependencies have completed, and finishes every started node   *)
(* at most once.  A failure fails, in the same step, the execution and     *)
(* exactly the pending nodes that can no longer run.                       *)
(***************************************************************************)
EXTENDS Naturals

CONSTANTS Node, Deps

VARIABLES wf, node

absVars == <<wf, node>>

Init ==
  /\ wf = "PENDING"
  /\ node = [n \in Node |-> "PENDING"]

Trigger ==
  /\ wf = "PENDING"
  /\ wf' = "RUNNING"
  /\ UNCHANGED node

\* A node may start after the execution has failed: nodes that do not depend
\* on the failure are still run.
Start(n) ==
  /\ wf \in {"RUNNING", "FAILED"}
  /\ node[n] = "PENDING"
  /\ \A d \in Deps[n] : node[d] = "COMPLETED"
  /\ node' = [node EXCEPT ![n] = "RUNNING"]
  /\ UNCHANGED wf

Succeed(n) ==
  /\ node[n] = "RUNNING"
  /\ node' = [node EXCEPT ![n] = "COMPLETED"]
  /\ wf' = IF \A m \in Node : node'[m] = "COMPLETED" THEN "COMPLETED" ELSE wf

\* S: the pending nodes that fail with n.  Each has a failed dependency, and
\* no pending node is left with one.
Fail(n) ==
  /\ node[n] = "RUNNING"
  /\ \E S \in SUBSET {m \in Node : node[m] = "PENDING"} :
       /\ node' = [m \in Node |-> IF m = n \/ m \in S THEN "FAILED" ELSE node[m]]
       /\ \A m \in S : \E d \in Deps[m] : node'[d] = "FAILED"
       /\ \A m \in Node :
            node'[m] = "PENDING" => \A d \in Deps[m] : node'[d] # "FAILED"
  /\ wf' = "FAILED"

Next == Trigger \/ \E n \in Node : Start(n) \/ Succeed(n) \/ Fail(n)

Spec == Init /\ [][Next]_absVars

=============================================================================
