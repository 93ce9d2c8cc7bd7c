---------------------------- MODULE WorkflowDag ----------------------------
(***************************************************************************)
(* The graph of one workflow and the pure decisions the orchestrator takes *)
(* from it: which nodes are ready, which pending nodes a failure makes     *)
(* impossible, and what status the execution gets from its nodes.          *)
(*                                                                         *)
(* Deps[n] is the "dependencies" list of node n.  Submission rejects       *)
(* unknown dependencies and cycles; no theorem below needs the acyclicity, *)
(* so it is not assumed here.                                              *)
(***************************************************************************)
EXTENDS Naturals

CONSTANTS
  Node,   \* the node ids of the workflow definition
  Deps    \* Deps[n]: the nodes that n depends on

ASSUME DepsAssumption == Deps \in [Node -> SUBSET Node]

NodeStatus == {"PENDING", "RUNNING", "COMPLETED", "FAILED"}

WorkflowStatus == {"PENDING", "RUNNING", "COMPLETED", "FAILED"}

Terminal == {"COMPLETED", "FAILED"}

(***************************************************************************)
(* Readiness: still pending, every declared dependency completed.          *)
(***************************************************************************)
DependencySatisfied(st, n) == \A d \in Deps[n] : st[d] = "COMPLETED"

\* Mutant: one completed parent is enough for a fan-in node.
ReadyByAny(st) ==
  {n \in Node : /\ st[n] = "PENDING"
                /\ Deps[n] = {} \/ \E d \in Deps[n] : st[d] = "COMPLETED"}

ReadyNodes(st) ==
  {n \in Node : st[n] = "PENDING" /\ DependencySatisfied(st, n)}

(***************************************************************************)
(* Failure propagation.  The code walks breadth-first from every FAILED    *)
(* node through PENDING dependants, marking each one it meets.  What it    *)
(* collects is the least set of pending nodes closed under "some           *)
(* dependency has failed or is collected"; FailurePropagation models the   *)
(* walk and shows that it computes this set.                               *)
(***************************************************************************)
ClosedUnderFailure(st, S) ==
  \A n \in Node :
    (st[n] = "PENDING" /\ \E d \in Deps[n] : st[d] = "FAILED" \/ d \in S)
      => n \in S

\* Mutant: only the direct dependants of a failed node are failed.
DirectFailedDependants(st) ==
  {n \in Node : st[n] = "PENDING" /\ \E d \in Deps[n] : st[d] = "FAILED"}

\* Mutant: a failure fails every pending node.
AllPending(st) == {n \in Node : st[n] = "PENDING"}

FailedDependants(st) ==
  {n \in Node : /\ st[n] = "PENDING"
                /\ \A S \in SUBSET Node : ClosedUnderFailure(st, S) => n \in S}

\* Mutant: the dependants get a status of their own that no reader knows.
CancelPending(st, S) ==
  [n \in Node |-> IF n \in S /\ st[n] = "PENDING" THEN "CANCELLED" ELSE st[n]]

\* UPDATE ... SET status = 'failed' WHERE node_id IN S AND status = 'pending'.
FailPending(st, S) ==
  [n \in Node |-> IF n \in S /\ st[n] = "PENDING" THEN "FAILED" ELSE st[n]]

(***************************************************************************)
(* Finalization: any failed node fails a running execution, all nodes      *)
(* completed completes it, anything else leaves it alone.  Both updates    *)
(* are conditional on the execution still being RUNNING.                   *)
(***************************************************************************)
SomeFailed(st) == \E n \in Node : st[n] = "FAILED"

AllCompleted(st) == \A n \in Node : st[n] = "COMPLETED"

\* Mutant: a failure is noticed only once no node is left unfinished.
FinalizedAtTheEnd(wf, st) ==
  IF wf = "RUNNING" /\ \A n \in Node : st[n] \in Terminal
    THEN IF SomeFailed(st) THEN "FAILED" ELSE "COMPLETED"
    ELSE wf

Finalized(wf, st) ==
  IF wf # "RUNNING" THEN wf
  ELSE IF SomeFailed(st) THEN "FAILED"
  ELSE IF AllCompleted(st) THEN "COMPLETED" ELSE wf

=============================================================================
