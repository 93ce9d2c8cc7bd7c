------------------------- MODULE FailurePropagation -------------------------
(***************************************************************************)
(* evaluate_failed_dependency_node_ids: the breadth-first walk that finds  *)
(* the pending nodes a failure makes impossible.  One step is one round of *)
(* its while loop.  The queue is a set: a node enters it once, and any     *)
(* order of service is allowed, so the result is shown not to depend on    *)
(* the order of nodes in the definition.                                   *)
(*                                                                         *)
(* WorkflowDag defines the same set as a least fixed point, which is what  *)
(* the orchestrator module uses.                                           *)
(***************************************************************************)
EXTENDS WorkflowDag

VARIABLES
  given,     \* node_statuses_by_id: the argument
  statuses,  \* the working copy
  blocked,   \* blocked_node_ids
  queue

walkVars == <<given, statuses, blocked, queue>>

\* Statuses a completion transaction presents: node x has just failed; the
\* rest is as earlier transactions left it.
JustFailed(st, x) ==
  /\ st[x] = "FAILED"
  /\ DependencySatisfied(st, x)
  /\ \A n \in Node \ {x} :
       LET blockedBefore == \E d \in Deps[n] \ {x} : st[d] = "FAILED"
       IN  /\ st[n] \in {"RUNNING", "COMPLETED"} => DependencySatisfied(st, n)
           /\ st[n] = "PENDING" => ~blockedBefore
           /\ st[n] = "FAILED" => DependencySatisfied(st, n) \/ blockedBefore

WalkInit ==
  /\ given \in {st \in [Node -> NodeStatus] : \E x \in Node : JustFailed(st, x)}
  /\ statuses = given
  /\ blocked = {}
  /\ queue = {n \in Node : given[n] = "FAILED"}

\* The dependants of x that are still pending and not yet collected.
NewlyBlocked(x) ==
  {n \in Node : x \in Deps[n] /\ statuses[n] = "PENDING" /\ n \notin blocked}

\* Mutant: collected nodes are not visited in turn.
DirectOnly(x) ==
  /\ blocked' = blocked \cup NewlyBlocked(x)
  /\ statuses' = [n \in Node |-> IF n \in NewlyBlocked(x) THEN "FAILED" ELSE statuses[n]]
  /\ queue' = queue \ {x}

\* Mutant: the head of the queue is looked at and not taken off.
PeekOnly(x) ==
  /\ blocked' = blocked \cup NewlyBlocked(x)
  /\ statuses' = [n \in Node |-> IF n \in NewlyBlocked(x) THEN "FAILED" ELSE statuses[n]]
  /\ queue' = queue \cup NewlyBlocked(x)

Collect(x) ==
  /\ blocked' = blocked \cup NewlyBlocked(x)
  /\ statuses' = [n \in Node |-> IF n \in NewlyBlocked(x) THEN "FAILED" ELSE statuses[n]]
  /\ queue' = (queue \ {x}) \cup NewlyBlocked(x)

Visit(x) == x \in queue /\ Collect(x) /\ UNCHANGED given

\* The loop has ended and the result is returned.
Return == queue = {} /\ UNCHANGED walkVars

WalkNext == (\E x \in Node : Visit(x)) \/ Return

WalkSpec == WalkInit /\ [][WalkNext]_walkVars

FairWalkSpec == WalkSpec /\ WF_walkVars(WalkNext)

-----------------------------------------------------------------------------
WalkTypeOK ==
  /\ given \in [Node -> NodeStatus]
  /\ statuses \in [Node -> NodeStatus]
  /\ blocked \in SUBSET Node
  /\ queue \in SUBSET Node

\* What the walk returns is exactly the set of pending nodes that can no
\* longer run, however the queue is served: nodes with a failed node among
\* their transitive dependencies reached through pending ones.
WalkCollectsBlocked == queue = {} => blocked = FailedDependants(given)

\* The walk ends: no node is queued for ever.
WalkTerminates == <>(queue = {})

=============================================================================
