---------------------- MODULE FailurePropagationProofs ----------------------
(***************************************************************************)
(* The breadth-first walk computes the least fixed point, in every graph,  *)
(* cyclic ones included.                                                   *)
(***************************************************************************)
EXTENDS FailurePropagation, TLAPS

\* The walk never collects too much (second conjunct) and forgets no
\* dependant of a node it has served (third).
WalkInv ==
  /\ WalkTypeOK
  /\ \A n \in Node : statuses[n] = IF n \in blocked THEN "FAILED" ELSE given[n]
  /\ \A n \in blocked : given[n] = "PENDING"
  /\ \A S \in SUBSET Node : ClosedUnderFailure(given, S) => blocked \subseteq S
  /\ \A n \in Node : \A d \in Deps[n] :
       statuses[d] = "FAILED" /\ d \notin queue => statuses[n] # "PENDING"
  /\ \A n \in queue : statuses[n] = "FAILED"

\* The invariant holds when the loop is entered.
LEMMA WalkInitInv == WalkInit => WalkInv
<1> SUFFICES ASSUME WalkInit PROVE WalkInv
  OBVIOUS
<1>1. given \in [Node -> NodeStatus]
  BY DEF WalkInit
<1> QED
  BY <1>1, DepsAssumption DEF WalkInit, WalkInv, WalkTypeOK

\* A round of the loop keeps the invariant.
LEMMA VisitInv ==
  ASSUME WalkInv, NEW x \in Node, Visit(x)
  PROVE  WalkInv'
<1> DEFINE N == NewlyBlocked(x)
<1>1. N \in SUBSET Node /\ \A n \in N : x \in Deps[n] /\ statuses[n] = "PENDING"
  BY DEF NewlyBlocked
<1>2. /\ blocked' = blocked \cup N /\ queue' = (queue \ {x}) \cup N
      /\ statuses' = [n \in Node |-> IF n \in N THEN "FAILED" ELSE statuses[n]]
      /\ given' = given /\ x \in queue
  BY DEF Visit, Collect
<1>3. \A n \in Node : x \in Deps[n] /\ statuses[n] = "PENDING" => n \in N
  BY DEF NewlyBlocked, WalkInv
<1> HIDE DEF N
<1>4. WalkTypeOK'
  BY <1>1, <1>2 DEF WalkInv, WalkTypeOK, NodeStatus
<1>5. \A n \in Node : statuses'[n] = IF n \in blocked' THEN "FAILED" ELSE given'[n]
  BY <1>1, <1>2 DEF WalkInv
<1>6. \A n \in blocked' : given'[n] = "PENDING"
  <2>1. \A n \in N : given[n] = "PENDING"
    BY <1>1, Zenon DEF WalkInv
  <2> QED
    BY <1>2, <2>1 DEF WalkInv
<1>7. ASSUME NEW S \in SUBSET Node, ClosedUnderFailure(given, S)
      PROVE  blocked \cup N \subseteq S
  <2>1. blocked \subseteq S
    BY <1>7 DEF WalkInv
  <2>2. given[x] = "FAILED" \/ x \in S
    <3>1. statuses[x] = "FAILED"
      BY <1>2 DEF WalkInv
    <3> QED
      BY <2>1, <3>1 DEF WalkInv
  <2>3. \A n \in N : n \in S
    <3>1. \A n \in N : n \in Node /\ given[n] = "PENDING" /\ x \in Deps[n]
      BY <1>1, <1>2, <1>6
    <3> QED
      BY <1>7, <2>2, <3>1, Zenon DEF ClosedUnderFailure
  <2> QED
    BY <2>1, <2>3
<1>8. ASSUME NEW n \in Node, NEW d \in Deps[n],
             statuses'[d] = "FAILED", d \notin queue'
      PROVE  statuses'[n] # "PENDING"
  <2>1. d \in Node
    BY DepsAssumption
  <2>2. d \notin N
    BY <1>2, <1>8
  <2>3. statuses[d] = "FAILED"
    BY <1>2, <1>8, <2>1, <2>2
  <2>4. CASE d = x
    BY <1>2, <1>3, <2>4
  <2>5. CASE d # x
    BY <1>2, <1>8, <2>3, <2>5 DEF WalkInv
  <2> QED
    BY <2>4, <2>5
<1>9. \A n \in queue' : statuses'[n] = "FAILED"
  BY <1>1, <1>2 DEF WalkInv, WalkTypeOK
<1> QED
  BY <1>2, <1>4, <1>5, <1>6, <1>7, <1>8, <1>9 DEF WalkInv

\* With an empty queue the collected set is closed, hence the least one.
LEMMA EmptyQueueResult == WalkInv => WalkCollectsBlocked
<1> SUFFICES ASSUME WalkInv, queue = {} PROVE blocked = FailedDependants(given)
  BY DEF WalkCollectsBlocked
<1>1. ClosedUnderFailure(given, blocked)
  <2> SUFFICES ASSUME NEW n \in Node, given[n] = "PENDING", NEW d \in Deps[n],
                      given[d] = "FAILED" \/ d \in blocked
               PROVE  n \in blocked
    BY DEF ClosedUnderFailure
  <2>1. d \in Node
    BY DepsAssumption
  <2>2. statuses[d] = "FAILED"
    BY <2>1 DEF WalkInv
  <2>3. statuses[n] # "PENDING"
    BY <2>2 DEF WalkInv
  <2> QED
    BY <2>3 DEF WalkInv
<1>2. blocked \subseteq FailedDependants(given)
  BY DEF FailedDependants, WalkInv, WalkTypeOK
<1>3. FailedDependants(given) \subseteq blocked
  BY <1>1 DEF FailedDependants, WalkInv, WalkTypeOK
<1> QED
  BY <1>2, <1>3

\* In every graph and for every order of service, the walk of failure.py
\* returns exactly the pending nodes that can no longer run.
THEOREM WalkCorrect == WalkSpec => []WalkCollectsBlocked
<1>1. WalkInv /\ [WalkNext]_walkVars => WalkInv'
  <2> SUFFICES ASSUME WalkInv, [WalkNext]_walkVars PROVE WalkInv'
    OBVIOUS
  <2>1. CASE UNCHANGED walkVars
    BY <2>1 DEF walkVars, WalkInv, WalkTypeOK, ClosedUnderFailure
  <2> QED
    BY <2>1, VisitInv DEF WalkNext, Return
<1> QED
  BY <1>1, WalkInitInv, EmptyQueueResult, PTL DEF WalkSpec

=============================================================================
