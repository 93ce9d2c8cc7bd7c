----------------------------- MODULE MCWorkflow -----------------------------
(* Instances of WorkflowSystem for TLC. *)
EXTENDS WorkflowSystem, TLC

CONSTANTS a, b, c, k1, k2, o1, o2, s1, s2, w1, w2, r1

SingleDeps == [n \in Node |-> {}]

\* a, b -> c
FanInDeps == (a :> {}) @@ (b :> {}) @@ (c :> {a, b})

\* a -> b -> c
ChainDeps == (a :> {}) @@ (b :> {a}) @@ (c :> {b})

TwoWorkers == (s1 :> w1) @@ (s2 :> w2)

\* The first execution of the first attempt, and its second (a rerun).
FirstMute == {<<a, 1, 1>>}
RerunMute == {<<a, 1, 2>>}

\* The first message of a lacks a field, the second of b its identity.
SomeGarbled == {<<a, 1>>, <<b, 2>>}

SomeAnonymous == {<<b, 2>>}

OneWorker == [s \in Slot |-> w1]

\* Workers are alike, together with their slots.
Interchangeable ==
  {p \in Permutations(Slot \cup Worker) :
     \A s \in Slot : p[s] \in Slot /\ WorkerOf[p[s]] = p[WorkerOf[s]]}
=============================================================================
