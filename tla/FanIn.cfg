\* a and b feed c; two replicas, two trigger requests.
SPECIFICATION FairSpec
CONSTANTS
  a = a
  b = b
  c = c
  k1 = k1
  k2 = k2
  o1 = o1
  o2 = o2
  s1 = s1
  s2 = s2
  w1 = w1
  w2 = w2
  r1 = r1
  Node = {a, b, c}
  Deps <- FanInDeps
  Caller = {k1, k2}
  Orchestrator = {o1, o2}
  Slot = {s1}
  Worker = {w1}
  WorkerOf <- OneWorker
  Unresolvable = {}
  Mute = {}
  Garbled = {}
  Anonymous = {}
  LongHandlers = FALSE
  MaxAttempts = 1
  MaxRuns = 3
  MaxCopies = 3
  MaxOrchCrashes = 0
  MaxWorkerCrashes = 0
  MaxStalls = 0
  Reader = {}
INVARIANTS
  DependencyOrder
  OutcomeAgrees
  SingleTrigger
  ReadyNodesCarried
  LifecycleMatchesState
PROPERTIES
  DispatchedOnce
  ImplementsWorkflow
  EventuallyFinished
