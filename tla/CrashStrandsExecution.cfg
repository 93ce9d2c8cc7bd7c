\* An orchestrator crashes with work in its hands.
SPECIFICATION FairSpec
CHECK_DEADLOCK FALSE
CONSTANTS
  a = a
  b = b
  c = c
  k1 = k1
  k2 = k2
  o1 = o1
  o2 = o2
  s1 = s1
  s2 = s2
  w1 = w1
  w2 = w2
  r1 = r1
  Node = {a}
  Deps <- SingleDeps
  Caller = {k1}
  Orchestrator = {o1}
  Slot = {s1}
  Worker = {w1}
  WorkerOf <- OneWorker
  Unresolvable = {}
  Mute = {}
  Garbled = {}
  Anonymous = {}
  LongHandlers = FALSE
  MaxAttempts = 1
  MaxRuns = 3
  MaxCopies = 3
  MaxOrchCrashes = 1
  MaxWorkerCrashes = 0
  MaxStalls = 0
  Reader = {}
PROPERTIES
  EventuallyFinished
