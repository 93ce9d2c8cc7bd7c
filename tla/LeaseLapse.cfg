\* One node, handlers longer than the reclaim idle time; one lease may lapse
\* under a running handler.
SPECIFICATION Spec
CONSTANTS
  a = a
  b = b
  c = c
  k1 = k1
  k2 = k2
  o1 = o1
  o2 = o2
  s1 = s1
  s2 = s2
  w1 = w1
  w2 = w2
  r1 = r1
  Node = {a}
  Deps <- SingleDeps
  Caller = {k1}
  Orchestrator = {o1}
  Slot = {s1, s2}
  Worker = {w1, w2}
  WorkerOf <- TwoWorkers
  Unresolvable = {}
  Mute = {}
  Garbled = {}
  Anonymous = {}
  LongHandlers = TRUE
  MaxAttempts = 1
  MaxRuns = 3
  MaxCopies = 3
  MaxOrchCrashes = 0
  MaxWorkerCrashes = 0
  MaxStalls = 1
  Reader = {}
INVARIANTS
  AttemptMutex
  NodeSuccessJustified
PROPERTIES
  TerminalStable
