\* a feeds b feeds c.  The first message for a does not parse, nor does the
\* second for b, which does not name its attempt; the templates of c cannot be
\* resolved; a worker may crash; a client polls.
SPECIFICATION FairSpec
CHECK_DEADLOCK FALSE
CONSTANTS
  a = a
  b = b
  c = c
  k1 = k1
  k2 = k2
  o1 = o1
  o2 = o2
  s1 = s1
  s2 = s2
  w1 = w1
  w2 = w2
  r1 = r1
  Node = {a, b, c}
  Deps <- ChainDeps
  Caller = {k1}
  Orchestrator = {o1}
  Slot = {s1}
  Worker = {w1}
  WorkerOf <- OneWorker
  Unresolvable = {c}
  Mute = {}
  Garbled <- SomeGarbled
  Anonymous <- SomeAnonymous
  LongHandlers = FALSE
  MaxAttempts = 2
  MaxRuns = 3
  MaxCopies = 3
  MaxOrchCrashes = 0
  MaxWorkerCrashes = 1
  MaxStalls = 0
  Reader = {r1}
INVARIANTS
  TypeOK
  NoStrandedDependant
  WorkConserved
  ResultsWhole
  FailureExplained
PROPERTIES
  AnswersAdvance
  FinishesUnlessStuck
