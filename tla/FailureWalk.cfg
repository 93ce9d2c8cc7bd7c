\* Every status assignment the engine can present, with two roots.
SPECIFICATION FairWalkSpec
CONSTANTS
  a = a
  b = b
  c = c
  d = d
  e = e
  f = f
  Node = {a, b, c, d, e, f}
  Deps <- TwoRootDeps
INVARIANTS
  WalkCollectsBlocked
PROPERTIES
  WalkTerminates
