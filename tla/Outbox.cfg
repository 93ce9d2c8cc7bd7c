\* Three rows, two publishers, batches of two; one crash and one Redis error.
SPECIFICATION FairOutboxSpec
CONSTANTS
  Row = {1, 2, 3}
  Publisher = {p1, p2}
  BatchLimit = 2
  MaxCrashes = 1
  MaxErrors = 1
  p1 = p1
  p2 = p2
INVARIANTS
  DuplicatesAccounted
  ExclusiveBatches
PROPERTIES
  EventuallyPublished
  ImplementsDelivery
