\* All definitions of up to three nodes with short dependency lists, and all
\* template strings of up to ten tokens: two placeholders side by side fit.
SPECIFICATION DefinitionsSpec
CONSTANTS
  a = a
  b = b
  c = c
  unknown = unknown
  malformed = malformed
  Id = {a, b, c, unknown, malformed}
  ValidId = {a, b, c, unknown}
  Value <- SomeValues
  Definition <- SmallDefinitions
  ExecutionInput <- SomeInputs
  NodeReference <- RootReferences
  MaxLength = 10
  Outputs <- SomeOutputs
  References <- SomeReferences
INVARIANTS
  PathBookkeeping
  CyclesAreReal
  AcceptedIsDag
  DagCoversDefinition
  OnlyLateFaultsStop
  ParserAcceptsGrammar
  SegmentsReassemble
  ResolvesToAddressed
PROPERTIES
  SearchTerminates
