\* One run of the agent graph, all its properties.
SPECIFICATION FairSpec
CONSTANTS
  Categories <- MCCategories
  Confidences <- MCConfidences
  MaxAttempts = 4
  Configured <- MCConfigured
INVARIANTS
  TypeOK
  GateHolds
  ResolvedIsReal
  EscalatedIsHandedOver
  UncertainActionIsRecorded
PROPERTIES
  NoRequestAfterVerdict
  RunEnds
  KeepsPromise
\* A run ends.
CHECK_DEADLOCK FALSE
