\* The router's threshold at the boundary.
SPECIFICATION Spec
CONSTANTS
  Categories <- MCCategories
  Confidences <- MCConfidences
  MaxAttempts = 4
  Configured <- MCConfigured
INVARIANT
  LowConfidenceEscalates
\* A run ends.
CHECK_DEADLOCK FALSE
