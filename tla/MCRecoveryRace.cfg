\* The recovery loop against the handlers that commit between its read and its write.
SPECIFICATION Spec
CONSTANTS
  Categories <- MCCategories
  Confidences <- MCConfidences
  Conns = {w1}
  Confirms = {c1}
  Cancels = {x1}
  Patches = {p1}
  Critical = {FALSE}
  Texts = {"text"}
  MaxCrashes = 1
  SyncInvoke = {"raises"}
PROPERTY
  RecoveryFailsPendingOnly
CHECK_DEADLOCK FALSE
