\* A confirmed ticket, with the graph library as it is: graph.invoke() raises.
SPECIFICATION Spec
CONSTANTS
  Categories <- MCCategories
  Confidences <- MCConfidences
  Conns = {w1}
  Confirms = {c1}
  Cancels = {x1}
  Patches = {p1}
  Critical = {FALSE}
  Texts = {"text"}
  MaxCrashes = 1
  SyncInvoke = {"raises"}
INVARIANT
  ConfirmRunsTheAction
CHECK_DEADLOCK FALSE
