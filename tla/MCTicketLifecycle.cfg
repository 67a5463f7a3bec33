\* One ticket row and all its writers: a client that reconnects, a confirmation,
\* a cancellation, an administrator, the recovery loop and a crash.
SPECIFICATION FairSpec
CONSTANTS
  Categories <- MCCategories
  Confidences <- MCConfidences
  Conns = {w1}
  Confirms = {c1}
  Cancels = {x1}
  Patches = {p1}
  Critical = {FALSE}
  Texts = {"text"}
  MaxCrashes = 1
  SyncInvoke = {"runs", "raises"}
INVARIANTS
  TypeOK
  DestructiveOnlyConfirmed
  ResolvedClaimsAreBacked
  StuckOnlyByCutRun
PROPERTIES
  OnlyAdminReopens
  PendingIsRescued
  HandlersEnd
\* The requests end.
CHECK_DEADLOCK FALSE
