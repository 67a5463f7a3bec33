\* Three connections, queues of one event, three events.
SPECIFICATION FairSpec
CONSTANTS
  s1 = s1
  s2 = s2
  s3 = s3
  o1 = o1
  o2 = o2
  Streams = {s1, s2, s3}
  Orgs = {o1, o2}
  OrgOf <- MCOrgOf
  QueueSize = 1
  MaxEvents = 3
  None = None
INVARIANTS
  TypeOK
  RegistryIsExact
PROPERTIES
  KeepsFanout
  SilentAreRemoved
\* Every administrator has gone and every ticket is finished.
CHECK_DEADLOCK FALSE
