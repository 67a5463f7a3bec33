\* Three clients for two slots.
SPECIFICATION FairSpec
CONSTANTS
  Tasks = {t1, t2, t3}
  MaxSlots = 2
INVARIANTS
  TypeOK
  SlotsAccounted
  StreamsAreScripted
PROPERTIES
  StreamsEnd
\* Every request has been served.
CHECK_DEADLOCK FALSE
