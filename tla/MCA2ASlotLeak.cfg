\* The slot of a client that leaves before its stream starts.
SPECIFICATION FairSpec
CONSTANTS
  Tasks = {t1, t2}
  MaxSlots = 1
PROPERTY
  SlotsComeBack
\* Every request has been served.
CHECK_DEADLOCK FALSE
