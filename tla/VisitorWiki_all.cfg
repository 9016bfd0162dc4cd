SPECIFICATION FairSpec
CONSTANTS
  Process = {p1, p2}
  Wiki = {w1}
  None = None
  Request = {i1, i2}
  Pages = 1
  SourceSlots = 1
  MaxFaults = 1
INVARIANTS StoredStateIsTrue NoStopIsInherited
PROPERTIES CompleteIsFinal StopIsHeeded EveryRequestEnds
CHECK_DEADLOCK FALSE
