SPECIFICATION FairSpec
CONSTANTS
  Task = {t1, t2}
  Client = {codex, claude}
  Server = {s1}
  Other = Other
  None = None
  MaxEdits = 1
  MaxFaults = 1
INVARIANT OwnIsRecorded
PROPERTIES TheirsIsKept ReceiptsAreCleared
