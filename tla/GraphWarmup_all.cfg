SPECIFICATION FairSpec
CONSTANTS
  Caller = {c1, c2, c3}
  Worker = {w1, w2, w3}
  Fingerprint = {f1, f2}
  NoTarget = NoTarget
  NoWorker = NoWorker
  MayFailToStart = FALSE
INVARIANTS RunningIsTheThread ClosedIsQuiet
PROPERTIES OneBuildAtATime CloseReturns NoWaitOutlivesClose
CHECK_DEADLOCK FALSE
