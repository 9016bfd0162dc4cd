SPECIFICATION FairSpec
CONSTANTS
  Call = {c1}
  Life = life
  Other = other
  Worker = {w1}
  Mode = {"deferred", "blocking"}
  Kind = {"search", "explore", "graph"}
  Text = {t1, t2}
  NoCall = NoCall
  NoWorker = NoWorker
  NoTarget = NoTarget
  NoJob = NoJob
  MaxEdits = 1
  MaxCommits = 0
  MaxFaults = 1
PROPERTIES ConnectionEnds CallsEnd DeferredAnswersResume
CHECK_DEADLOCK FALSE
