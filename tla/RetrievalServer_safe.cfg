SPECIFICATION Spec
CONSTANTS
  Call = {c1, c2}
  Life = life
  Other = other
  Worker = {w1, w2}
  Mode = {"prebuilt", "deferred", "blocking"}
  Kind = {"search", "explore", "graph", "status"}
  Text = {t1, t2}
  NoCall = NoCall
  NoWorker = NoWorker
  NoTarget = NoTarget
  NoJob = NoJob
  MaxEdits = 1
  MaxCommits = 1
  MaxFaults = 0
INVARIANT EndLeavesNothingRunning
PROPERTIES AnswersAreCurrent
CHECK_DEADLOCK FALSE
SYMMETRY Alike
