SPECIFICATION FairSpec
CONSTANTS
  Call = {c1}
  Life = life
  Other = other
  Worker = {w1}
  Mode = {"prebuilt"}
  Kind = {"search"}
  Text = {t1, t2}
  NoCall = NoCall
  NoWorker = NoWorker
  NoTarget = NoTarget
  NoJob = NoJob
  MaxEdits = 1
  MaxCommits = 0
  MaxFaults = 0
PROPERTIES PrebuiltAnswersResume
CHECK_DEADLOCK FALSE
