SPECIFICATION FairSpec
CONSTANTS
  Task = {t1, t2}
  Dir = {d1, d2}
  Inode = {i1, i2}
  NoTask = NoTask
  NoDir = NoDir
  NoInode = NoInode
  Creators = {t1}
  Pollers = {t2}
  MaxOpens = 2
INVARIANTS TypeOK MutualExclusion InsideGuardsTheName NothingLeaks
PROPERTIES ImplementsAbstractLock EveryWaiterIsServed CancelledWaiterReturns
