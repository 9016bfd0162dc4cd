SPECIFICATION Spec
CONSTANTS
  Publisher = {p1, p2}
  Foreign = {f1}
  Old = Old
  Dest = Dest
  None = None
  MaxActs = 3
  MaxFaults = 2
SYMMETRY Symmetry
INVARIANTS AllOrNothing ReceiptsAreTrue
PROPERTIES NothingIsDestroyed
CHECK_DEADLOCK FALSE
