SPECIFICATION FairSpec
CONSTANTS
  Request = {r1, r2, r3}
  NoRequest = NoRequest
  Streaming = {r1}
  Slots = 2
  MaxDeltas = 2
INVARIANTS StreamIsWhole
PROPERTIES OneAtATime DepartedFreesTheLocks AttentiveAreServed
CHECK_DEADLOCK FALSE
