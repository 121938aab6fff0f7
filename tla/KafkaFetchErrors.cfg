SPECIFICATION Spec
CONSTANTS
  p1 = p1
  p2 = p2
  Partition = {p1, p2}
  Malformed <- FirstMalformed
  MixedFetches = TRUE
  MaxOffset = 2
  MaxFaults = 1
INVARIANT AtLeastOnce
CHECK_DEADLOCK FALSE
