SPECIFICATION FairSpec
CONSTANTS
  p1 = p1
  p2 = p2
  Partition = {p1, p2}
  Malformed <- FirstMalformed
  MixedFetches = FALSE
  MaxOffset = 2
  MaxFaults = 3
INVARIANTS AtLeastOnce RedeliveredByRewindsOnly
PROPERTIES EventuallyApplied StopsWhenCancelled
CHECK_DEADLOCK FALSE
