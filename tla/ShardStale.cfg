SPECIFICATION Spec
CONSTANTS
  Query = {1, 2}
  NoQuery = 0
  Actor = {a1}
  NoActor = NoActor
  WindowSize = 4
  BucketSize = 2
  MaxFutureSkew = 2
  MaxUniqueQueries = 1
  MaxUniqueQueriesPerBucket = 1
  PerActorQueryLimit = 1
  Int64Half = 1000
  Proc = {p1, p2}
  TopLimit = 1
  Offset <- EdgeOffsets
  StartClock = 11
  MaxClock = 18
  MaxEvents = 3
  MaxLag = 1
INVARIANTS NoLoss
