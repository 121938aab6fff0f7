SPECIFICATION Spec
CONSTANTS
  Query = {1, 2}
  NoQuery = 0
  Actor = {a1}
  NoActor = NoActor
  WindowSize = 2
  BucketSize = 1
  MaxFutureSkew = 2
  MaxUniqueQueries = 1
  MaxUniqueQueriesPerBucket = 1
  PerActorQueryLimit = 1
  Int64Half = 1000
  Proc = {p1, p2}
  TopLimit = 1
  Offset <- EdgeOffsets
  StartClock = 10
  MaxClock = 14
  MaxEvents = 3
  MaxLag = 1
INVARIANTS TypeOK Accounting LimitsHold ActorsWithinCounts NothingInvented
VIEW StateView
