SPECIFICATION Spec
CONSTANTS
  Query = {1, 2}
  NoQuery = 0
  Actor = {a1}
  NoActor = NoActor
  WindowSize = 4
  BucketSize = 2
  MaxFutureSkew = 2
  MaxUniqueQueries = 2
  MaxUniqueQueriesPerBucket = 1
  PerActorQueryLimit = 2
  Int64Half = 1000
  Proc = {p1}
  TopLimit = 1
  Offset <- Offsets
  StartClock = 11
  MaxClock = 18
  MaxEvents = 3
  MaxLag = 0
PROPERTY Exact
