SPECIFICATION Spec
CONSTANTS
  Query = {1, 2}
  NoQuery = 0
  Actor = {a1}
  NoActor = NoActor
  WindowSize = 2
  BucketSize = 1
  MaxFutureSkew = 2
  MaxUniqueQueries = 1
  MaxUniqueQueriesPerBucket = 1
  PerActorQueryLimit = 1
  Int64Half = 16
  Proc = {p1}
  TopLimit = 1
  Offset <- AncientOffsets
  StartClock = 10
  MaxClock = 14
  MaxEvents = 3
  MaxLag = 0
PROPERTY RejectsAncient
