SPECIFICATION ServiceSpec
CONSTANTS
  p1 = p1
  user = user
  post = post
  other = other
  spam = spam
  w1 = w1
  NoActor = NoActor
  Partition = {p1}
  Malformed <- MalformedRecords
  MixedFetches = FALSE
  MaxOffset = 3
  MaxFaults = 2
  Poster = {w1}
  Consumer = Consumer
  Posted = {post, other, spam}
  QueryOf <- QueryOfEvent
  ActorOf <- Actors
  BucketOf <- Buckets
  ShardOf <- OneShard
  Rejected = {spam}
  Slots = 2
  MaxUniqueQueries = 2
  MaxUniqueQueriesPerBucket = 1
  PerActorQueryLimit = 1
  MaxLag = 1
  LastBucket = 1
  MaxPosts = 1
  Query = {1, 2, 3}
  MaxLimit = 2
  DefaultLimit = 1
  PrecomputedLimits = {1, 3}
INVARIANTS CommittedIsCounted MetricsAddUp AnswersAgree
PROPERTIES EventuallyShown
CHECK_DEADLOCK FALSE
