---------------------------- MODULE WindowConfig ----------------------------
(***************************************************************************)
(* The configuration of a sliding window (aggregator.WindowConfig) and its *)
(* arithmetic on time: how an instant becomes a bucket id.  An instant is  *)
(* an integer number of clock units since the Unix epoch; a real one is a  *)
(* nanosecond, and Int64Half stands for 2^63.                              *)
(***************************************************************************)
EXTENDS Integers, FiniteSets

CONSTANTS
  Query,      \* queries, as integers: their order stands for the string order
  NoQuery,    \* the query that is empty after strings.TrimSpace
  Actor,      \* actor keys
  NoActor,    \* the empty actor key
  WindowSize, BucketSize, MaxFutureSkew,
  MaxUniqueQueries, MaxUniqueQueriesPerBucket, PerActorQueryLimit,
  Int64Half   \* an int64 holds the values -Int64Half .. Int64Half - 1

\* What NewWindow demands of a configuration.  withDefaults replaces a zero
\* by a positive default first, so no limit is zero; nothing bounds a
\* negative MaxFutureSkew.
ASSUME ConfigAssumption ==
  /\ Query \subseteq Int /\ IsFiniteSet(Query) /\ NoQuery \notin Query
  /\ IsFiniteSet(Actor) /\ NoActor \notin Actor
  /\ BucketSize \in Nat \ {0}
  /\ WindowSize \in Nat \ {0}
  /\ WindowSize % BucketSize = 0
  /\ MaxFutureSkew \in Int
  /\ MaxUniqueQueries \in Nat \ {0}
  /\ MaxUniqueQueriesPerBucket \in Nat \ {0}
  /\ PerActorQueryLimit \in Nat \ {0}
  /\ Int64Half \in Nat \ {0}

\* actorQueryKey
ActorQueryKey == Query \X Actor

\* Fault: one slot for each bucket of the window, and none for the bucket of
\* the oldest instant when it is cut by the window's edge.
BucketCountWithoutSpare == WindowSize \div BucketSize

\* The ring has one slot more than the window has buckets.
BucketCount == (WindowSize \div BucketSize) + 1

Slots == 0..(BucketCount - 1)

\* time.Time.UnixNano: the result wraps around in an int64.
UnixNano(ts) == ((ts + Int64Half) % (2 * Int64Half)) - Int64Half

\* Integer division of Go: truncated toward zero.
Quotient(a, b) == IF a >= 0 THEN a \div b ELSE -((-a) \div b)

bucketID(ts) == Quotient(UnixNano(ts), BucketSize)

minBucketID(now) == bucketID(now - WindowSize)

\* Go's remainder made non-negative is the remainder of TLA+.
bucketIndex(id) == id % BucketCount

\* aggregator.Event
Event == [query : Query \cup {NoQuery}, actor : Actor \cup {NoActor}, occurredAt : Int]

\* An event later than now counts as an event of now.
EventTime(event, now) == IF event.occurredAt > now THEN now ELSE event.occurredAt
=============================================================================
