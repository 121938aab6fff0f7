----------------------------- MODULE Ingestion -----------------------------
(***************************************************************************)
(* What becomes of the records of Kafka: kafka.Consumer.handleRecord gives *)
(* an event to ingest.Processor, which counts it in the window or drops    *)
(* it, beside administrators who post events over HTTP to the same         *)
(* processor.  Window and metrics live in memory and die with the process, *)
(* the committed offsets do not.                                           *)
(*                                                                         *)
(* The window is the one of module Window with its buckets named by the    *)
(* events in them: all limits, the expiry, and the ring whose slots are    *)
(* used again.  As in WindowCalls a call reads the clock before it gets    *)
(* the mutex of its shard.  No event is dated ahead of the clock (module   *)
(* Window has those).                                                      *)
(***************************************************************************)
EXTENDS KafkaConsumer, Counting

CONSTANTS
  Poster, Consumer,    \* the goroutines that call the processor
  Posted,              \* names of the events administrators may post
  QueryOf, ActorOf,    \* of a record <<partition, offset>> and a posted event
  BucketOf,            \* the id of the bucket an event is dated in
  ShardOf,             \* of a query
  NoActor,
  Rejected,            \* events the processor drops before the window sees them
  Slots,               \* slots of the ring, as many as a window spans bucket ids
  MaxUniqueQueries, MaxUniqueQueriesPerBucket, PerActorQueryLimit,
  MaxLag,              \* bound: buckets a call's clock may be behind
  LastBucket,          \* bound: lower edges of the window
  MaxPosts             \* bound: events posted to one process

Record == Partition \X Offset

SearchEvent == (Record \ Malformed) \cup Posted

Caller == Poster \cup {Consumer}

ASSUME IngestionAssumption ==
  /\ IsFiniteSet(Partition) /\ IsFiniteSet(Posted) /\ IsFiniteSet(Poster)
  /\ Consumer \notin Poster
  /\ Posted \cap Record = {}
  /\ Rejected \subseteq SearchEvent
  /\ DOMAIN QueryOf = SearchEvent /\ DOMAIN ActorOf = SearchEvent
  /\ BucketOf \in [SearchEvent -> Int]
  /\ Slots \in Nat \ {0}
  /\ MaxUniqueQueries \in Nat \ {0} /\ MaxUniqueQueriesPerBucket \in Nat \ {0}
  /\ PerActorQueryLimit \in Nat \ {0}
  /\ MaxLag \in Nat /\ LastBucket \in Nat /\ MaxPosts \in Nat

VARIABLES
  minBucketID,  \* the lower edge of the window at the current time
  counted,      \* counted[e]: the hits of e in the buckets of the window
  taken,        \* history: taken[e], how often this process accepted e
  evicted,      \* history: events whose bucket was cleared to make room for another
  call,         \* call[c]: what AddAt returned to c and the metrics have not seen
  posts,        \* events posted to this process
  observed,     \* whether the batch in hand is counted as polled
  metrics,      \* the counters of metrics.Metrics that count events
  started       \* history: the offsets this process started at

windowVars == <<counted, taken, evicted>>
processVars == <<windowVars, call, posts, observed, metrics, started>>
ingestionVars == <<vars, minBucketID, processVars>>

NoCall == [result |-> "none"]

Dropped == [result |-> "dropped"]

Accepted(e, now) == [result |-> "accepted", event |-> e, now |-> now]

NoMetrics ==
  [accepted |-> 0, dropped |-> 0, decodeErrors |-> 0, polled |-> 0, committed |-> 0]

Nothing == [e \in SearchEvent |-> 0]

NoCalls == [c \in Caller |-> NoCall]

IngestionInit ==
  /\ Init
  /\ minBucketID = 0
  /\ counted = Nothing /\ taken = Nothing /\ evicted = {}
  /\ call = NoCalls /\ posts = 0 /\ observed = FALSE
  /\ metrics = NoMetrics
  /\ started = committed

\* What a process held in memory is gone.
Empties ==
  /\ counted' = Nothing /\ taken' = Nothing /\ evicted' = {}
  /\ call' = NoCalls /\ posts' = 0 /\ observed' = FALSE
  /\ metrics' = NoMetrics
  /\ UNCHANGED minBucketID

Old == {e \in SearchEvent : BucketOf[e] < minBucketID}

\* No event is in the window before its time.
Dated(e) == BucketOf[e] < minBucketID + Slots

\* Time passes.
Tick ==
  /\ minBucketID < LastBucket
  /\ minBucketID' = minBucketID + 1
  /\ UNCHANGED <<vars, processVars>>

-----------------------------------------------------------------------------
(* The window: an operation at the lower edge `now` *)

\* The lower edges a call may compute: it may have waited for the mutex, and
\* has read the clock when it had its event.
Clocks(e) == {now \in minBucketID - MaxLag .. minBucketID : BucketOf[e] < now + Slots}

\* Fault: the oldest bucket of the window goes with those behind it.
ExpiredEarly(events, now) ==
  [e \in SearchEvent |-> IF e \in events /\ BucketOf[e] <= now THEN 0 ELSE counted[e]]

\* ExpireAt, on the shards that hold events.
Expired(events, now) ==
  [e \in SearchEvent |-> IF e \in events /\ BucketOf[e] < now THEN 0 ELSE counted[e]]

Shard(e) == {f \in SearchEvent : ShardOf[QueryOf[f]] = ShardOf[QueryOf[e]]}

Bucket(e) == {f \in Shard(e) : BucketOf[f] = BucketOf[e]}

\* ensureBucket: events in the slot of e under another id.
Replaced(e) ==
  {f \in Shard(e) : BucketOf[f] # BucketOf[e] /\ BucketOf[f] % Slots = BucketOf[e] % Slots}

Same(e) == {f \in SearchEvent : QueryOf[f] = QueryOf[e] /\ ActorOf[f] = ActorOf[e]}

Hits(window, events) == Total(window, events)

Queries(window, events) == {QueryOf[e] : e \in {f \in events : window[f] > 0}}

OverActorLimit(window, e) ==
  ActorOf[e] # NoActor /\ Hits(window, Same(e)) >= PerActorQueryLimit

NoRoom(window, events, e, limit) ==
  /\ QueryOf[e] \notin Queries(window, events)
  /\ Cardinality(Queries(window, events)) >= limit

\* The checks of AddAt, on the window that ExpireAt left.
Accepts(window, e, now) ==
  /\ BucketOf[e] >= now
  /\ ~OverActorLimit(window, e)
  /\ ~NoRoom(window, Shard(e), e, MaxUniqueQueries)
  /\ ~NoRoom(window, Bucket(e), e, MaxUniqueQueriesPerBucket)

\* The window with one hit more.
Added(window, e) ==
  [f \in SearchEvent |-> CASE f = e           -> window[f] + 1
                           [] f \in Replaced(e) -> 0
                           [] OTHER             -> window[f]]

-----------------------------------------------------------------------------
(* The processor *)

Returns(c, r) == call' = [call EXCEPT ![c] = r]

\* Process of an event that the checks before the window drop.
Drop(c, e) ==
  /\ e \in Rejected
  /\ Returns(c, Dropped)
  /\ UNCHANGED windowVars

\* Process up to the return of AddAt.
AddAt(c, e) ==
  /\ e \notin Rejected
  /\ \E now \in Clocks(e) :
       LET window == Expired(Shard(e), now)
       IN  IF Accepts(window, e, now)
           THEN /\ counted' = Added(window, e)
                /\ taken' = [taken EXCEPT ![e] = @ + 1]
                /\ evicted' = evicted \cup {f \in Replaced(e) : window[f] > 0}
                /\ Returns(c, Accepted(e, now))
           ELSE /\ counted' = window
                /\ Returns(c, Dropped)
                /\ UNCHANGED <<taken, evicted>>

Process(c, e) == call[c] = NoCall /\ (Drop(c, e) \/ AddAt(c, e))

\* CountAt, which an accepted event is followed by, expires once more.
CountAt(c) ==
  LET r == call[c] IN
  counted' = IF r.result = "accepted" THEN Expired(Shard(r.event), r.now) ELSE counted

\* Fault: only what is accepted is counted.
ObserveAccepted(c) ==
  /\ call[c] # NoCall
  /\ CountAt(c)
  /\ metrics' = IF call[c].result = "accepted" THEN [metrics EXCEPT !.accepted = @ + 1] ELSE metrics
  /\ call' = [call EXCEPT ![c] = NoCall]
  /\ UNCHANGED <<vars, minBucketID, taken, evicted, posts, observed, started>>

\* The rest of Process: finish counts the result.
Observe(c) ==
  /\ call[c] # NoCall
  /\ CountAt(c)
  /\ metrics' = IF call[c].result = "accepted" THEN [metrics EXCEPT !.accepted = @ + 1]
                ELSE [metrics EXCEPT !.dropped = @ + 1]
  /\ call' = [call EXCEPT ![c] = NoCall]
  /\ UNCHANGED <<vars, minBucketID, taken, evicted, posts, observed, started>>

\* POST /admin/events; the status of the answer says which of the two it was.
AddEvent(c) ==
  /\ pc # "down" /\ posts < MaxPosts
  /\ posts' = posts + 1
  /\ \E e \in Posted : Dated(e) /\ Process(c, e)
  /\ UNCHANGED <<vars, minBucketID, observed, metrics, started>>

-----------------------------------------------------------------------------
(* The consumer, whose goroutine does one thing after the other *)

\* A record is produced no earlier than its event.
ProduceDated(p) ==
  /\ Produce(p)
  /\ <<p, log[p]>> \in SearchEvent => Dated(<<p, log[p]>>)
  /\ UNCHANGED <<minBucketID, processVars>>

\* handleRecord decodes a record and gives it to the processor.
Handle(p) ==
  LET r == <<p, batch[p].next>> IN
  /\ call[Consumer] = NoCall
  /\ handleRecord(p)
  /\ IF r \in Malformed
     THEN /\ metrics' = [metrics EXCEPT !.decodeErrors = @ + 1]
          /\ UNCHANGED <<windowVars, call>>
     ELSE Process(Consumer, r) /\ UNCHANGED metrics
  /\ UNCHANGED <<minBucketID, posts, observed, started>>

\* The records of the batch that are handled.
InHand ==
  Cardinality({r \in Record : batch[r[1]].first <= r[2] /\ r[2] < batch[r[1]].next})

\* ObserveKafkaRecordsPolled, once EachRecord is through with the batch.
ObservePolled ==
  /\ pc = "batch" /\ AllHandled /\ call[Consumer] = NoCall /\ ~observed
  /\ observed' = TRUE
  /\ metrics' = [metrics EXCEPT !.polled = @ + InHand]
  /\ UNCHANGED <<vars, minBucketID, windowVars, call, posts, started>>

\* CommitRecords, and ObserveKafkaRecordsCommitted or the error it returned.
ObserveCommit ==
  /\ observed /\ observed' = FALSE
  /\ \/ Commit /\ metrics' = [metrics EXCEPT !.committed = @ + InHand]
     \/ CommitError /\ UNCHANGED metrics
  /\ UNCHANGED <<minBucketID, windowVars, call, posts, started>>

\* Neither these nor errors of fetches touch window and metrics (but for
\* counters of the errors).
Poll == (PollFetches \/ Stop) /\ UNCHANGED <<minBucketID, processVars>>

Disturb ==
  /\ FetchError \/ Cancel \/ \E p \in Partition : Rebalance(p)
  /\ UNCHANGED <<minBucketID, processVars>>

\* The goroutine of Run.
Consume ==
  \/ Poll \/ ObservePolled \/ ObserveCommit \/ Observe(Consumer)
  \/ \E p \in Partition : Handle(p)

CrashEmpties == Crash /\ Empties /\ UNCHANGED started

\* A new process: an empty window, and the group's offsets.
RestartEmpty == Restart /\ Empties /\ started' = committed

IngestionNext ==
  \/ Consume \/ Disturb
  \/ \E p \in Partition : ProduceDated(p)
  \/ \E c \in Poster : AddEvent(c) \/ Observe(c)
  \/ CrashEmpties \/ RestartEmpty \/ Tick

\* The goroutine of Run runs; a fetch with records, and an answer to a commit,
\* come in the end.  Nothing restarts a process that is down.
IngestionFairness == WF_ingestionVars(Consume)

-----------------------------------------------------------------------------
\* Events that may be in one window with e, with clocks MaxLag apart.
Beside(e) ==
  {f \in Shard(e) : BucketOf[e] - Slots < BucketOf[f] /\ BucketOf[f] < BucketOf[e] + Slots + MaxLag}

\* What this process took, e not among it, is enough for a limit to keep e
\* out: the hits of its actor, or other queries, in windows e may be in or in
\* its bucket.
KeptOut(e) ==
  /\ taken[e] = 0
  /\ \/ ActorOf[e] # NoActor /\ Hits(taken, Same(e) \cap Beside(e)) >= PerActorQueryLimit
     \/ Cardinality(Queries(taken, Beside(e)) \ {QueryOf[e]}) >= MaxUniqueQueries
     \/ Cardinality(Queries(taken, Bucket(e)) \ {QueryOf[e]}) >= MaxUniqueQueriesPerBucket

\* Every record between the offset this process started at and the committed
\* one is in its window, if it decodes, passes the checks before the window
\* and is not too old.  There are two exceptions: one of the three limits kept
\* it out, whoever of consumer and administrators used it up, or it was in a
\* bucket that ensureBucket cleared for another (run shard_stale).  Crashes,
\* rebalances and failing commits are none; fetches that mix records and
\* errors would be one (run kafka_mixed), and are not in this run
\* (consumer.go:110-131 over processor.go:107 and window.go:125-181).
CommittedIsCounted ==
  \A p \in Partition, o \in Offset :
    LET r == <<p, o>> IN
    /\ pc # "down"
    /\ started[p] <= o /\ o < committed[p]
    /\ r \in SearchEvent \ (Rejected \cup Old)
    => counted[r] > 0 \/ KeptOut(r) \/ r \in evicted

\* The events the window has seen and the metrics have not.
Unobserved == {c \in Caller : call[c] # NoCall}

UnobservedHits == {c \in Caller : call[c].result = "accepted"}

\* The counters of /metrics account for every event of this process, at any
\* time they may be read: they are behind by no more than the calls that are
\* between window and metrics and, before it is counted as polled, the part of
\* the batch that is handled; and what was committed was polled, whatever
\* batches are abandoned and whatever commits fail (processor.go:107-129,
\* consumer.go:117-139).
MetricsAddUp ==
  pc # "down" =>
    /\ metrics.accepted + Cardinality(UnobservedHits) = Hits(taken, SearchEvent)
    /\ metrics.accepted + metrics.dropped + metrics.decodeErrors + Cardinality(Unobserved)
         = metrics.polled + posts + IF observed THEN 0 ELSE InHand
    /\ metrics.committed <= metrics.polled
=============================================================================
