--------------------------- MODULE SlidingWindow ---------------------------
(***************************************************************************)
(* What a shard promises: every answer is the one computed afresh from the *)
(* events accepted so far, all those whose bucket is inside the window at  *)
(* the caller's now and no others.  No ring, no running totals.            *)
(***************************************************************************)
EXTENDS WindowCalls, Sequences

Live(now) == {r \in log : r.bucket >= minBucketID(now)}

Hits(now, q) == Cardinality({r \in Live(now) : r.query = q})

ActorHits(now, q, a) == Cardinality({r \in Live(now) : r.query = q /\ r.actor = a})

Distinct(events) == {r.query : r \in events}

ActorKeys(events) == {<<r.query, r.actor>> : r \in {s \in events : s.actor # NoActor}}

InBucket(now, id) == {r \in Live(now) : r.bucket = id}

Full(events, q, limit) == q \notin Distinct(events) /\ Cardinality(Distinct(events)) >= limit

Verdict(event, now) ==
  LET id == bucketID(EventTime(event, now)) IN
  IF event.query = NoQuery THEN "empty_query"
  ELSE IF event.occurredAt > now + MaxFutureSkew THEN "from_future"
  ELSE IF id < minBucketID(now) THEN "too_old"
  ELSE IF event.actor # NoActor /\ ActorHits(now, event.query, event.actor) >= PerActorQueryLimit
       THEN "actor_query_limit"
  ELSE IF Full(Live(now), event.query, MaxUniqueQueries) THEN "cardinality_limit"
  ELSE IF Full(InBucket(now, id), event.query, MaxUniqueQueriesPerBucket)
       THEN "bucket_cardinality_limit"
  ELSE "none"

\* items is the list of the best included queries: its counts are right, it
\* is in order, nothing left out belongs before anything in it, and it is
\* cut only by the limit.
IsTop(items, now, included) ==
  LET found  == Distinct(Live(now)) \cap included
      listed == {items[n].query : n \in 1..Len(items)}
      before(q, r) == \/ Hits(now, q) > Hits(now, r)
                      \/ Hits(now, q) = Hits(now, r) /\ q < r
  IN  /\ listed \subseteq found
      /\ \A n \in 1..Len(items) : items[n].count = Hits(now, items[n].query)
      /\ \A m, n \in 1..Len(items) : m < n => before(items[m].query, items[n].query)
      /\ \A q \in listed, r \in found \ listed : before(q, r)
      /\ Len(items) <= TopLimit
      /\ Len(items) < TopLimit => listed = found

Add(p) ==
  /\ call[p].op = "add"
  /\ AddReturns(p, Verdict(call[p].event, call[p].now))

CountQuery(p) ==
  /\ call[p].op = "count"
  /\ ReadReturns(p, [op |-> "count", count |-> Hits(call[p].now, call[p].query)])

Top(p) ==
  /\ call[p].op = "top"
  /\ reply'.op = "top"
  /\ IsTop(reply'.items, call[p].now, call[p].included)
  /\ ReadReturns(p, [op |-> "top", items |-> reply'.items])

Gauge(p) ==
  LET live == Live(call[p].now) IN
  /\ call[p].op \in {"unique", "actors", "events"}
  /\ ReadReturns(p, [op |-> call[p].op,
                     count |-> CASE call[p].op = "unique" -> Cardinality(Distinct(live))
                                 [] call[p].op = "actors" -> Cardinality(ActorKeys(live))
                                 [] call[p].op = "events" -> Cardinality(live)])

Next ==
  \/ Tick
  \/ \E p \in Proc : Begin(p) \/ Add(p) \/ CountQuery(p) \/ Top(p) \/ Gauge(p)

Spec == CallsInit /\ [][Next]_callVars
=============================================================================
