------------------------------- MODULE Window -------------------------------
(***************************************************************************)
(* aggregator.Window: per-bucket counters in a ring, and running totals.   *)
(* The operations are operators from a window to a window (and a result).  *)
(* A Go map is a total function whose absent keys read as 0; a slot whose  *)
(* maps are still nil is a slot of id 0 with nothing counted, which every  *)
(* operation treats alike.                                                 *)
(***************************************************************************)
EXTENDS WindowConfig, Counting, Sequences

NoCounts == [q \in Query |-> 0]

NoActorCounts == [k \in ActorQueryKey |-> 0]

EmptyBucket == [id |-> 0, counts |-> NoCounts, actorCounts |-> NoActorCounts]

NewWindow == [buckets |-> [i \in Slots |-> EmptyBucket],
              totals |-> NoCounts,
              actorTotals |-> NoActorCounts]

\* Fault: the actor counters of the bucket are not cleared.
ClearedCountsOnly(b) == [b EXCEPT !.counts = NoCounts]

\* clear(counts), clear(actorCounts): the id stays.
Cleared(b) == [b EXCEPT !.counts = NoCounts, !.actorCounts = NoActorCounts]

\* The keys present in a map of counters: an entry is positive or deleted.
Keys(m) == {k \in DOMAIN m : m[k] > 0}

\* What the slots S hold of one query, or of one query by one actor.
HeldIn(w, S, q) == Total([i \in Slots |-> w.buckets[i].counts[q]], S)

ActorHeldIn(w, S, k) == Total([i \in Slots |-> w.buckets[i].actorCounts[k]], S)

\* Fault: the totals go down, unchecked, and the buckets keep their counters.
DropUncleared(w, S) ==
  [w EXCEPT !.totals = [q \in Query |-> w.totals[q] - HeldIn(w, S, q)]]

\* subtractBucket and the two clears, for every slot of S.
Drop(w, S) ==
  [buckets |-> [i \in Slots |-> IF i \in S THEN Cleared(w.buckets[i]) ELSE w.buckets[i]],
   totals |-> [q \in Query |-> Monus(w.totals[q], HeldIn(w, S, q))],
   actorTotals |-> [k \in ActorQueryKey |-> Monus(w.actorTotals[k], ActorHeldIn(w, S, k))]]

ExpireAt(w, now) ==
  Drop(w, {i \in Slots : w.buckets[i].id < minBucketID(now)})

\* Fault: what another bucket left in the slot is cleared, not subtracted.
ensureBucketForgetful(w, id) ==
  LET i == bucketIndex(id) IN
  IF w.buckets[i].id = id THEN w
  ELSE [w EXCEPT !.buckets[i] = [EmptyBucket EXCEPT !.id = id]]

\* Fault: the slot is renamed and keeps the counters of the other bucket.
ensureBucketReused(w, id) == [w EXCEPT !.buckets[bucketIndex(id)].id = id]

\* The slot of bucket id is made to hold that bucket: what another bucket
\* left there, older or newer, is subtracted.
ensureBucket(w, id) ==
  LET i == bucketIndex(id)
      v == IF w.buckets[i].id = id THEN w ELSE Drop(w, {i})
  IN  [v EXCEPT !.buckets[i].id = id]

\* One more hit of key k in map m.
Hit(m, k) == [m EXCEPT ![k] = @ + 1]

\* An event of no known actor has no actor counter.
ActorHit(m, event) ==
  IF event.actor = NoActor THEN m ELSE Hit(m, <<event.query, event.actor>>)

Count(w, i, event) ==
  [buckets |-> [w.buckets EXCEPT ![i] = [id |-> @.id,
                                         counts |-> Hit(@.counts, event.query),
                                         actorCounts |-> ActorHit(@.actorCounts, event)]],
   totals |-> Hit(w.totals, event.query),
   actorTotals |-> ActorHit(w.actorTotals, event)]

Accept(w) == [win |-> w, reason |-> "none"]

Reject(w, why) == [win |-> w, reason |-> why]

\* Fault: one hit too many.
OverActorLimitLate(w, event) ==
  /\ event.actor # NoActor
  /\ w.actorTotals[<<event.query, event.actor>>] > PerActorQueryLimit

OverActorLimit(w, event) ==
  /\ event.actor # NoActor
  /\ w.actorTotals[<<event.query, event.actor>>] >= PerActorQueryLimit

\* Query q is not in map m, and the map is full.
NoRoomFor(m, q, limit) == m[q] = 0 /\ Cardinality(Keys(m)) >= limit

\* AddAt past the checks of the query and of the future: e is the window
\* after ExpireAt.  A rejection keeps the expiry, and the last one keeps the
\* bucket that ensureBucket opened.
AddExpired(e, event, now) ==
  LET id == bucketID(EventTime(event, now))
      i  == bucketIndex(id)
      t  == ensureBucket(e, id)
  IN  IF id < minBucketID(now) THEN Reject(e, "too_old")
      ELSE IF OverActorLimit(e, event) THEN Reject(e, "actor_query_limit")
      ELSE IF NoRoomFor(e.totals, event.query, MaxUniqueQueries)
           THEN Reject(e, "cardinality_limit")
      ELSE IF NoRoomFor(t.buckets[i].counts, event.query, MaxUniqueQueriesPerBucket)
           THEN Reject(t, "bucket_cardinality_limit")
      ELSE Accept(Count(t, i, event))

\* The window after AddAt, and why the event was dropped ("none": accepted).
AddAt(w, event, now) ==
  IF event.query = NoQuery THEN Reject(w, "empty_query")
  ELSE IF event.occurredAt > now + MaxFutureSkew THEN Reject(w, "from_future")
  ELSE AddExpired(ExpireAt(w, now), event, now)

\* sort.Slice by count, then by query: q stands before r.
Precedes(m, q, r) == m[q] > m[r] \/ (m[q] = m[r] /\ q < r)

\* The first limit items of a map of counters whose queries are included.
TopOf(m, limit, included) ==
  LET items == Keys(m) \cap included
      rank(q) == 1 + Cardinality({r \in items : Precedes(m, r, q)})
      size == IF limit < Cardinality(items) THEN limit ELSE Cardinality(items)
  IN  [n \in 1..size |->
         LET q == CHOOSE r \in items : rank(r) = n IN [query |-> q, count |-> m[q]]]

\* TopFilteredAt answers the window after its expiry.
TopFilteredAt(w, limit, now, included) == TopOf(ExpireAt(w, now).totals, limit, included)

CountAt(w, query, now) == ExpireAt(w, now).totals[query]

UniqueQueriesAt(w, now) == Cardinality(Keys(ExpireAt(w, now).totals))

ActorCountersAt(w, now) == Cardinality(Keys(ExpireAt(w, now).actorTotals))

WindowEventsAt(w, now) == Total(ExpireAt(w, now).totals, Query)

-----------------------------------------------------------------------------
BucketType == [id : Int, counts : [Query -> Nat], actorCounts : [ActorQueryKey -> Nat]]

WindowType == [buckets : [Slots -> BucketType],
               totals : [Query -> Nat],
               actorTotals : [ActorQueryKey -> Nat]]

\* Each total is the sum of the bucket counters it summarises.
Balanced(w) ==
  /\ \A q \in Query : w.totals[q] = HeldIn(w, Slots, q)
  /\ \A k \in ActorQueryKey : w.actorTotals[k] = ActorHeldIn(w, Slots, k)

\* The limits of the configuration are kept.
WithinLimits(w) ==
  /\ \A k \in ActorQueryKey : w.actorTotals[k] <= PerActorQueryLimit
  /\ Cardinality(Keys(w.totals)) <= MaxUniqueQueries
  /\ \A i \in Slots : Cardinality(Keys(w.buckets[i].counts)) <= MaxUniqueQueriesPerBucket
=============================================================================
