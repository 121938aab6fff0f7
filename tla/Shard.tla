------------------------------- MODULE Shard -------------------------------
(***************************************************************************)
(* aggregator.Shard: one Window under one mutex, called by goroutines that *)
(* read the clock before they lock.  Every method holds the mutex from     *)
(* beginning to end, so each is one action.                                *)
(***************************************************************************)
EXTENDS WindowCalls, Window

VARIABLE win

vars == <<clock, call, reply, log, win>>

Init == CallsInit /\ win = NewWindow

Add(p) ==
  /\ call[p].op = "add"
  /\ LET r == AddAt(win, call[p].event, call[p].now) IN
       /\ win' = r.win
       /\ AddReturns(p, r.reason)

\* Every reading method expires first.
Expiring(p) == win' = ExpireAt(win, call[p].now)

CountQuery(p) ==
  /\ call[p].op = "count"
  /\ Expiring(p)
  /\ ReadReturns(p, [op |-> "count", count |-> CountAt(win, call[p].query, call[p].now)])

Top(p) ==
  /\ call[p].op = "top"
  /\ Expiring(p)
  /\ ReadReturns(p, [op |-> "top",
                     items |-> TopFilteredAt(win, TopLimit, call[p].now, call[p].included)])

UniqueQueries(p) ==
  /\ call[p].op = "unique"
  /\ Expiring(p)
  /\ ReadReturns(p, [op |-> "unique", count |-> UniqueQueriesAt(win, call[p].now)])

ActorCounters(p) ==
  /\ call[p].op = "actors"
  /\ Expiring(p)
  /\ ReadReturns(p, [op |-> "actors", count |-> ActorCountersAt(win, call[p].now)])

WindowEvents(p) ==
  /\ call[p].op = "events"
  /\ Expiring(p)
  /\ ReadReturns(p, [op |-> "events", count |-> WindowEventsAt(win, call[p].now)])

Locked(p) ==
  \/ Add(p) \/ CountQuery(p) \/ Top(p)
  \/ UniqueQueries(p) \/ ActorCounters(p) \/ WindowEvents(p)

Next ==
  \/ Tick /\ UNCHANGED win
  \/ \E p \in Proc : (Begin(p) /\ UNCHANGED win) \/ Locked(p)

Spec == Init /\ [][Next]_vars

-----------------------------------------------------------------------------
\* Type of the shard's state; the answers are left to the refinement.
TypeOK ==
  /\ clock \in Int
  /\ call \in [Proc -> CallType]
  /\ log \subseteq LogType /\ IsFiniteSet(log)
  /\ win \in WindowType

\* The running totals never drift from the buckets: after any interleaving of
\* adds, expiries and evictions (AddAt, ExpireAt, ensureBucket) each total is
\* the sum of the bucket counters it summarises.
Accounting == Balanced(win)

\* No interleaving, however late its callers, gets past the limits checked by
\* AddAt: an actor's hits of a query, the queries of the window, the queries
\* of one bucket.
LimitsHold == WithinLimits(win)

\* Actor counters exist only for hits that are counted: in every bucket the
\* hits of a query by known actors are at most all its hits, so actorTotals,
\* which has no limit of its own, is bounded by the events in the window.
ActorsWithinCounts ==
  \A i \in Slots, q \in Query :
    Total([a \in Actor |-> win.buckets[i].actorCounts[<<q, a>>]], Actor)
      <= win.buckets[i].counts[q]

\* A bucket that holds anything is in the slot of its id and holds nothing
\* that was not accepted for that id: ring slots reused by ensureBucket never
\* pass old hits off as new ones, nor count a hit twice.
NothingInvented ==
  \A i \in Slots, q \in Query :
    LET b == win.buckets[i] IN
    b.counts[q] > 0 =>
      /\ bucketIndex(b.id) = i
      /\ b.counts[q] <= Cardinality({r \in log : r.query = q /\ r.bucket = b.id})

\* README.md: the window is exact.  An accepted event whose bucket is inside
\* the window at the present time is in the totals.
NoLoss ==
  \A q \in Query :
    win.totals[q] >= Cardinality({r \in log : r.query = q /\ r.bucket >= minBucketID(clock)})

Accepts(p) == Add(p) /\ log' # log

\* README.md: events older than the window are rejected, if not to the
\* instant then at least to the bucket (bucketID wraps around for dates that
\* UnixNano cannot represent).
RejectsAncient ==
  [][\A p \in Proc :
       Accepts(p) => call[p].event.occurredAt >= call[p].now - WindowSize - BucketSize]_vars

\* The promise of a shard, for the same calls.
Promise == INSTANCE SlidingWindow

\* When no call waits across a bucket boundary (MaxLag = 0), every answer of
\* the shard is the one SlidingWindow computes from the accepted events.
Exact == Promise!Spec
=============================================================================
