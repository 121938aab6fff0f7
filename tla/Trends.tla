------------------------------- MODULE Trends -------------------------------
(***************************************************************************)
(* From an event to the widget: ingest.Processor.ProcessAt looks the query *)
(* up in the stop-list and adds it to its shard; refreshSnapshots in       *)
(* main.go walks the shards, leaves out what the stop-list matches, merges *)
(* the shards' tops and publishes the result.  They share the shards'      *)
(* mutexes and nothing else: the stop-list may change between any two      *)
(* steps, and other shards while one is scanned.                           *)
(*                                                                         *)
(* Of a window only the running totals are here, and its expiry may take   *)
(* any number of events away (module Window says which).  A list of items  *)
(* is the set of its items: no two have the same query, so sortItems'      *)
(* order is total and the set says what the list is.                       *)
(***************************************************************************)
EXTENDS StopTerms, FiniteSets, Naturals

CONSTANTS
  Query,       \* normalised queries that users send
  Worker,      \* goroutines that process events: the Kafka consumer, HTTP handlers
  ShardCount,
  ShardOf,     \* hash.Index
  Limit,       \* snapshot.MaxLimit
  SavedTerm,   \* the terms the file may hold when the service starts
  AdminTerm,   \* the terms administrators add and remove
  MaxCount     \* bound: a query is not counted beyond it

ASSUME TrendsAssumption ==
  /\ Query \subseteq Term \cap Nat        \* numbered in the order of the strings
  /\ IsFiniteSet(Query)
  /\ ShardCount \in Nat \ {0}
  /\ ShardOf \in [Query -> 1..ShardCount]
  /\ Limit \in Nat \ {0}
  /\ SavedTerm \cup AdminTerm \subseteq Term
  /\ MaxCount \in Nat

VARIABLES
  terms,      \* Service.list: the stop-list as readers see it
  counts,     \* Window.totals of all shards
  events,     \* events[w]: what worker w has in hand
  refresher,  \* where refreshSnapshots stands, and its local items
  pending,    \* a tick waits in ticker.C, which holds one
  published,  \* Publisher.current
  cancelled,  \* rootCtx
  \* History, read by properties only:
  scanned,    \* the items the stop-list let into this build
  shielded,   \* queries the stop-list has matched ever since this build began
  disturbed   \* counts or the stop-list changed under this build

ingestVars == <<counts, events>>
history == <<scanned, shielded, disturbed>>
vars == <<terms, counts, events, refresher, pending, published, cancelled, history>>

Item == [query : Query, count : 1..MaxCount]

\* sortItems: by count, then by query.
Precedes(i, j) == i.count > j.count \/ (i.count = j.count /\ i.query < j.query)

Before(items, j) == {i \in items : Precedes(i, j)}

\* Fault: one too many.
TopPlusOne(items) == {j \in items : Cardinality(Before(items, j)) <= Limit}

\* sort.Slice, and the cut to the limit.
Top(items) == {j \in items : Cardinality(Before(items, j)) < Limit}

BlockedBy(ts) == {q \in Query : Contains(buildSnapshot(ts), q)}

Blocked == BlockedBy(terms)

\* The items of the queries S in the map c.
ItemsOf(c, S) == {[query |-> q, count |-> c[q]] : q \in {r \in S : c[r] > 0}}

InShard(s) == {q \in Query : ShardOf[q] = s}

\* Every call into a shard begins with ExpireAt: what it may leave there.
Expired(s) ==
  {c \in [Query -> 0..MaxCount] :
     \A q \in Query : c[q] <= counts[q] /\ (ShardOf[q] # s => c[q] = counts[q])}

\* The refresher has this shard's mutex.
Scanning(s) == refresher.at = "scan" /\ refresher.shard = s

NoEvent == [at |-> "idle"]

Init ==
  /\ terms \in SUBSET SavedTerm
  /\ counts = [q \in Query |-> 0]
  /\ events = [w \in Worker |-> NoEvent]
  /\ refresher = [at |-> "lock", shard |-> 1, todo |-> {}, kept |-> {}, candidates |-> {}]
  /\ pending = FALSE
  /\ published = {}
  /\ cancelled = FALSE
  /\ scanned = {}
  /\ shielded = Blocked
  /\ disturbed = FALSE

-----------------------------------------------------------------------------
(* ingest.Processor.ProcessAt, of an event that is valid and no bot's. *)

Arrive(w) ==
  /\ events[w] = NoEvent
  /\ \E q \in Query : events' = [events EXCEPT ![w] = [at |-> "arrived", query |-> q]]
  /\ UNCHANGED <<terms, counts, refresher, pending, published, cancelled, history>>

StopListDrops(w) ==
  /\ events[w].at = "arrived" /\ events[w].query \in Blocked
  /\ events' = [events EXCEPT ![w] = NoEvent]
  /\ UNCHANGED <<terms, counts, refresher, pending, published, cancelled, history>>

StopListPasses(w) ==
  /\ events[w].at = "arrived" /\ events[w].query \notin Blocked
  /\ events' = [events EXCEPT ![w].at = "passed"]
  /\ UNCHANGED <<terms, counts, refresher, pending, published, cancelled, history>>

\* Other than the refresher's, a change of the counters disturbs the build.
Disturb == disturbed' = (disturbed \/ counts' # counts)

\* Aggregator.AddAt: the window expires, and takes the event ...
Accept(w) ==
  LET q == events[w].query IN
  /\ events[w].at = "passed" /\ ~Scanning(ShardOf[q])
  /\ \E c \in Expired(ShardOf[q]) :
       c[q] < MaxCount /\ counts' = [c EXCEPT ![q] = @ + 1]
  /\ events' = [events EXCEPT ![w].at = "added"]
  /\ Disturb
  /\ UNCHANGED <<terms, refresher, pending, published, cancelled, scanned, shielded>>

\* ... or drops it, for its age or for a limit.
Reject(w) ==
  /\ events[w].at = "passed" /\ ~Scanning(ShardOf[events[w].query])
  /\ counts' \in Expired(ShardOf[events[w].query])
  /\ events' = [events EXCEPT ![w] = NoEvent]
  /\ Disturb
  /\ UNCHANGED <<terms, refresher, pending, published, cancelled, scanned, shielded>>

\* CountAt, for the answer, takes the mutex a second time.
Answer(w) ==
  /\ events[w].at = "added" /\ ~Scanning(ShardOf[events[w].query])
  /\ counts' \in Expired(ShardOf[events[w].query])
  /\ events' = [events EXCEPT ![w] = NoEvent]
  /\ Disturb
  /\ UNCHANGED <<terms, refresher, pending, published, cancelled, scanned, shielded>>

Process(w) ==
  \/ Arrive(w) \/ StopListDrops(w) \/ StopListPasses(w)
  \/ Accept(w) \/ Reject(w) \/ Answer(w)

-----------------------------------------------------------------------------
(* stoplist.Service, as module StopListService implements it: readers see  *)
(* whole updates, one at a time.                                           *)
StopList == INSTANCE AtomicStopList WITH Term <- AdminTerm

Update ==
  /\ StopList!Next
  /\ shielded' = shielded \cap BlockedBy(terms')
  /\ disturbed' = TRUE
  /\ UNCHANGED <<ingestVars, refresher, pending, published, cancelled, scanned>>

-----------------------------------------------------------------------------
(* refreshSnapshots *)

\* time.NewTicker: a tick that finds one waiting is dropped.
Tick ==
  /\ ~pending /\ refresher.at # "stopped"
  /\ pending' = TRUE
  /\ UNCHANGED <<terms, ingestVars, refresher, published, cancelled, history>>

\* Fault: what the last build found is not thrown away.
ReceiveUnreset ==
  /\ refresher.at = "idle" /\ pending
  /\ pending' = FALSE
  /\ refresher' = [refresher EXCEPT !.at = "lock", !.shard = 1]
  /\ scanned' = {} /\ shielded' = Blocked /\ disturbed' = FALSE
  /\ UNCHANGED <<terms, ingestVars, published, cancelled>>

\* case now := <-ticker.C: a build begins.
Receive ==
  /\ refresher.at = "idle" /\ pending
  /\ pending' = FALSE
  /\ refresher' = [refresher EXCEPT !.at = "lock", !.shard = 1, !.candidates = {}]
  /\ scanned' = {} /\ shielded' = Blocked /\ disturbed' = FALSE
  /\ UNCHANGED <<terms, ingestVars, published, cancelled>>

\* Shard.TopFilteredAt takes the mutex and lets the window expire ...
LockShard ==
  /\ refresher.at = "lock"
  /\ counts' \in Expired(refresher.shard)
  /\ refresher' = [refresher EXCEPT !.at = "scan",
                                   !.todo = ItemsOf(counts', InShard(refresher.shard))]
  /\ UNCHANGED <<terms, events, pending, published, cancelled, history>>

\* Fault: only exact terms are looked up.
VisitExact(i) ==
  /\ refresher.at = "scan" /\ i \in refresher.todo
  /\ LET kept == {i} \ {j \in {i} : j.query \in terms} IN
     /\ refresher' = [refresher EXCEPT !.todo = @ \ {i}, !.kept = @ \cup kept]
     /\ scanned' = scanned \cup kept
  /\ UNCHANGED <<terms, ingestVars, pending, published, cancelled, shielded, disturbed>>

\* ... asks the stop-list about one item after the other, in the order the
\* map yields them ...
Visit(i) ==
  /\ refresher.at = "scan" /\ i \in refresher.todo
  /\ LET kept == {i} \ {j \in {i} : j.query \in Blocked} IN
     /\ refresher' = [refresher EXCEPT !.todo = @ \ {i}, !.kept = @ \cup kept]
     /\ scanned' = scanned \cup kept
  /\ UNCHANGED <<terms, ingestVars, pending, published, cancelled, shielded, disturbed>>

\* Fault: the stop-list is asked after the shard's top was cut.
UnlockShardLate ==
  LET top == Top(refresher.kept \cup ItemsOf(counts, InShard(refresher.shard) \cap Blocked)) IN
  /\ refresher.at = "scan" /\ refresher.todo = {}
  /\ refresher' =
       [refresher EXCEPT !.at = IF refresher.shard < ShardCount THEN "lock" ELSE "merge",
                         !.shard = IF refresher.shard < ShardCount THEN @ + 1 ELSE @,
                         !.kept = {},
                         !.candidates = @ \cup (top \cap refresher.kept)]
  /\ UNCHANGED <<terms, ingestVars, pending, published, cancelled, history>>

\* ... and hands over the shard's own top.
UnlockShard ==
  /\ refresher.at = "scan" /\ refresher.todo = {}
  /\ refresher' =
       [refresher EXCEPT !.at = IF refresher.shard < ShardCount THEN "lock" ELSE "merge",
                         !.shard = IF refresher.shard < ShardCount THEN @ + 1 ELSE @,
                         !.kept = {},
                         !.candidates = @ \cup Top(refresher.kept)]
  /\ UNCHANGED <<terms, ingestVars, pending, published, cancelled, history>>

\* Fault: the shards' tops are appended and cut, not sorted.
PublishUnsorted ==
  /\ refresher.at = "merge"
  /\ published' \in {s \in SUBSET refresher.candidates :
                       \/ Cardinality(s) = Limit
                       \/ Cardinality(s) < Limit /\ s = refresher.candidates}
  /\ refresher' = [refresher EXCEPT !.at = "observe", !.shard = 1]
  /\ UNCHANGED <<terms, ingestVars, pending, cancelled, history>>

\* Fault: an empty top is not published.
PublishNonEmpty ==
  /\ refresher.at = "merge"
  /\ published' = IF refresher.candidates = {} THEN published ELSE Top(refresher.candidates)
  /\ refresher' = [refresher EXCEPT !.at = "observe", !.shard = 1]
  /\ UNCHANGED <<terms, ingestVars, pending, cancelled, history>>

\* The shards' tops are merged, and the pointer is stored.
Publish ==
  /\ refresher.at = "merge"
  /\ published' = Top(refresher.candidates)
  /\ refresher' = [refresher EXCEPT !.at = "observe", !.shard = 1]
  /\ UNCHANGED <<terms, ingestVars, pending, cancelled, history>>

\* SetAggregatorStats: each of its three calls goes through all shards.
Observe ==
  /\ refresher.at = "observe"
  /\ counts' \in Expired(1 + ((refresher.shard - 1) % ShardCount))
  /\ refresher' = IF refresher.shard < 3 * ShardCount
                  THEN [refresher EXCEPT !.shard = @ + 1]
                  ELSE [refresher EXCEPT !.at = "idle"]
  /\ UNCHANGED <<terms, events, pending, published, cancelled, history>>

Cancel ==
  /\ ~cancelled
  /\ cancelled' = TRUE
  /\ UNCHANGED <<terms, ingestVars, refresher, pending, published, history>>

\* Fault: a tick goes before the context.
StopLast ==
  /\ refresher.at = "idle" /\ cancelled /\ ~pending
  /\ refresher' = [refresher EXCEPT !.at = "stopped"]
  /\ UNCHANGED <<terms, ingestVars, pending, published, cancelled, history>>

\* case <-ctx.Done()
Stop ==
  /\ refresher.at = "idle" /\ cancelled
  /\ refresher' = [refresher EXCEPT !.at = "stopped"]
  /\ UNCHANGED <<terms, ingestVars, pending, published, cancelled, history>>

Scan == \E i \in refresher.todo : Visit(i)

Refresh == LockShard \/ Scan \/ UnlockShard \/ Publish \/ Observe

Next ==
  \/ \E w \in Worker : Process(w)
  \/ Update
  \/ Tick
  \/ Receive
  \/ Refresh
  \/ Cancel
  \/ Stop

\* The clock ticks and the refresher runs; a select whose two cases are both
\* ready time and again takes each of them in the end, for it picks at random.
\* Nothing is assumed of events and administrators.
Fairness == WF_vars(Tick) /\ WF_vars(Receive) /\ WF_vars(Refresh) /\ SF_vars(Stop)

Spec == Init /\ [][Next]_vars /\ Fairness

-----------------------------------------------------------------------------
EventType == {NoEvent} \cup [at : {"arrived", "passed", "added"}, query : Query]

RefresherType ==
  [at : {"lock", "scan", "merge", "observe", "idle", "stopped"},
   shard : 1..(3 * ShardCount),
   todo : SUBSET Item, kept : SUBSET Item, candidates : SUBSET Item]

\* The variables have their types, nothing but the widget's number of items
\* is published, and outside "observe" the refresher stands at a shard.
TypeOK ==
  /\ terms \subseteq SavedTerm \cup AdminTerm
  /\ counts \in [Query -> 0..MaxCount]
  /\ events \in [Worker -> EventType]
  /\ refresher \in RefresherType
  /\ refresher.at \in {"lock", "scan", "merge"} => refresher.shard \in 1..ShardCount
  /\ pending \in BOOLEAN /\ cancelled \in BOOLEAN /\ disturbed \in BOOLEAN
  /\ published \subseteq Item /\ Cardinality(published) <= Limit
  /\ scanned \subseteq Item
  /\ shielded \subseteq Query

\* A step that publishes: refreshSnapshots leaves TopFilteredAt behind.
Publishes == refresher.at = "merge" /\ refresher'.at # "merge"

Shown(items) == {i.query : i \in items}

\* A query the stop-list has matched since the build began is not in what the
\* build publishes, whatever was counted and whoever added or removed other
\* terms meanwhile (main.go:200, README: "already accumulated" queries).
BlockedIsHidden == [][Publishes => Shown(published') \cap shielded = {}]_vars

\* What is published is the top of everything the build saw in all shards:
\* cutting each shard's list to the limit loses nothing (aggregator.go:77),
\* also when the stop-list and other shards change under the scan.
MergeIsTop == [][Publishes => published' = Top(scanned)]_vars

\* The top of everything counted that the stop-list does not match.
TopOfAll == Top(ItemsOf(counts, Query \ Blocked))

\* A build under which nothing changed publishes the exact top: a query is
\* not lost to blocked ones above it in its shard (README: "Sharding").
QuietBuildIsExact == [][Publishes /\ ~disturbed => published' = TopOfAll]_vars

\* A query the stop-list matches for good vanishes for good, under any traffic.
BlockedVanishes ==
  \A q \in Query : <>[](q \in Blocked) => <>[](cancelled \/ q \notin Shown(published))

\* Once counts and stop-list stay as they are, the widget shows the exact top.
Converges ==
  <>[][counts' = counts /\ terms' = terms]_vars => <>[](cancelled \/ published = TopOfAll)

\* A cancelled refresher ends, though its ticker goes on.
StopsWhenCancelled == cancelled ~> refresher.at = "stopped"
=============================================================================
