# Verification of trendstream

TLA+ models of the service in this repository, the TLC configurations that
check them on small instances, and proofs, checked by the TLA+ proof system, of
what holds for every instance. Paths below are those of the repository
(`internal/aggregator/window.go` and so on).

How to run, from this directory: `tlc -config X.cfg M` for a run of the table
below, `tlapm P.tla` for a proof module.

## 1. The system

trendstream reads search events from Kafka (and from `POST /admin/events`),
counts normalised queries over a sliding window of five minutes, publishes the
top list once a second, and lets administrators block terms through a
stop-list kept in a file.

| component | state | operations | talks to |
|---|---|---|---|
| window and shard (`aggregator/window.go`, `shard.go`) | a ring of buckets, running totals, actor totals; one mutex a shard | `AddAt`, `ExpireAt`, `TopFilteredAt`, `CountAt`, three gauges | called by the processor and the refresher, each with a clock it read before the mutex |
| aggregator (`aggregator.go`) | the shards, a query's shard by its hash | the same operations, one shard after the other, merge | shards |
| stop-list (`stoplist/*.go`) | the file; the published snapshot of terms; one mutex for updates | `Add`, `Remove`, `Load`, `Save`, `Contains` | disk; read without a lock by processor and refresher |
| processor (`ingest/processor.go`), with `normalize`, `contract`, `privacy` | none of its own | `ProcessAt`: validate, normalise, filter, bot, stop-list, add, count | stop-list, aggregator |
| Kafka consumer (`broker/kafka/consumer.go`) | the batch in hand; position and committed offsets at client and broker | `Run`, `handleRecord` | broker, processor |
| refresher (`cmd/trendstream/main.go:187`) and publisher (`snapshot/publisher.go`) | a ticker that holds one tick; the published snapshot behind an atomic pointer | rebuild and publish, then fill the gauges | shards, stop-list |
| service life cycle (`main.go`) | the settings, two HTTP servers, `errCh`, a signal channel, the root context, the shutdown deadline | load, make the parts, start, fail, signal, drain, exit | all goroutines |
| configuration (`config/config.go`, with the defaults and checks of `aggregator.go`, `window.go`, `kafka/config.go`) | none after the start | `Load`, `withDefaults`, validation | life cycle |
| snapshot payload (`snapshot/snapshot.go`) and `GET /v1/trends` (`api/trends.go`) | an immutable list with precomputed answers | `New`, `Response`, `PrecomputedJSON`, `GetTrends` | publisher |
| admin API (`api/admin_*.go`, `auth/token.go`) | the token | `Wrap`, `List`, `Add`, `Remove`, `AddEvent` | stop-list, processor |
| metrics (`metrics/metrics.go`) | counters and gauges | `Observe...`, `Set...` | told by processor, consumer, refresher; read by `GET /metrics` only |
| health, HTTP middleware, logging, tools | nothing that another part reads back | formatting | not modelled (section 8) |

### What is hard about it

* **Stale clocks.** Every caller reads the time before it waits for a shard's
  mutex. Expiry and the ring's slots then see times that go backwards.
* **Derived state.** Totals are running sums of buckets that are subtracted at
  expiry and at slot reuse: subtracted twice or never, they drift for ever.
* **A build is of no single moment.** The refresher locks shard by shard and
  asks the stop-list item by item while both change; the processor asks the
  stop-list before the count and not again.
* **Files and crashes.** An update of the stop-list has six steps, each may
  fail, and the process may die between any two.
* **Batches and offsets.** Commits cover whole batches; commits fail, fetches
  carry errors, the group moves partitions, the process stops in mid-batch.
* **The end.** Two servers share one shutdown deadline, requests may hang,
  goroutines may fail when nobody reads their error any more.
* **Answers.** An update of the stop-list takes effect inside `Publish` and is
  answered some time after the mutex is free, with other updates, listings
  that take no lock and perhaps a crash in between; a request for trends is answered from precomputed text or from the list.
* **Memory and offsets.** The window dies with the process, the committed
  offsets do not; administrators add to the same window as the consumer, share
  its limits, and each call brings its own clock. Window and metrics learn of
  an event at different moments.
* **The start.** A number goes through a parser, two levels of defaults and two
  sets of checks; signals before `signal.Notify` kill.
* **Text.** One loop with one flag has to give equal queries equal keys, and
  four other places rely on normalising twice being normalising once.

`PROJECT.json` lists each hazard at its line, with the properties about it.

### What makes each component correct

Window: answers are those computed from the accepted events themselves; totals
never drift; limits hold. Stop-list: the file is an atomic set of terms,
readers see what is on disk, acknowledged updates last, the service always
starts, and the admin API's answers are true of one order of the
updates. Consumer: no record is passed over, few are repeated, all are applied.
Trends: blocked queries are hidden, the merge loses nothing, the widget
converges, and all answers of `GET /v1/trends` are cuts of one list. Ingestion:
what is committed is in the window unless a limit or the reuse of a slot kept
it out, the metrics account for it, and in the end it shows. Life cycle: only
sound settings are served, a graceful end is one, and the end comes. Processor:
keys are canonical, and what normalisation drops does not hide digits from the
filter.

## 2. Modules

| module | models | how state and actions correspond |
|---|---|---|
| `WindowConfig`, `Counting` | parameters and bucket arithmetic of `window.go`; sums and saturating subtraction | `bucketID`, `minBucketID`, `bucketIndex` are the functions of the source; `UnixNano` wraps around at `Int64Half`, Go's division truncates |
| `Window` | `window.go` | a window is a record with the fields of the struct; `AddAt`, `ExpireAt`, `TopFilteredAt`, ... are operators from a window to a window or an answer |
| `WindowCalls` | the callers: clock, waiting calls, answers | `BeginAdd`, `BeginTop`, `BeginGauge` read the clock; an accepted add goes on to `CountAt` as in `ProcessAt` |
| `Shard` | `shard.go` | each method, from lock to unlock, is one action on `win` |
| `SlidingWindow` | *abstract*: what a shard promises | the same calls, every answer computed from the log of accepted events; no ring, no totals |
| `StopTerms` | `stoplist.go` | `Term`, `buildSnapshot`, `Contains` over opaque texts |
| `StopListService` | `service.go`, `store.go` | `Lock`, `Save*` (create, write, sync, close, rename), `Publish`, `SaveFails`; external: `Crash`, `WriteOut` |
| `AtomicStopList` | *abstract*: a set of terms changed one term at a time | implemented by the file of `StopListService`, and taken by `Trends` as the stop-list |
| `AdminAPI` | `admin_stoplist.go`, `token.go` over `StopListService` | `Wrap`'s outcomes; `ReturnUnchanged`, `ReturnChanged`, `ReturnFailed` are the service's steps that release the mutex and leave the goroutine with an answer (`owed`), which `Answer` writes later; `List` reads the snapshot, and is answered like that, too |
| `AnsweredStopList` | *abstract*: a set whose updates happen at one instant between request and answer, and whose answers tell what happened at it | implemented by `AdminAPI` |
| `KafkaConsumer` | `consumer.go` | `PollFetches`, `FetchError`, `handleRecord`, `Commit`, `CommitError`, `Stop` are the branches of `Run`; broker, rebalances and crashes are the environment |
| `Trends` | `refreshSnapshots`, `TopFilteredAt` over the shards, `Publish`, `ProcessAt`'s last steps | `refresher.at` says where the loop stands; each shard is scanned with its mutex held, one item a step |
| `Snapshot` | `snapshot.go`, `GetTrends`, `parseLimit` | operators; a payload is the list in it |
| `Ingestion` | the processor between `handleRecord`, `AddEvent`, the window and the metrics' event counters | extends `KafkaConsumer`: its steps with what they count. `Process` ends with the return of `AddAt`, `Observe` is the rest (`CountAt`, `finish`); `ObservePolled` and `ObserveCommit` follow the last record. The window is a bag of events, each with its bucket, under all three limits, the expiry and the ring (`Replaced`), at the clock of the call (`Clocks`) |
| `Service` | a rebuild and the answers over `Ingestion` | `Build` is one step, at a clock that may be behind; a new process has an empty snapshot |
| `Settings` | `config.Load`, the defaults and checks of the aggregator | operators on a function from settings to numbers |
| `Lifecycle` | `run` from its first line, `serveHTTP`, `serveKafka`, `shutdownServers` | `main` and `turn` say where `run` and the loop over the servers stand; `http.Server` is external |
| `Privacy` | `privacy/filter.go` | an operator for each rule; Luhn's sum is a sum over the positions of the digits, which `MCProcessor` compares with the loop of the source |
| `Processor` | `ProcessAt`, `ValidateAt`, `normalize.Query`, first checks of `AddAt` | `at` names the check that comes next; the loop of `Query` is one step a rune |
| `MCShard`, `MCStopList`, `MCKafka`, `MCTrends`, `MCLifecycle`, `MCProcessor`, `MCAdmin`, `MCService` | instances for TLC | values of constants, a `VIEW` |
| `CountingProofs`, `WindowProofs`, `ShardProofs`, `StopListProofs`, `ServiceProofs`, `TrendsProofs`, `LifecycleProofs`, `ProcessorProofs` | proofs | section 6 |

Composition: `Shard` puts `Window` under the calls of `WindowCalls`;
`Trends` takes `StopTerms` and, as the stop-list, `AtomicStopList`, which
`StopListService` implements (proved); of the window it keeps the totals and
lets any part of them expire, which covers what `Window` does. `AdminAPI`
extends `StopListService` by the answers. `Service` extends `Ingestion` and
`Snapshot`, and `Ingestion` extends `KafkaConsumer`: every step of the consumer
is there with what it does to window and metrics. `Lifecycle` extends
`Settings`.

Definitions whose comment begins with "Fault:" are deliberately wrong variants
of the definition that follows them, the kind a slip in the code would make.
No specification uses them; each is put in the place of its neighbour to see
that a property notices (`mutants` in `PROJECT.json`).

## 3. Runs

| run | states | what it asks | answer |
|---|---|---|---|
| `shard_exact` | 2.1 M | is every verdict, count, gauge and top list the one of `SlidingWindow`, when no call waits across a bucket boundary? | yes (`Exact`, a refinement) |
| `shard_lag` | 384 k | two goroutines whose clock may be a bucket old: do totals, limits, actor counters and slots stay consistent? | yes |
| `shard_stale` | | do such calls lose accepted events? | **they do** (section 7) |
| `shard_ancient` | | is an event from centuries ago rejected? | **no** (section 7) |
| `stoplist_crash` | 80 k | two administrators, listings, wrong tokens, failing saves, a crash anywhere, a restart: atomic, durable, published only when saved, always answered, and answered truly? | yes (`AtomicFile`, `TellsTheTruth`: refinements) |
| `stoplist_power` | 23 k | after power loss, with torn files and old directory entries, does the service start? | yes |
| `kafka_faults` | 146 k | fetch errors, failed commits, rebalances, crashes and stops: nothing passed over, few repeats, all applied, stops when told? | yes |
| `kafka_fetch_errors` | | and if a fetch carries both records and an error? | **records are lost** (section 7) |
| `trends_stop` | 135 k | builds, ingestion and stop-list updates at once: hidden, exact, vanishing, converging, stopping? | yes |
| `lifecycle` | 17 k | any environment, parts that cannot be made, failures, signals, hanging requests, one deadline: are the settings served sound, is a graceful end graceful, and is there an end? | yes |
| `service` | 132 k | records and posts, stale clocks, all limits, slots that are used again, crashes, rebalances, failed commits, ageing: is what is committed counted but for limits and reuse, do the metrics add up at any time, do both answer paths agree, does a record show in the end? | yes |
| `processor` | 182 k | over all small texts: canonical keys, idempotence, the reference normal form, no card or run of digits hidden by control characters, agreement of contract and window? | yes |

### Properties

*Shard.* `Exact` (refinement of `SlidingWindow`), `Accounting` (totals are the
sums of the buckets), `LimitsHold`, `ActorsWithinCounts` (so `actorTotals`,
which has no limit, is bounded), `NothingInvented` (a reused slot never passes
old hits off as new).
*Stop-list.* `PublishedIsSaved`, `SettledHolds` (an acknowledged update lasts
and is what readers match), `AtomicFile` (refinement of `AtomicStopList`),
`Answered` (no failing path keeps the mutex), `StartsAgain`, `TellsTheTruth`
(refinement of `AnsweredStopList`: `changed` and 201, listings and errors fit
one order of the updates, each between its request and its answer; a crash
takes all answers not written yet, and makes at most one of the updates that
had not returned). "Acknowledged" means that `Add` or `Remove` has returned
nil, which is before the answer is written.
*Kafka.* `AtLeastOnce`, `RedeliveredByRewindsOnly`, `EventuallyApplied`,
`StopsWhenCancelled`.
*Trends.* `BlockedIsHidden` (of what is published no query was blocked
throughout the build), `MergeIsTop` (cutting each shard's list before the merge
loses nothing), `QuietBuildIsExact`, `BlockedVanishes`, `Converges`,
`StopsWhenCancelled`.
*Service.* `CommittedIsCounted` (between the offset a process started at and the
committed one nothing that passes the checks and is not too old is missing from
its window, with two exceptions: what the process took is enough for one of the
three limits to keep it out, `KeptOut`, or its bucket was cleared for another,
`evicted`), `MetricsAddUp` (the counters are behind the window by the calls
between `AddAt` and `finish`, and behind Kafka by the batch in hand, and by
nothing more), `AnswersAgree`, `EventuallyShown`. Finding 1 is the second
exception; finding 3 cannot happen in this run, whose fetches carry records or
errors and not both.
*Life cycle.* `ServesSoundSettings`, `GracefulIsDrained`, `NoSenderWaits`,
`SignalEnds`, `FailureEnds`.
*Processor.* `KeysAreCanonical`, `CanonicalIsKept`, `QueryIsWords`,
`CardsAndRunsAreSeen`, `LuhnTellsTypos`, `WindowFindsNothing`.
`CardsAndRunsAreSeen` says of a text that is counted that its digits all
together are no card number, and that no long run of them is broken by control
characters only. It does not say that no number passes: "123 456 789", whose
runs are short, and a card number beside other digits do, unless the phone or
the ratio rule finds them.

## 4. Bounds, and why they are enough

* **Shard.** Two queries, one known actor and events without one; a window of
  two buckets (three slots), of size 2 where instants inside a bucket matter;
  clocks over about four buckets, so that the ring goes round once and a slot
  is used for a second id. Three accepted events fill either limit and one
  more. Event times lie in the oldest bucket, now, in the allowed future, and
  outside on both sides. `StartClock` and `MaxClock` bound the time, `MaxEvents`
  the accepted events, `MaxLag` the buckets a call may wait (0 or 1; more is
  in the theorems). The runs that expect a violation use smaller ones.
* **Stop-list.** Two administrators and three updates: one more than needed for
  a lost update and for an update after a rolled back one. Texts: a term, the
  same in capitals, a phrase with it, another word, and one without a normal form. `MaxCrashes`
  is 1, or 2 with power loss (a second failure before the first was repaired).
  Headers: the token, another one, another scheme, none; a token that is set,
  and one of blanks only.
* **Kafka.** Two partitions of two records, one malformed; `MaxFaults` three, so
  that a failed commit, a rebalance and a crash can meet.
* **Trends.** Three queries in two shards, two of them in one, limit 1 so that
  each cut drops something; one term that comes and goes and that blocks an
  exact query and a phrase in different shards; one ingesting goroutine,
  because several differ from one only in the counts they add between two
  steps of the refresher; counts up to 1, ties resolved by the query. Larger
  counts, limits and numbers of shards are in the theorems.
* **Life cycle.** Both servers of the program, the consumer, up to two requests
  a server, any number of failures the servers can have (one each). Two
  settings, the number of shards and a limit; each unset, no number, -1, 0 or 1,
  with 2 for the default.
* **Service.** One partition of three records: a hit of a user, one that does
  not decode, and a hit of another query, in the bucket of the next tick. Slots
  for two bucket ids, so that this bucket has the slot of the oldest one, and one
  tick (`LastBucket` 1); calls whose clock is a bucket behind (`MaxLag` 1). One
  post to a process: of the user and query of the first record in the oldest
  bucket, which uses up `PerActorQueryLimit` 1 and, with a stale clock, clears
  the newest bucket; of a third query, which uses up the room that
  `MaxUniqueQueriesPerBucket` 1 and `MaxUniqueQueries` 2 leave; or one the checks
  reject. So each limit keeps a committed record out in some behaviour, and a
  record's bucket is cleared in another. Two faults, which reach a redelivery
  after a crash in mid-batch and a failed commit before it. `MaxLimit` 2, with
  lists of two items, precomputed limits 1 and 3 (one above `MaxLimit`, as an
  option may be), and requests for -1 to 3. Several partitions are in
  `kafka_faults`; the theorems about this module have no bounds on partitions,
  posts, slots, lag, limits or faults.
* **Processor.** All texts of up to four of eight runes (blank, tab, a control
  character, a letter in both cases, two digits, a phone sign) and texts of up
  to six of three, to reach the length limit and control characters between
  spaces. The thresholds 9, 10, 13, 15, 19 and 256 are scaled down (2, 3, 2, 4,
  4, 5) so that texts this short reach all rules.

## 5. Fairness, and why the code justifies it

* Safety runs need none, and `Shard`, `Processor` and `stoplist_power` have none.
* **Stop-list.** Weak fairness of the steps of `Save` and `Publish`: the
  goroutine holds the mutex and waits for nobody. Strong fairness of `Lock`:
  `sync.Mutex` hands over to a waiter that starves. Weak fairness of `Answer`: a
  handler that has its answer writes it. No crash is required or excluded.
* **Kafka.** Weak fairness of poll, handling, commit and stop: one goroutine
  that never waits for another. Faults are bounded, and nothing is assumed of
  producers.
* **Trends.** Weak fairness of the ticker, of receiving and of the refresher's
  steps. Strong fairness of `Stop`: `select` picks at random among its ready
  cases, so a context that stays cancelled is chosen in the end although a tick
  may be waiting each time. Nothing is assumed of ingestion and administrators.
* **Service.** The consumer's, and weak fairness of the rebuild while the process
  runs: the ticker comes back every second. Nothing is assumed of restarts, of
  producers, administrators or of time.
* **Life cycle.** Weak fairness of `run`, its start included, of the deadline (a timer), of senders
  and of servers told to close. None on requests: they may hang for ever.

## 6. Proofs

| theorem | statement | assumption |
|---|---|---|
| `ShardProofs!TypeCorrect`, `AccountingHolds`, `LimitsAreKept` | `[]TypeOK`, `[]Accounting`, `[]LimitsHold` for any goroutines, delay, window and limits | those on the constants |
| `ShardProofs!NothingIsInvented`, `ActorsStayWithinCounts` | `[]NothingInvented`, `[]ActorsWithinCounts`, for any delay as well | |
| `ShardProofs!ShardIsExact` | `Spec => Exact`: the shard implements `SlidingWindow` | `Timely` |
| `ShardProofs!NothingIsLost` | `[]NoLoss`, which `shard_stale` breaks without the assumption | `Timely` |
| `ShardProofs!AncientIsRejected` | `RejectsAncient`, which `shard_ancient` breaks without the first assumption | `InRange`, and `WindowSize + BucketSize <= StartClock` |
| `StopListProofs!TypeCorrect`, `AlwaysStarts` | `[]TypeOK`, `[]StartsAgain`, power loss included | |
| `StopListProofs!PublishedStaysSaved`, `UpdatesLast`, `FileIsAtomic` | `[]PublishedIsSaved`, `[]SettledHolds`, and `Spec => AtomicFile` | `PowerLoss = FALSE` |
| `StopListProofs!APITellsTheTruth` | `APISpec => TellsTheTruth`: the admin API implements `AnsweredStopList` | `PowerLoss = FALSE` |
| `ServiceProofs!TypeCorrect`, `FewRedeliveries` | `[]TypeOK`, `[]RedeliveredByRewindsOnly` of `KafkaConsumer` | |
| `ServiceProofs!NoRecordPassedOver` | `[]AtLeastOnce` | `MixedFetches = FALSE` |
| `ServiceProofs!ServiceRunsConsumer` | `ServiceSpec => Spec`: the service put together implements `KafkaConsumer` | |
| `ServiceProofs!CommittedStaysCounted` | `[]CommittedIsCounted` | `MixedFetches = FALSE` |
| `ServiceProofs!MetricsAlwaysAddUp`, `AnswersAlwaysAgree` | `[]MetricsAddUp`, `[]AnswersAgree` for any partitions, callers, clocks, windows, limits and faults | |
| `TrendsProofs!TypeCorrect`, `MergeStaysTop`, `BlockedStaysHidden`, `QuietBuildStaysExact` | the three action properties, for any shards, queries, limit, counts and goroutines | |
| `LifecycleProofs!TypeCorrect`, `GracefulStaysDrained` | for any number of servers | |
| `LifecycleProofs!SettingsAreSound` | `[]ServesSoundSettings` for any settings, defaults and environment | |
| `LifecycleProofs!SendersNeverWait` | `[]NoSenderWaits` | `ServerCount + 1 <= ErrCapacity`, which the program's 2 and 3 meet |
| `ProcessorProofs!TypeCorrect`, `KeysStayCanonical`, `CanonicalStaysKept`, `WindowNeverFinds` | for any runes and any text | `RuneAssumption`: lower-casing a solid rune gives a solid rune it leaves alone |
| `ProcessorProofs!QueryStaysWords`, `CardsAndRunsAlwaysSeen`, `LuhnAlwaysTells` | for any runes and any text, however long | and lower-casing leaves digits alone and makes none |

What the assumptions mean:

* `Timely` says that no call waits across a bucket boundary (`MaxLag = 0`), and
  `InRange` that the clocks of the run lie a window after the epoch of 1970 or
  later, and clocks and event times in the range of `UnixNano`, 1678 to 2262.
  Finding 1 of section 7 is what happens without the first, finding 2 without
  the range.
* `PowerLoss = FALSE`: processes crash anywhere, the machine does not. With a
  power loss an acknowledged update may be gone, as section 7 says.
* `MixedFetches = FALSE`: no fetch carries records and an error at once. With
  them records are lost: finding 3.
* `IngestionAssumption` says that there are finitely many partitions, posts and
  administrators, since sums over them are taken.
* Those of `Processor` are what Go's `unicode` package does.

How they go:

* **Shard.** `Accounting` alone is not inductive, because `AddAt` decides from
  totals and `Drop` subtracts with a floor of zero. The invariant is
  `CallsTyped /\ Sound(win)`: types, totals equal to sums, and the limits.
  `CountingProofs` has the facts on sums over a finite set when one summand
  changes, `WindowProofs` one lemma for each operation (`Drop`, `ExpireAt`,
  `ensureBucket`, `Accept`), `ShardProofs` the steps. No use is made of the
  clock: this is why the limits survive calls that come late.
  `NothingInvented` and `ActorsWithinCounts` follow from `BucketInv`: a query's
  hits in a bucket are at most the events accepted for it under the bucket's
  id (`Backed`), its actors' hits fit in them, and reusing a slot keeps both
  because it empties the slot first.
  `Exact` needs the clock. `Mirrors` says that every bucket of the present
  window is in its slot and holds just the accepted events of its id; the
  totals are then the counts the log gives (`FoundCounts`), so verdict
  (`VerdictRight`), top list (`TopRight`) and gauges are those of the abstract
  window. `LaterMirrors` lets time go on without a step of the shard, since
  expiry is done at the next call and changes no answer.
* **Stop-list.** Two invariants. `Durable` (types, and what a file
  that may come back after a power loss looks like) gives `StartsAgain`. `Saved`
  (the mutex's owner and its temporary file agree with the list and the update
  in hand; what a rename leaves to publish; what an open update leaves open)
  gives the others; each step of the service is an abstract step at the
  rename and a stutter elsewhere. For `TellsTheTruth` the abstract set is the
  list while the process is up and the file while it is down (`TermsTold`): an
  update is done at its publication, which leaves its answer owed, or by a
  crash after its rename. `Saved` gives that list and file agree otherwise.
* **Kafka and service.** `Accounted` bounds how often a record was handled by where it lies
  between committed offset, batch and position; `Covered` says that all before
  the batch, and in it before `next`, were handled. Every step of `Ingestion`
  and `Service` is one of the consumer or leaves it alone (`ConsumerSteps`,
  `ServiceSteps`), so the same argument carries over; with "handled" replaced
  by "in the window or excused" (`Taken`) it gives `CommittedIsCounted`:
  `Refused` says that what `AddAt` turns away is too old or met a limit that the
  hits taken so far reach, `LimitsStay` that they go on reaching it, and
  `StaysTaken` that a hit leaves the window by age or the reuse of its slot
  only. `Sums` ties each counter to the hits taken, the calls under way and the
  batch in hand. For the answers,
  `CutShows` and `SortedShowsTop` say that a prefix of a sorted list is its
  top, whether it is cut when the snapshot is made or when it is asked for.
* **Trends.** `MergeStaysTop` rests on `CutIsCovered`: an item among the best of
  a union is among the best of its part, because the items before it can only
  be fewer there; that in turn on `TopIsShort`, that at most `Limit` items have
  fewer than `Limit` before them, by choosing a least counterexample in the
  well-founded order of finite sets. `Merged`, `Hidden`, `Ahead` and `Quiet` say
  what the refresher's local lists hold of the shards already visited.
* **Life cycle.** `Behind` says that the servers already left are closed and
  empty unless an error was noted. `NoSenderWaits` counts: the errors sent are
  at most the goroutines that have ended. `Sound` follows the settings through the
  start: integers when loaded, positive once the aggregator is made, and
  brokers once the consumer is, if there is one.
* **Processor.** `Written` (what the loop has written is plain runes, a blank
  only after one, and the flag tells whether a blank is last) gives canonical
  keys; `Copied` (of a canonical text the loop has copied what it read) gives
  the other half of idempotence. This is the assumption `TextAssumption` that
  `StopTerms` makes of `normalize.Query`.
  The reference of `QueryIsWords` lists the positions of the runes of words and
  of the first space after a word (`Solid`, `Gap`, `Inner`), and the place of
  a position is the number of listed ones up to it, so that no induction over
  the text is needed: the loop adds the next position to the list
  (`ListsOneMore`), trimming takes off the last one if nothing follows it
  (`WordsTrimmed`), and shifting a text keeps the places (`WordsOfRest`).
  `WordsSoFar` adds that the flag tells whether the loop is in a word. The
  digits of a text keep their order in its query, so that Luhn's sum is the
  same (`SameCard`, by `TotalRenamed`), and digits in a row but for control
  characters end up side by side (`RunShows`). A typo changes one summand by
  less than ten (`TypoTells`, by `TotalReplaced`).

Only model-checked: all liveness (`Answered`, `EventuallyApplied`,
`BlockedVanishes`, `Converges`, `StopsWhenCancelled`, `SignalEnds`,
`FailureEnds`, `EventuallyShown`), since fairness and `ENABLED` are out of the
prover's reach; and that `Total` is the sum and `LuhnSum` the loop of the
source, which is about recursive definitions (`TotalIsTheSum`,
`LuhnSumIsTheLoop`). Every safety property of a passing run is proved. The
types of `StopListService` and `KafkaConsumer` are proved and not in a run.

## 7. Where code and documentation part

Shown by runs:

1. `window.go:303` (`shard_stale`, `NoLoss`). A caller that reads the clock,
   waits for the mutex over a bucket boundary and then adds to the oldest
   bucket of *its* window is given the ring slot of the newest bucket, whose
   hits are thrown away. The window is exact only while no call waits that long.
2. `window.go:334` (`shard_ancient`, `RejectsAncient`). For dates before 1678
   `UnixNano` wraps around, and an event of the 15th to 17th century may be
   counted as one of today.
3. `consumer.go:112` (`kafka_fetch_errors`, `AtLeastOnce`). A fetch that has an
   error for one partition is skipped whole, with the records it carries of
   others; the next commit covers them.

Met while modelling, without a run of their own:

* `README.md:314` says that the events of `[T - 5 minutes, T]` are counted.
  `AddAt` compares bucket ids, not instants, so an event up to one bucket older
  is counted; so is one up to ten seconds ahead, as of now.
* The token of a header is trimmed and the configured one is not
  (`token.go:44`): an `ADMIN_TOKEN` with a blank at either end lets nobody in.
* The gauge of the snapshot's age (`metrics.go:244`) is set only right after a
  build, so it cannot show that the refresher stands still.
* A signal before `signal.Notify` (`main.go:164`) ends the process at once,
  though the servers are already up (`Kill`).
* The term `..` can be added, but the mux cleans it out of the path of DELETE.
* `README.md:300` lists `from_future` among the reasons of an answer. `ValidateAt`
  rejects such events before the window sees them, as `invalid_event`;
  `WindowFindsNothing` shows that the reason never occurs.
* `README.md:36` says that a query disappears "after the next update of the
  snapshot". The next update may be of a build that had passed the query before
  its term was added; line 211, "after the next rebuild", is right.
* `README.md:369` says that on intake the stop-list keeps new forbidden queries
  out of the aggregator. It is checked before the counters and not again, so a
  query may be counted just after its term was acknowledged; it is not shown
  (`BlockedIsHidden`).
* When a server fails, `run` returns without draining the other; a stop-list
  update in flight then ends like a crash, which `StopListService` covers.
* Nobody waits for the consumer and the refresher at the end; a batch that is
  cut off is delivered again (the crash of `KafkaConsumer`).
* `Save` does not sync the directory: after a power loss the file may be an older
  one. It is whole (`AlwaysStarts`), but acknowledged updates may be gone.

## 8. Not modelled

* *Hash* (`hash/hash.go`): `ShardOf` is any function of the query; nothing depends on
  which.
* *Health, HTTP middleware, error texts, logging*: output, no state another part
  reads. *Gauges, durations and registration* of the metrics: a gauge is a
  value at a time, and nothing reads it back.
* *`generated_at` and `window_seconds`*: the same in every answer of a snapshot.
* *Durations, booleans and texts* of the configuration: taken as they are.
* *Events dated ahead of the clock, and times inside a bucket* in `Ingestion`:
  `Shard` has them. *The steps of a build and its stop-list filter* in
  `Service`, where a build is one step: `Trends` has them.
* *The e-mail pattern*: the regexp engine's; the set of texts it matches is a
  constant.
* *`tools/`, `bench/`*: outside the service.
* *The client library's* heartbeats and retries are in the environment's
  freedom (rebalances, failed commits with and without effect).

## 9. Plan

Done, in this order: window and shard; stop-list; consumer; trends;
life cycle; processor; settings and the start; admin API; snapshot, ingestion
and the whole service; the proofs of every safety property of the runs, the
refinements included. Left:

1. What a power loss leaves of the stop-list: that it takes no more than the
   updates since the last write-out, as an invariant with `PowerLoss = TRUE`.
2. What a call that waits at the mutex can cost: a bound on the loss that
   finding 1 shows, for any `MaxLag`.
3. A second worker and counts above one for `Trends`, should the state space
   allow.
