------------------------------ MODULE Service ------------------------------
(***************************************************************************)
(* The whole way of an event: from Kafka into the window (Ingestion), from *)
(* the window to the published snapshot, which the refresher builds every  *)
(* second, and from there to the clients of GET /v1/trends (Snapshot).  A  *)
(* build is one step here and no term is blocked after intake; module      *)
(* Trends has the steps of a build, what goes on beside them, and the      *)
(* stop-list.                                                              *)
(***************************************************************************)
EXTENDS Ingestion, Snapshot

CONSTANT Query   \* numbered in the order of the strings

ASSUME ServiceAssumption == Query \subseteq Nat /\ \A e \in SearchEvent : QueryOf[e] \in Query

VARIABLES
  current,  \* Publisher.current
  built     \* history: the items of the last build, before any list was made of them

serviceVars == <<ingestionVars, current, built>>

ServiceInit == IngestionInit /\ current = Empty /\ built = {}

\* The total of a query.
Counted(window, q) == Hits(window, {e \in SearchEvent : QueryOf[e] = q})

\* The queries TopFilteredAt finds in a window, with their counts.
Items(window) ==
  {[query |-> q, count |-> Counted(window, q)] : q \in {r \in Query : Counted(window, r) > 0}}

\* sortItems
Precedes(i, j) == i.count > j.count \/ (i.count = j.count /\ i.query < j.query)

Sorted(list) == \A i, j \in DOMAIN list : i < j => Precedes(list[i], list[j])

\* sort.Slice: no two items have the same query, so there is one such list.
Sort(items) == CHOOSE list \in [1 .. Cardinality(items) -> items] : Sorted(list)

\* TopFilteredAt on all shards, whose clock may be behind like any other.
ReadWindow ==
  /\ pc # "down"
  /\ \E now \in minBucketID - MaxLag .. minBucketID : counted' = Expired(SearchEvent, now)
  /\ built' = Items(counted')
  /\ UNCHANGED <<vars, minBucketID, taken, evicted, call, posts, observed, metrics, started>>

\* Fault: the payloads of the last snapshot are kept when the list has the same length.
BuildKeepsPayloads ==
  /\ ReadWindow
  /\ LET next == New(Sort(built')) IN
     current' = IF Len(next.Items) = Len(current.Items)
                THEN [next EXCEPT !.jsonByLimit = current.jsonByLimit] ELSE next

\* Fault: a snapshot that shows something is not replaced.
BuildOnce ==
  /\ current = Empty
  /\ ReadWindow
  /\ \E list \in {Sort(built')} : current' = New(Cut(list, MaxLimit))

\* rebuild: TopFilteredAt sorts and cuts, New cuts again, Publish stores.
Build ==
  /\ ReadWindow
  /\ \E list \in {Sort(built')} : current' = New(Cut(list, MaxLimit))

\* A process that starts has an empty snapshot before its first build.
Ingest ==
  /\ IngestionNext
  /\ IF CrashEmpties \/ RestartEmpty
     THEN current' = Empty /\ built' = {}
     ELSE UNCHANGED <<current, built>>

ServiceNext == Ingest \/ Build

\* The consumer's fairness, and the refresher's, which ends with the consumer:
\* nothing restarts a process that is down, and nothing makes events come.
ServiceFairness == IngestionFairness /\ WF_serviceVars(Build /\ pc # "stopped")

ServiceSpec == ServiceInit /\ [][ServiceNext]_serviceVars /\ ServiceFairness

-----------------------------------------------------------------------------
\* The items that fewer than limit others precede.
Top(items, limit) ==
  {j \in items : Cardinality({i \in items : Precedes(i, j)}) < limit}

\* Whatever a client asks for, it gets the top of the limit it named, or of
\* the default, or an error; and it cannot tell which path of the handler made
\* its answer: the payloads of a snapshot and its list never disagree
\* (trends.go:39-54, snapshot.go:82-92).
AnswersAgree ==
  \A raw \in {Absent, NotInteger} \cup {Number(n) : n \in -1 .. MaxLimit + 1} :
    LET answer == GetTrends(current, raw)
        limit == IF raw = Absent THEN DefaultLimit ELSE raw.value
    IN  IF raw # NotInteger /\ (raw = Absent \/ raw.value \in 1..MaxLimit)
        THEN /\ answer.code = "OK"
             /\ {answer.items[i] : i \in DOMAIN answer.items} = Top(built, limit)
             /\ Sorted(answer.items)
        ELSE answer.code = "BadRequest"

Shows(q) == \E i \in DOMAIN current.Items : current.Items[i].query = q

\* A record that waits for a running consumer is on the widget in the end, if
\* it passes the checks before the window: unless the widget is full, the
\* record gets too old, a limit of the window kept it out, its bucket was
\* cleared for another, or the process ends.  Errors, malformed records,
\* rebalances and posted events do not keep it off.
EventuallyShown ==
  \A p \in Partition, o \in Offset :
    LET r == <<p, o>> IN
    r \in SearchEvent \ Rejected =>
      ((pc = "poll" /\ position[p] <= o /\ o < log[p])
         ~> \/ pc \in {"stopped", "down"}
            \/ Shows(QueryOf[r]) \/ Len(current.Items) = MaxLimit
            \/ r \in Old \/ r \in evicted \/ KeptOut(r))
=============================================================================
