---------------------------- MODULE TrendsProofs ----------------------------
(***************************************************************************)
(* Proofs about Trends, for any queries, shards, stop-lists and limits.    *)
(* The heart is that cutting each shard's list loses nothing: whatever     *)
(* was cut has Limit better items among those that were not.               *)
(***************************************************************************)
EXTENDS Trends, FiniteSetTheorems, WellFoundedInduction, TLAPS

LEMMA BlockedQueries == \A ts : BlockedBy(ts) \subseteq Query
BY DEF BlockedBy

LEMMA PrecedesIsOrder ==
  /\ \A i \in Item : ~ Precedes(i, i)
  /\ \A i, j, k \in Item : Precedes(i, j) /\ Precedes(j, k) => Precedes(i, k)
  /\ \A i, j \in Item : i # j => Precedes(i, j) \/ Precedes(j, i)
<1>1. \A i \in Item : i.query \in Nat /\ i.count \in Nat
  BY TrendsAssumption DEF Item
<1>2. \A i, j \in Item : i.query = j.query /\ i.count = j.count => i = j
  BY DEF Item
<1> QED
  BY <1>1, <1>2 DEF Precedes

LEMMA ItemsFinite == \A S \in SUBSET Item : IsFiniteSet(S) /\ Cardinality(S) \in Nat
<1> DEFINE P == Query \X (1..MaxCount)
<1> DEFINE f == [p \in P |-> [query |-> p[1], count |-> p[2]]]
<1>1. IsFiniteSet(P)
  <2>1. IsFiniteSet(1..MaxCount)
    BY FS_Interval, TrendsAssumption
  <2> QED
    BY <2>1, FS_Product, TrendsAssumption
<1>2. f \in Surjection(P, Item)
  <2>1. f \in [P -> Item]
    BY DEF Item
  <2>2. ASSUME NEW i \in Item PROVE \E p \in P : f[p] = i
    <3>1. <<i.query, i.count>> \in P /\ [query |-> i.query, count |-> i.count] = i
      BY DEF Item
    <3> QED
      BY <3>1
  <2> QED
    BY <2>1, <2>2 DEF Surjection
<1> HIDE DEF f, P
<1>3. IsFiniteSet(Item)
  BY <1>1, <1>2, FS_Surjection, Zenon
<1>4. ASSUME NEW S \in SUBSET Item PROVE IsFiniteSet(S)
  BY <1>3, FS_Subset, Zenon
<1> QED
  BY <1>4, FS_CardinalityType, Zenon

LEMMA BeforeItems ==
  \A S \in SUBSET Item : \A i : Before(S, i) \in SUBSET Item /\ Before(S, i) \subseteq S
BY DEF Before

LEMMA TopItems == \A S \in SUBSET Item : Top(S) \subseteq S /\ Top(S) \in SUBSET Item
BY DEF Top

LEMMA SmallerSets ==
  \A S, T \in SUBSET Item : S \subseteq T => Cardinality(S) <= Cardinality(T)
BY ItemsFinite, FS_Subset, Zenon

\* Of a set of sets of items, one has no strict subset among them.
LEMMA LeastSet ==
  \A U \in SUBSET SUBSET Item :
    U # {} => \E x \in U : \A y \in U : y \subseteq x => y = x
<1> SUFFICES ASSUME NEW U \in SUBSET SUBSET Item, U # {}
             PROVE \E x \in U : \A y \in U : y \subseteq x => y = x
  OBVIOUS
<1> DEFINE R == StrictSubsetOrdering(Item)
<1>1. IsFiniteSet(Item)
  BY ItemsFinite
<1>2. IsWellFoundedOn(R, SUBSET Item)
  BY <1>1, FS_StrictSubsetOrderingWellFounded, FS_FiniteSubsetsOfFinite, Zenon
<1> HIDE DEF R
<1>3. PICK x \in U : \A y \in U : <<y, x>> \notin R
  BY <1>2, WFMin, Zenon
<1>4. ASSUME NEW y \in U, y \subseteq x PROVE y = x
  <2>1. y # x => <<y, x>> \in R
    BY <1>4 DEF R, StrictSubsetOrdering
  <2> QED
    BY <1>3, <2>1
<1> QED
  BY <1>4

\* An item outside the top has Limit items of the top before it.
LEMMA CutIsCovered ==
  ASSUME NEW S \in SUBSET Item, NEW r \in S, r \notin Top(S)
  PROVE Cardinality(Before(Top(S), r)) >= Limit
<1> DEFINE N == Before(S, r) \ Top(S)
<1>t. \A i : /\ Before(S, i) \in SUBSET Item /\ Before(Top(S), i) \in SUBSET Item
             /\ Cardinality(Before(S, i)) \in Nat /\ Cardinality(Before(Top(S), i)) \in Nat
  BY TopItems, BeforeItems, ItemsFinite, Zenon
<1>0. ASSUME NEW m \in S, m \notin Top(S) PROVE Cardinality(Before(S, m)) >= Limit
  <2>1. ~ (Cardinality(Before(S, m)) < Limit)
    BY <1>0, Zenon DEF Top
  <2>2. Cardinality(Before(S, m)) \in Nat /\ Limit \in Nat
    BY <1>t, TrendsAssumption, Zenon
  <2> QED
    BY <2>1, <2>2
<1>1. CASE N = {}
  <2>1. Before(S, r) \subseteq Before(Top(S), r)
    BY <1>1 DEF Before
  <2>2. Cardinality(Before(S, r)) <= Cardinality(Before(Top(S), r))
    BY <2>1, <1>t, SmallerSets, Zenon
  <2> QED
    BY <2>2, <1>0, <1>t, TrendsAssumption
<1>2. CASE N # {}
  <2> DEFINE U == {Before(S, m) : m \in N}
  <2>1. U \in SUBSET SUBSET Item /\ U # {}
    BY <1>2, <1>t
  <2>2. PICK x \in U : \A y \in U : y \subseteq x => y = x
    BY <2>1, LeastSet, Zenon
  <2>3. PICK m \in N : x = Before(S, m)
    OBVIOUS
  <2>4. m \in S /\ m \in Item /\ m \notin Top(S) /\ Precedes(m, r) /\ r \in Item
    BY DEF Before
  <2>5. ASSUME NEW z \in Before(S, m) PROVE z \in Before(Top(S), r)
    <3>1. z \in Item /\ z \in S /\ Precedes(z, m)
      BY <2>4 DEF Before
    <3>2. Precedes(z, r)
      BY <3>1, <2>4, PrecedesIsOrder
    <3>3. ~ Precedes(z, z)
      BY <3>1, PrecedesIsOrder
    <3>4. Before(S, z) \subseteq Before(S, m)
      BY <3>1, <2>4, PrecedesIsOrder DEF Before
    <3>5. Before(S, z) # Before(S, m)
      BY <3>3 DEF Before
    <3>6. z \notin N
      BY <3>4, <3>5, <2>2, <2>3
    <3> QED
      BY <3>1, <3>2, <3>6 DEF Before
  <2>6. Cardinality(Before(S, m)) <= Cardinality(Before(Top(S), r))
    BY <2>5, <1>t, SmallerSets, Zenon
  <2> QED
    BY <2>6, <2>4, <1>0, <1>t, TrendsAssumption
<1> QED
  BY <1>1, <1>2

\* The top has at most Limit items.
LEMMA TopIsShort == ASSUME NEW S \in SUBSET Item PROVE Cardinality(Top(S)) <= Limit
<1> DEFINE T == Top(S)
<1>0. T \in SUBSET Item /\ T \subseteq S /\ IsFiniteSet(T) /\ Cardinality(T) \in Nat
  BY TopItems, ItemsFinite, Zenon
<1>1. CASE T = {}
  BY <1>1, FS_EmptySet, TrendsAssumption
<1>2. CASE T # {}
  <2> DEFINE U == {T \ Before(T, t) : t \in T}
  <2>1. U \in SUBSET SUBSET Item /\ U # {}
    BY <1>0, <1>2
  <2>2. PICK x \in U : \A y \in U : y \subseteq x => y = x
    BY <2>1, LeastSet, Zenon
  <2>3. PICK t \in T : x = T \ Before(T, t)
    OBVIOUS
  <2>4. ASSUME NEW z \in T, z # t PROVE z \in Before(S, t)
    <3>1. z \in Item /\ t \in Item /\ z \in S
      BY <1>0
    <3>2. CASE Precedes(t, z)
      <4>1. Before(T, t) \subseteq Before(T, z)
        BY <3>1, <3>2, <1>0, PrecedesIsOrder DEF Before
      <4>2. t \in Before(T, z) /\ t \notin Before(T, t)
        BY <3>1, <3>2, PrecedesIsOrder DEF Before
      <4>3. (T \ Before(T, z)) \in U
        OBVIOUS
      <4>4. T \ Before(T, z) \subseteq T \ Before(T, t)
        BY <4>1
      <4> QED
        BY <4>2, <4>3, <4>4, <2>2, <2>3
    <3>3. CASE Precedes(z, t)
      BY <3>1, <3>3 DEF Before
    <3> QED
      BY <2>4, <3>1, <3>2, <3>3, PrecedesIsOrder
  <2>5. Before(S, t) \in SUBSET Item /\ Cardinality(Before(S, t)) \in Nat
    BY BeforeItems, ItemsFinite, Zenon
  <2>6. Cardinality(Before(S, t)) < Limit
    BY DEF Top
  <2>7. T \ {t} \in SUBSET Item /\ T \ {t} \subseteq Before(S, t)
    BY <2>4, <1>0
  <2>8. Cardinality(T \ {t}) <= Cardinality(Before(S, t))
    BY <2>5, <2>7, SmallerSets, Zenon
  <2>9. Cardinality(T \ {t}) = Cardinality(T) - 1
    <3>1. Cardinality(T \ {t}) = IF t \in T THEN Cardinality(T) - 1 ELSE Cardinality(T)
      BY <1>0, FS_RemoveElement, Zenon
    <3> QED
      BY <3>1
  <2>a. Limit \in Nat
    BY TrendsAssumption
  <2> HIDE DEF T
  <2>b. Cardinality(T) <= Limit
    BY <2>5, <2>6, <2>8, <2>9, <2>a, <1>0
  <2> QED
    BY <2>b DEF T
<1> QED
  BY <1>1, <1>2

LEMMA ItemsOfMap ==
  ASSUME NEW c \in [Query -> 0..MaxCount], NEW S \in SUBSET Query
  PROVE /\ ItemsOf(c, S) \in SUBSET Item
        /\ \A i \in Item : i \in ItemsOf(c, S) <=> i.query \in S /\ c[i.query] = i.count
<1>1. ASSUME NEW q \in S, c[q] > 0
      PROVE [query |-> q, count |-> c[q]] \in Item
  <2>1. c[q] \in 1..MaxCount
    BY <1>1, TrendsAssumption
  <2> QED
    BY <2>1 DEF Item
<1>2. ItemsOf(c, S) \in SUBSET Item
  BY <1>1 DEF ItemsOf
<1>3. ASSUME NEW i \in Item, i \in ItemsOf(c, S) PROVE i.query \in S /\ c[i.query] = i.count
  BY <1>3 DEF ItemsOf
<1>4. ASSUME NEW i \in Item, i.query \in S, c[i.query] = i.count PROVE i \in ItemsOf(c, S)
  <2>1. i = [query |-> i.query, count |-> c[i.query]] /\ i.count > 0
    BY <1>4, TrendsAssumption DEF Item
  <2> QED
    BY <1>4, <2>1 DEF ItemsOf
<1> QED
  BY <1>2, <1>3, <1>4

LEMMA ExpiredCounts ==
  \A s : \A c \in Expired(s) :
    /\ c \in [Query -> 0..MaxCount]
    /\ \A q \in Query : ShardOf[q] # s => c[q] = counts[q]
BY DEF Expired

LEMMA ShardQueries == \A s : InShard(s) \in SUBSET Query
BY DEF InShard

-----------------------------------------------------------------------------
(* Types *)

Flags == pending \in BOOLEAN /\ cancelled \in BOOLEAN /\ disturbed \in BOOLEAN

AtShard == refresher.at \in {"lock", "scan", "merge"} => refresher.shard \in 1..ShardCount

Data ==
  /\ terms \subseteq SavedTerm \cup AdminTerm
  /\ counts \in [Query -> 0..MaxCount]
  /\ events \in [Worker -> EventType]
  /\ refresher \in RefresherType
  /\ AtShard
  /\ published \in SUBSET Item
  /\ Cardinality(published) <= Limit
  /\ scanned \in SUBSET Item
  /\ shielded \in SUBSET Query

LEMMA TypeParts == TypeOK <=> Flags /\ Data
BY Zenon DEF TypeOK, Flags, Data, AtShard

LEMMA InitType == Init => TypeOK
<1> SUFFICES ASSUME Init PROVE TypeOK
  OBVIOUS
<1>1. Flags
  BY Zenon DEF Init, Flags
<1>2. ShardCount \in Nat /\ 1 <= ShardCount /\ Limit \in Nat /\ MaxCount \in Nat
  BY TrendsAssumption
<1>3. counts \in [Query -> 0..MaxCount]
  BY <1>2 DEF Init
<1>4. events \in [Worker -> EventType]
  BY DEF Init, EventType
<1>5. refresher \in RefresherType /\ AtShard
  BY <1>2 DEF Init, RefresherType, AtShard
<1>6. published \in SUBSET Item /\ Cardinality(published) <= Limit /\ scanned \in SUBSET Item
  BY <1>2, FS_EmptySet DEF Init
<1>7. terms \subseteq SavedTerm \cup AdminTerm /\ shielded \in SUBSET Query
  BY BlockedQueries DEF Init, Blocked
<1> QED
  BY <1>1, <1>3, <1>4, <1>5, <1>6, <1>7, TypeParts DEF Data

LEMMA NextFlags == Flags /\ [Next]_vars => Flags'
<1> SUFFICES ASSUME Flags, [Next]_vars PROVE Flags'
  OBVIOUS
<1> USE DEF Flags
<1>1. ASSUME NEW w \in Worker, Process(w) PROVE Flags'
  BY <1>1, Zenon DEF Process, Arrive, StopListDrops, StopListPasses, Accept, Reject, Answer,
    Disturb, history
<1>2. CASE Update
  BY <1>2, Zenon DEF Update
<1>3. CASE Tick \/ Receive \/ Cancel \/ Stop
  BY <1>3, Zenon DEF Tick, Receive, Cancel, Stop, history
<1>4. CASE Refresh
  BY <1>4, Zenon DEF Refresh, LockShard, Scan, Visit, UnlockShard, Publish, Observe, history
<1>5. CASE UNCHANGED vars
  BY <1>5, Zenon DEF vars, history
<1> QED
  BY <1>1, <1>2, <1>3, <1>4, <1>5, Zenon DEF Next

LEMMA UpdateTypes ==
  StopList!Next /\ terms \subseteq SavedTerm \cup AdminTerm
    => terms' \subseteq SavedTerm \cup AdminTerm
BY DEF StopList!Next, StopList!AddTerm, StopList!RemoveTerm

LEMMA ProcessTypes ==
  ASSUME Data, NEW w \in Worker, Process(w)
  PROVE /\ counts' \in [Query -> 0..MaxCount] /\ events' \in [Worker -> EventType]
        /\ UNCHANGED <<terms, refresher, published, scanned, shielded>>
<1> USE DEF Data
<1>0. events[w] \in EventType /\ NoEvent \in EventType
  BY DEF EventType
<1>q. events[w].at \in {"passed", "added", "arrived"} =>
        events[w].query \in Query /\ events[w] = [at |-> events[w].at, query |-> events[w].query]
  BY <1>0 DEF EventType, NoEvent
<1>1. CASE Arrive(w)
  BY <1>1 DEF Arrive, EventType, history
<1>2. CASE StopListDrops(w)
  BY <1>2, <1>0 DEF StopListDrops, history
<1>3. CASE StopListPasses(w)
  <2>1. [events[w] EXCEPT !.at = "passed"] \in EventType
    BY <1>3, <1>q DEF StopListPasses, EventType
  <2> QED
    BY <1>3, <2>1 DEF StopListPasses, history
<1>4. CASE Accept(w)
  <2> DEFINE q == events[w].query
  <2>1. q \in Query
    BY <1>4, <1>q DEF Accept
  <2>2. PICK c \in Expired(ShardOf[q]) : c[q] < MaxCount /\ counts' = [c EXCEPT ![q] = @ + 1]
    BY <1>4 DEF Accept
  <2>3. c \in [Query -> 0..MaxCount] /\ MaxCount \in Nat
    BY ExpiredCounts, TrendsAssumption
  <2>4. c[q] + 1 \in 0..MaxCount
    BY <2>1, <2>2, <2>3
  <2>5. counts' \in [Query -> 0..MaxCount]
    BY <2>1, <2>2, <2>3, <2>4
  <2>6. [events[w] EXCEPT !.at = "added"] \in EventType
    BY <1>4, <1>q DEF Accept, EventType
  <2> QED
    BY <1>4, <2>5, <2>6 DEF Accept
<1>5. CASE Reject(w)
  BY <1>5, <1>0, ExpiredCounts DEF Reject
<1>6. CASE Answer(w)
  BY <1>6, <1>0, ExpiredCounts DEF Answer
<1> QED
  BY <1>1, <1>2, <1>3, <1>4, <1>5, <1>6 DEF Process

LEMMA RefreshTypes == Data /\ Refresh => Data'
<1> SUFFICES ASSUME Data, Refresh PROVE Data'
  OBVIOUS
<1> USE DEF Data
<1>0. refresher \in RefresherType /\ ShardCount \in Nat /\ 1 <= ShardCount
  BY TrendsAssumption
<1>1. CASE LockShard
  <2>1. counts' \in [Query -> 0..MaxCount]
    BY <1>1, ExpiredCounts DEF LockShard
  <2>2. ItemsOf(counts', InShard(refresher.shard)) \in SUBSET Item
    BY <2>1, ItemsOfMap, ShardQueries
  <2>3. refresher' \in RefresherType /\ AtShard'
    BY <1>0, <1>1, <2>2 DEF LockShard, RefresherType, AtShard
  <2> QED
    BY <1>1, <2>1, <2>3 DEF LockShard, history
<1>2. ASSUME NEW i \in refresher.todo, Visit(i) PROVE Data'
  <2> DEFINE kept == {i} \ {j \in {i} : j.query \in Blocked}
  <2>1. kept \in SUBSET Item
    BY <1>0 DEF RefresherType
  <2>2. /\ refresher' = [refresher EXCEPT !.todo = @ \ {i}, !.kept = @ \cup kept]
        /\ scanned' = scanned \cup kept
    BY <1>2 DEF Visit
  <2> HIDE DEF kept
  <2>3. refresher' \in RefresherType /\ AtShard'
    BY <1>0, <2>1, <2>2 DEF RefresherType, AtShard
  <2> QED
    BY <1>2, <2>1, <2>2, <2>3 DEF Visit, ingestVars
<1>3. CASE UnlockShard
  <2>1. Top(refresher.kept) \in SUBSET Item
    BY <1>0, TopItems DEF RefresherType
  <2>a. refresher.shard \in 1..ShardCount
    BY <1>3 DEF UnlockShard, AtShard
  <2> DEFINE next == IF refresher.shard < ShardCount THEN refresher.shard + 1 ELSE refresher.shard
  <2>b. next \in 1..(3 * ShardCount)
    BY <2>a, <1>0
  <2>c. refresher.candidates \cup Top(refresher.kept) \in SUBSET Item
    BY <1>0, <2>1 DEF RefresherType
  <2>d. refresher' =
          [refresher EXCEPT !.at = IF refresher.shard < ShardCount THEN "lock" ELSE "merge",
                            !.shard = next, !.kept = {},
                            !.candidates = refresher.candidates \cup Top(refresher.kept)]
    BY <1>3 DEF UnlockShard
  <2> HIDE DEF next
  <2>2. refresher' \in RefresherType
    BY <1>0, <2>b, <2>c, <2>d DEF RefresherType
  <2>3. AtShard'
    BY <1>0, <1>3 DEF UnlockShard, RefresherType, AtShard
  <2> QED
    BY <1>3, <2>2, <2>3 DEF UnlockShard, ingestVars, history
<1>4. CASE Publish
  <2>1. refresher.candidates \in SUBSET Item
    BY <1>0 DEF RefresherType
  <2>2. published' \in SUBSET Item /\ Cardinality(published') <= Limit
    BY <1>4, <2>1, TopItems, TopIsShort DEF Publish
  <2>a. 1 \in 1..(3 * ShardCount)
    BY <1>0
  <2>3. refresher' \in RefresherType /\ AtShard'
    BY <1>0, <1>4, <2>a DEF Publish, RefresherType, AtShard
  <2> QED
    BY <1>4, <2>2, <2>3 DEF Publish, ingestVars, history
<1>5. CASE Observe
  <2>1. counts' \in [Query -> 0..MaxCount]
    BY <1>5, ExpiredCounts DEF Observe
  <2>2. refresher' \in RefresherType /\ AtShard'
    <3>1. refresher.shard < 3 * ShardCount => refresher.shard + 1 \in 1..(3 * ShardCount)
      BY <1>0 DEF RefresherType
    <3> QED
      BY <1>0, <1>5, <3>1 DEF Observe, RefresherType, AtShard
  <2> QED
    BY <1>5, <2>1, <2>2 DEF Observe, history
<1> QED
  BY <1>1, <1>2, <1>3, <1>4, <1>5 DEF Refresh, Scan

LEMMA NextData == Data /\ [Next]_vars => Data'
<1> SUFFICES ASSUME Data, [Next]_vars PROVE Data'
  OBVIOUS
<1>1. ASSUME NEW w \in Worker, Process(w) PROVE Data'
  BY <1>1, ProcessTypes DEF Data, AtShard
<1>2. CASE Update
  <2>1. terms' \subseteq SavedTerm \cup AdminTerm
    BY <1>2, UpdateTypes DEF Data, Update
  <2> QED
    BY <1>2, <2>1 DEF Data, AtShard, Update, ingestVars
<1>3. CASE Tick \/ Cancel
  BY <1>3 DEF Data, AtShard, Tick, Cancel, ingestVars, history
<1>4. CASE Receive
  <2>a. 1 \in 1..(3 * ShardCount) /\ 1 \in 1..ShardCount
    BY TrendsAssumption
  <2>1. refresher' \in RefresherType /\ AtShard'
    BY <1>4, <2>a DEF Data, Receive, RefresherType, AtShard
  <2>2. scanned' = {} /\ shielded' \in SUBSET Query
    BY <1>4, BlockedQueries DEF Receive, Blocked
  <2> QED
    BY <1>4, <2>1, <2>2 DEF Data, Receive, ingestVars
<1>5. CASE Refresh
  BY <1>5, RefreshTypes
<1>6. CASE Stop
  <2>1. refresher' \in RefresherType /\ AtShard'
    BY <1>6 DEF Data, Stop, RefresherType, AtShard
  <2> QED
    BY <1>6, <2>1 DEF Data, Stop, ingestVars, history
<1>7. CASE UNCHANGED vars
  BY <1>7 DEF Data, AtShard, vars, history
<1> QED
  BY <1>1, <1>2, <1>3, <1>4, <1>5, <1>6, <1>7 DEF Next

\* The type invariant: in particular no more than the limit is ever published.
THEOREM TypeCorrect == Spec => []TypeOK
<1>1. TypeOK /\ [Next]_vars => TypeOK'
  <2>1. TypeOK' <=> Flags' /\ Data'
    BY Zenon DEF TypeOK, Flags, Data, AtShard
  <2> QED
    BY <2>1, TypeParts, NextFlags, NextData
<1> QED
  BY <1>1, InitType, PTL DEF Spec

-----------------------------------------------------------------------------
(* What the merge keeps *)

\* Of the steps, Publish alone leaves "merge".
LEMMA PublishesIsPublish ==
  ASSUME Data, [Next]_vars, Publishes
  PROVE Publish
<1>t. refresher \in RefresherType /\ refresher.at = "merge" /\ refresher'.at # "merge"
  BY DEF Data, Publishes
<1>1. ASSUME NEW w \in Worker, Process(w) PROVE FALSE
  BY <1>1, <1>t, ProcessTypes
<1>2. CASE Update \/ Tick \/ Cancel \/ UNCHANGED vars
  BY <1>2, <1>t DEF Update, Tick, Cancel, vars
<1>3. CASE Receive \/ LockShard \/ UnlockShard \/ Observe \/ Stop
  BY <1>3, <1>t DEF Receive, LockShard, UnlockShard, Observe, Stop
<1>4. ASSUME NEW i \in refresher.todo, Visit(i) PROVE FALSE
  BY <1>4, <1>t DEF Visit
<1> QED
  BY <1>1, <1>2, <1>3, <1>4 DEF Next, Refresh, Scan

\* Whatever the build saw is still at hand, or has Limit better candidates.
Merged ==
  /\ refresher.candidates \cup refresher.kept \subseteq scanned
  /\ refresher.at # "scan" => refresher.kept = {}
  /\ \A i \in scanned :
       i \notin refresher.candidates \cup refresher.kept
         => Cardinality(Before(refresher.candidates, i)) >= Limit

LEMMA MoreBefore ==
  \A S, T \in SUBSET Item : \A i :
    S \subseteq T /\ Cardinality(Before(S, i)) >= Limit => Cardinality(Before(T, i)) >= Limit
<1> SUFFICES ASSUME NEW S \in SUBSET Item, NEW T \in SUBSET Item, NEW i, S \subseteq T,
                    Cardinality(Before(S, i)) >= Limit
             PROVE Cardinality(Before(T, i)) >= Limit
  OBVIOUS
<1>1. Before(S, i) \in SUBSET Item /\ Before(T, i) \in SUBSET Item
  BY BeforeItems
<1>2. Before(S, i) \subseteq Before(T, i)
  BY DEF Before
<1>3. Cardinality(Before(S, i)) <= Cardinality(Before(T, i))
  BY <1>1, <1>2, SmallerSets, Zenon
<1>4. Cardinality(Before(S, i)) \in Nat /\ Cardinality(Before(T, i)) \in Nat /\ Limit \in Nat
  BY <1>1, ItemsFinite, TrendsAssumption, Zenon
<1> QED
  BY <1>3, <1>4

LEMMA MergedHolds == Data /\ Merged /\ [Next]_vars => Merged'
<1> SUFFICES ASSUME Data, Merged, [Next]_vars PROVE Merged'
  OBVIOUS
<1>t. /\ refresher \in RefresherType
      /\ refresher.candidates \in SUBSET Item /\ refresher.kept \in SUBSET Item
  BY DEF Data, RefresherType
<1>1. ASSUME NEW w \in Worker, Process(w) PROVE Merged'
  BY <1>1, ProcessTypes DEF Merged
<1>2. CASE Update \/ Tick \/ Cancel \/ UNCHANGED vars
  BY <1>2 DEF Merged, Update, Tick, Cancel, vars, history
<1>3. CASE Receive
  <2>1. /\ refresher'.candidates = {} /\ refresher'.kept = refresher.kept
        /\ refresher.kept = {} /\ scanned' = {}
    BY <1>3, <1>t DEF Receive, RefresherType, Merged
  <2> QED
    BY <2>1 DEF Merged
<1>4. CASE LockShard \/ Observe \/ Stop \/ Publish
  <2>1. /\ refresher'.candidates = refresher.candidates /\ refresher'.kept = refresher.kept
        /\ refresher.kept = {} /\ scanned' = scanned
    BY <1>4, <1>t DEF LockShard, Observe, Stop, Publish, RefresherType, history, Merged
  <2> QED
    BY <2>1 DEF Merged
<1>5. ASSUME NEW i \in refresher.todo, Visit(i) PROVE Merged'
  <2> DEFINE kept == {i} \ {j \in {i} : j.query \in Blocked}
  <2>1. /\ refresher'.candidates = refresher.candidates
        /\ refresher'.kept = refresher.kept \cup kept
        /\ refresher'.at = "scan"
        /\ scanned' = scanned \cup kept
    BY <1>5, <1>t DEF Visit, RefresherType
  <2> HIDE DEF kept
  <2> QED
    BY <2>1 DEF Merged
<1>6. CASE UnlockShard
  <2> DEFINE top == Top(refresher.kept)
  <2> DEFINE new == refresher.candidates \cup top
  <2>1. /\ refresher'.candidates = new
        /\ refresher'.kept = {}
        /\ scanned' = scanned
    BY <1>6, <1>t DEF UnlockShard, RefresherType, history
  <2>2. top \subseteq refresher.kept /\ top \in SUBSET Item /\ new \in SUBSET Item
    BY <1>t, TopItems
  <2>3. ASSUME NEW i \in scanned, i \notin new PROVE Cardinality(Before(new, i)) >= Limit
    <3>1. CASE i \in refresher.kept
      <4>1. Cardinality(Before(top, i)) >= Limit
        BY <3>1, <2>3, <1>t, CutIsCovered
      <4> HIDE DEF top
      <4> QED
        BY <4>1, <2>2, MoreBefore
    <3>2. CASE i \notin refresher.kept
      <4>1. Cardinality(Before(refresher.candidates, i)) >= Limit
        BY <3>2, <2>3 DEF Merged
      <4> QED
        BY <4>1, <2>2, <1>t, MoreBefore
    <3> QED
      BY <3>1, <3>2
  <2> HIDE DEF new, top
  <2>4. new \subseteq scanned
    BY <2>2 DEF Merged, new
  <2> QED
    BY <2>1, <2>3, <2>4 DEF Merged
<1> QED
  BY <1>1, <1>2, <1>3, <1>4, <1>5, <1>6 DEF Next, Refresh, Scan

LEMMA MergedTop ==
  ASSUME Data, Merged, refresher.at = "merge"
  PROVE Top(refresher.candidates) = Top(scanned)
<1> DEFINE C == refresher.candidates
<1>1. C \in SUBSET Item /\ scanned \in SUBSET Item /\ C \subseteq scanned
  BY DEF Data, RefresherType, Merged
<1>2. \A i \in scanned : i \notin C => Cardinality(Before(C, i)) >= Limit
  BY DEF Merged
<1> HIDE DEF C
<1>t. \A i : /\ Cardinality(Before(C, i)) \in Nat /\ Cardinality(Before(scanned, i)) \in Nat
             /\ Limit \in Nat
  BY <1>1, BeforeItems, ItemsFinite, TrendsAssumption, Zenon
<1>3. ASSUME NEW i \in Top(scanned) PROVE i \in Top(C)
  <2>1. i \in scanned /\ Cardinality(Before(scanned, i)) < Limit
    BY DEF Top
  <2>2. ~ (Cardinality(Before(scanned, i)) >= Limit)
    BY <2>1, <1>t
  <2>3. ~ (Cardinality(Before(C, i)) >= Limit)
    BY <2>2, <1>1, MoreBefore
  <2>4. i \in C
    BY <2>1, <2>3, <1>2
  <2>5. Cardinality(Before(C, i)) < Limit
    BY <2>3, <1>t
  <2> QED
    BY <2>4, <2>5 DEF Top
<1>4. ASSUME NEW i \in Top(C) PROVE i \in Top(scanned)
  <2>1. i \in C /\ Cardinality(Before(C, i)) < Limit /\ i \in Item
    BY <1>1 DEF Top
  <2>2. ~ (Cardinality(Before(C, i)) >= Limit)
    BY <2>1, <1>t
  <2>3. ASSUME NEW j \in Before(scanned, i) PROVE j \in Before(C, i)
    <3>1. j \in scanned /\ j \in Item /\ Precedes(j, i)
      BY <1>1 DEF Before
    <3>2. Before(C, j) \subseteq Before(C, i)
      BY <3>1, <2>1, <1>1, PrecedesIsOrder DEF Before
    <3>3. Cardinality(Before(C, j)) <= Cardinality(Before(C, i))
      BY <3>2, <1>1, BeforeItems, SmallerSets, Zenon
    <3>4. ~ (Cardinality(Before(C, j)) >= Limit)
      BY <3>3, <2>1, <1>t
    <3> QED
      BY <3>1, <3>4, <1>2 DEF Before
  <2>4. Before(scanned, i) = Before(C, i)
    BY <2>3, <1>1 DEF Before
  <2> QED
    BY <2>1, <2>4, <1>1 DEF Top
<1> QED
  BY <1>3, <1>4 DEF C

\* What is published is the top of all that the build saw in all shards.
THEOREM MergeStaysTop == Spec => MergeIsTop
<1>1. Init => Merged
  BY DEF Init, Merged
<1>2. TypeOK /\ Merged /\ [Next]_vars => Merged'
  BY TypeParts, MergedHolds
<1>3. TypeOK /\ Merged /\ [Next]_vars => [Publishes => published' = Top(scanned)]_vars
  <2> SUFFICES ASSUME TypeOK, Merged, [Next]_vars, Publishes PROVE published' = Top(scanned)
    OBVIOUS
  <2>1. Data /\ Publish
    BY TypeParts, PublishesIsPublish
  <2> QED
    BY <2>1, MergedTop DEF Publish
<1> QED
  BY <1>1, <1>2, <1>3, TypeCorrect, PTL DEF Spec, MergeIsTop

-----------------------------------------------------------------------------
(* What blocked queries cannot do *)

\* What the stop-list let in, it had not matched all along.
Hidden ==
  /\ shielded \subseteq Blocked
  /\ \A i \in refresher.candidates \cup refresher.kept : i.query \notin shielded

LEMMA HiddenHolds == Data /\ Merged /\ Hidden /\ [Next]_vars => Hidden'
<1> SUFFICES ASSUME Data, Merged, Hidden, [Next]_vars PROVE Hidden'
  OBVIOUS
<1>t. refresher \in RefresherType
  BY DEF Data
<1>1. ASSUME NEW w \in Worker, Process(w) PROVE Hidden'
  BY <1>1, ProcessTypes DEF Hidden, Blocked
<1>2. CASE Update
  BY <1>2 DEF Update, Hidden, Blocked
<1>3. CASE Tick \/ Cancel
  BY <1>3 DEF Hidden, Blocked, Tick, Cancel, history
<1>4. CASE Receive
  <2>1. /\ shielded' = Blocked' /\ refresher'.candidates = {} /\ refresher'.kept = refresher.kept
        /\ refresher.kept = {}
    BY <1>4, <1>t DEF Receive, Blocked, RefresherType, Merged
  <2> QED
    BY <1>4, <2>1 DEF Hidden, Receive
<1>5. CASE LockShard \/ Observe \/ Stop \/ Publish
  <2>1. /\ refresher'.candidates = refresher.candidates /\ refresher'.kept = refresher.kept
        /\ shielded' = shielded /\ terms' = terms
    BY <1>5, <1>t DEF LockShard, Observe, Stop, Publish, RefresherType, history
  <2> QED
    BY <2>1 DEF Hidden, Blocked
<1>6. ASSUME NEW i \in refresher.todo, Visit(i) PROVE Hidden'
  <2> DEFINE kept == {i} \ {j \in {i} : j.query \in Blocked}
  <2>1. /\ refresher'.candidates = refresher.candidates
        /\ refresher'.kept = refresher.kept \cup kept
        /\ shielded' = shielded /\ terms' = terms
    BY <1>6, <1>t DEF Visit, RefresherType
  <2> QED
    BY <2>1 DEF Hidden, Blocked
<1>7. CASE UnlockShard
  <2>1. /\ refresher'.candidates = refresher.candidates \cup Top(refresher.kept)
        /\ refresher'.kept = {}
        /\ shielded' = shielded /\ terms' = terms
    BY <1>7, <1>t DEF UnlockShard, RefresherType, history
  <2>2. Top(refresher.kept) \subseteq refresher.kept
    BY <1>t, TopItems DEF RefresherType
  <2> QED
    BY <2>1, <2>2 DEF Hidden, Blocked
<1>8. CASE UNCHANGED vars
  BY <1>8 DEF Hidden, Blocked, vars, history
<1> QED
  BY <1>1, <1>2, <1>3, <1>4, <1>5, <1>6, <1>7, <1>8 DEF Next, Refresh, Scan

\* A query matched since the build began is not in what the build publishes.
THEOREM BlockedStaysHidden == Spec => BlockedIsHidden
<1>1. Init => Merged /\ Hidden
  BY DEF Init, Merged, Hidden
<1>2. TypeOK /\ Merged /\ Hidden /\ [Next]_vars => Merged' /\ Hidden'
  BY TypeParts, MergedHolds, HiddenHolds
<1>3. TypeOK /\ Hidden /\ [Next]_vars
        => [Publishes => Shown(published') \cap shielded = {}]_vars
  <2> SUFFICES ASSUME TypeOK, Hidden, [Next]_vars, Publishes
               PROVE Shown(published') \cap shielded = {}
    OBVIOUS
  <2>1. Data /\ Publish
    BY TypeParts, PublishesIsPublish
  <2>2. published' \subseteq refresher.candidates
    BY <2>1, TopItems DEF Publish, Data, RefresherType
  <2> QED
    BY <2>2 DEF Hidden, Shown
<1> QED
  BY <1>1, <1>2, <1>3, TypeCorrect, PTL DEF Spec, BlockedIsHidden

-----------------------------------------------------------------------------
(* What a build that nothing disturbs has seen *)

Building == refresher.at \in {"lock", "scan", "merge"}

\* The build is past item i.
Looked(i) ==
  \/ refresher.at = "merge"
  \/ ShardOf[i.query] < refresher.shard
  \/ refresher.at = "scan" /\ ShardOf[i.query] = refresher.shard /\ i \notin refresher.todo

\* What the scan has yet to visit is as the locked shard has it.
Ahead ==
  refresher.at = "scan" =>
    \A i \in refresher.todo : counts[i.query] = i.count /\ ShardOf[i.query] = refresher.shard

Seen(i) == counts[i.query] = i.count /\ i.query \notin Blocked /\ Looked(i)

Quiet == ~ disturbed /\ Building => \A i \in Item : i \in scanned <=> Seen(i)

LEMMA ItemParts ==
  \A i \in Item : /\ i.query \in Query /\ ShardOf[i.query] \in 1..ShardCount
                  /\ \A j \in Item : i.query = j.query /\ i.count = j.count => i = j
BY TrendsAssumption DEF Item

\* Ingestion leaves a shard alone that is being scanned.
LEMMA ProcessLeavesScan ==
  ASSUME Data, NEW w \in Worker, Process(w), NEW q \in Query, Scanning(ShardOf[q])
  PROVE counts'[q] = counts[q]
<1>1. CASE UNCHANGED counts
  BY <1>1
<1>2. CASE Accept(w)
  <2> DEFINE r == events[w].query
  <2>1. ShardOf[r] # ShardOf[q] /\ r # q
    BY <1>2 DEF Accept
  <2>2. PICK c \in Expired(ShardOf[r]) : counts' = [c EXCEPT ![r] = @ + 1]
    BY <1>2 DEF Accept
  <2>3. c \in [Query -> 0..MaxCount] /\ c[q] = counts[q]
    BY <2>1, ExpiredCounts
  <2> HIDE DEF r
  <2> QED
    BY <2>1, <2>2, <2>3
<1>3. CASE Reject(w) \/ Answer(w)
  <2>1. ShardOf[events[w].query] # ShardOf[q] /\ counts' \in Expired(ShardOf[events[w].query])
    BY <1>3 DEF Reject, Answer
  <2> QED
    BY <2>1, ExpiredCounts
<1> QED
  BY <1>1, <1>2, <1>3 DEF Process, Arrive, StopListDrops, StopListPasses

LEMMA ProcessDisturbs ==
  ASSUME NEW w \in Worker, Process(w)
  PROVE ~ disturbed' => ~ disturbed /\ UNCHANGED counts
BY Zenon DEF Process, Arrive, StopListDrops, StopListPasses, Accept, Reject, Answer, Disturb,
  history

LEMMA AheadHolds == Data /\ Ahead /\ [Next]_vars => Ahead'
<1> SUFFICES ASSUME Data, Ahead, [Next]_vars, refresher'.at = "scan",
                    NEW i \in refresher'.todo
             PROVE counts'[i.query] = i.count /\ ShardOf[i.query] = refresher'.shard
  BY DEF Ahead
<1>t. refresher \in RefresherType /\ counts \in [Query -> 0..MaxCount]
      /\ refresher.todo \in SUBSET Item
  BY DEF Data, RefresherType
<1>0. ASSUME refresher.at = "scan", i \in refresher.todo, refresher'.shard = refresher.shard,
             counts' = counts
      PROVE counts'[i.query] = i.count /\ ShardOf[i.query] = refresher'.shard
  BY <1>0 DEF Ahead
<1>1. ASSUME NEW w \in Worker, Process(w)
      PROVE counts'[i.query] = i.count /\ ShardOf[i.query] = refresher'.shard
  <2>1. refresher' = refresher
    BY <1>1, ProcessTypes
  <2>2. i \in Item /\ counts[i.query] = i.count /\ ShardOf[i.query] = refresher.shard
    BY <2>1, <1>t DEF Ahead
  <2>3. i.query \in Query /\ Scanning(ShardOf[i.query])
    BY <2>1, <2>2, ItemParts DEF Scanning
  <2>4. counts'[i.query] = counts[i.query]
    BY <1>1, <2>3, ProcessLeavesScan
  <2> QED
    BY <2>1, <2>2, <2>4
<1>2. CASE Update \/ Tick \/ Cancel \/ UNCHANGED vars
  BY <1>0, <1>2 DEF Update, Tick, Cancel, vars, ingestVars
<1>3. CASE Receive \/ UnlockShard \/ Publish \/ Observe \/ Stop
  BY <1>3, <1>t DEF Receive, UnlockShard, Publish, Observe, Stop, RefresherType
<1>4. CASE LockShard
  <2>1. /\ refresher'.todo = ItemsOf(counts', InShard(refresher.shard))
        /\ refresher'.shard = refresher.shard /\ counts' \in [Query -> 0..MaxCount]
    BY <1>4, <1>t, ExpiredCounts DEF LockShard, RefresherType
  <2>2. i.query \in InShard(refresher.shard) /\ counts'[i.query] = i.count
    BY <2>1, ItemsOfMap, ShardQueries
  <2> QED
    BY <2>1, <2>2 DEF InShard
<1>5. ASSUME NEW j \in refresher.todo, Visit(j)
      PROVE counts'[i.query] = i.count /\ ShardOf[i.query] = refresher'.shard
  BY <1>0, <1>5, <1>t DEF Visit, RefresherType, ingestVars
<1> QED
  BY <1>1, <1>2, <1>3, <1>4, <1>5 DEF Next, Refresh, Scan

LEMMA QuietHolds == Data /\ Ahead /\ Quiet /\ [Next]_vars => Quiet'
<1> SUFFICES ASSUME Data, Ahead, Quiet, [Next]_vars, ~ disturbed', Building', NEW i \in Item
             PROVE i \in scanned' <=> Seen(i)'
  BY Zenon DEF Quiet
<1>t. /\ refresher \in RefresherType /\ counts \in [Query -> 0..MaxCount]
      /\ refresher.todo \in SUBSET Item
      /\ i.query \in Query /\ ShardOf[i.query] \in 1..ShardCount /\ ShardCount \in Nat
      /\ Building => refresher.shard \in 1..ShardCount
  BY ItemParts, TrendsAssumption DEF Data, RefresherType, AtShard, Building
<1>s. ~ disturbed /\ Building => (i \in scanned <=> Seen(i))
  BY Zenon DEF Quiet
<1>0. ASSUME ~ disturbed, refresher' = refresher, counts' = counts, terms' = terms, scanned' = scanned
      PROVE i \in scanned' <=> Seen(i)'
  <2>1. Building /\ (Seen(i) <=> Seen(i)')
    BY <1>0 DEF Building, Seen, Looked, Blocked
  <2> QED
    BY <1>0, <1>s, <2>1, Zenon
<1>1. ASSUME NEW w \in Worker, Process(w) PROVE i \in scanned' <=> Seen(i)'
  BY <1>0, <1>1, ProcessTypes, ProcessDisturbs, Zenon
<1>2. CASE Update
  BY <1>2, Zenon DEF Update
<1>3. CASE Tick \/ Cancel \/ UNCHANGED vars
  <2>1. /\ disturbed' = disturbed /\ refresher' = refresher /\ counts' = counts
        /\ terms' = terms /\ scanned' = scanned
    BY <1>3 DEF Tick, Cancel, vars, ingestVars, history
  <2> QED
    BY <1>0, <2>1, Zenon
<1>4. CASE Receive
  <2>1. scanned' = {} /\ refresher'.at = "lock" /\ refresher'.shard = 1
    BY <1>4, <1>t DEF Receive, RefresherType
  <2>2. ~ Looked(i)'
    BY <2>1, <1>t DEF Looked
  <2> QED
    BY <2>1, <2>2 DEF Seen
<1>5. CASE LockShard
  <2>1. /\ refresher.at = "lock" /\ refresher'.at = "scan" /\ refresher'.shard = refresher.shard
        /\ refresher'.todo = ItemsOf(counts', InShard(refresher.shard))
        /\ scanned' = scanned /\ terms' = terms
        /\ counts' \in Expired(refresher.shard)
    BY <1>5, <1>t DEF LockShard, RefresherType, history
  <2>2. Building /\ ~ disturbed
    BY <1>5, <2>1, Zenon DEF LockShard, history, Building
  <2>3. i \in scanned <=> Seen(i)
    BY <2>2, <1>s, Zenon
  <2>4. refresher.shard \in 1..ShardCount
    BY <2>2, <1>t
  <2>5. CASE ShardOf[i.query] = refresher.shard
    <3>1. ~ Looked(i)
      BY <2>1, <2>4, <2>5, <1>t DEF Looked
    <3>2. counts' \in [Query -> 0..MaxCount] /\ i.query \in InShard(refresher.shard)
      BY <2>1, <2>5, <1>t, ExpiredCounts DEF InShard
    <3>3. counts'[i.query] = i.count => i \in refresher'.todo
      BY <2>1, <3>2, ItemsOfMap, ShardQueries
    <3>4. ~ Seen(i)'
      BY <2>1, <2>4, <2>5, <3>3, <1>t DEF Seen, Looked
    <3> QED
      BY <2>1, <2>3, <3>1, <3>4 DEF Seen
  <2>6. CASE ShardOf[i.query] # refresher.shard
    <3>1. counts'[i.query] = counts[i.query]
      BY <2>1, <2>6, <1>t, ExpiredCounts
    <3> QED
      BY <2>1, <2>3, <2>6, <3>1 DEF Seen, Looked, Blocked
  <2> QED
    BY <2>5, <2>6
<1>6. ASSUME NEW j \in refresher.todo, Visit(j) PROVE i \in scanned' <=> Seen(i)'
  <2>1. /\ refresher.at = "scan" /\ refresher'.at = "scan" /\ refresher'.shard = refresher.shard
        /\ refresher'.todo = refresher.todo \ {j}
        /\ scanned' = scanned \cup ({j} \ {k \in {j} : k.query \in Blocked})
        /\ terms' = terms /\ counts' = counts
    BY <1>6, <1>t DEF Visit, RefresherType, ingestVars
  <2>2. Building /\ ~ disturbed
    BY <1>6, <2>1, Zenon DEF Visit, Building
  <2>3. i \in scanned <=> Seen(i)
    BY <2>2, <1>s, Zenon
  <2>4. refresher.shard \in 1..ShardCount
    BY <2>2, <1>t
  <2>5. CASE i = j
    <3>1. counts[i.query] = i.count /\ ShardOf[i.query] = refresher.shard /\ i \in refresher.todo
      BY <2>1, <2>5 DEF Ahead
    <3>2. ~ Looked(i) /\ Looked(i)'
      BY <2>1, <2>4, <2>5, <3>1, <1>t DEF Looked
    <3> QED
      BY <2>1, <2>3, <2>5, <3>1, <3>2 DEF Seen, Blocked
  <2>6. CASE i # j
    BY <2>1, <2>3, <2>6 DEF Seen, Looked, Blocked
  <2> QED
    BY <2>5, <2>6
<1>7. CASE UnlockShard
  <2>1. /\ refresher.at = "scan" /\ refresher.todo = {}
        /\ refresher'.at = IF refresher.shard < ShardCount THEN "lock" ELSE "merge"
        /\ refresher'.shard = IF refresher.shard < ShardCount
                              THEN refresher.shard + 1 ELSE refresher.shard
        /\ scanned' = scanned /\ terms' = terms /\ counts' = counts
    BY <1>7, <1>t DEF UnlockShard, RefresherType, ingestVars, history
  <2>2. Building /\ ~ disturbed
    BY <1>7, <2>1, Zenon DEF UnlockShard, Building, history
  <2>3. i \in scanned <=> Seen(i)
    BY <2>2, <1>s, Zenon
  <2>4. refresher.shard \in 1..ShardCount
    BY <2>2, <1>t
  <2>5. Looked(i) <=> Looked(i)'
    BY <2>1, <2>4, <1>t DEF Looked
  <2> QED
    BY <2>1, <2>3, <2>5 DEF Seen, Blocked
<1>8. CASE Publish \/ Observe \/ Stop
  BY <1>8, <1>t DEF Publish, Observe, Stop, RefresherType, Building
<1> QED
  BY <1>1, <1>2, <1>3, <1>4, <1>5, <1>6, <1>7, <1>8 DEF Next, Refresh, Scan

LEMMA QuietTop ==
  ASSUME Data, Quiet, ~ disturbed, refresher.at = "merge"
  PROVE scanned = ItemsOf(counts, Query \ Blocked)
<1>1. scanned \in SUBSET Item /\ counts \in [Query -> 0..MaxCount]
  BY DEF Data
<1>2. \A i \in Item : i \in scanned <=> Seen(i)
  BY Zenon DEF Quiet, Building
<1>3. \A i \in Item : Seen(i) <=> i.query \in Query \ Blocked /\ counts[i.query] = i.count
  BY ItemParts DEF Seen, Looked
<1>4. ItemsOf(counts, Query \ Blocked) \in SUBSET Item
  BY <1>1, ItemsOfMap
<1>5. \A i \in Item : i \in ItemsOf(counts, Query \ Blocked)
                       <=> i.query \in Query \ Blocked /\ counts[i.query] = i.count
  BY <1>1, ItemsOfMap
<1> QED
  BY <1>1, <1>2, <1>3, <1>4, <1>5

\* A build under which nothing changed publishes the exact top of everything.
THEOREM QuietBuildStaysExact == Spec => QuietBuildIsExact
<1>1. Init => Merged /\ Ahead /\ Quiet
  <2> SUFFICES ASSUME Init PROVE Merged /\ Ahead /\ Quiet
    OBVIOUS
  <2>1. /\ refresher.at = "lock" /\ refresher.shard = 1 /\ scanned = {}
        /\ refresher.candidates = {} /\ refresher.kept = {}
    BY DEF Init
  <2>2. \A i \in Item : ~ Looked(i)
    BY <2>1, ItemParts, TrendsAssumption DEF Looked
  <2> QED
    BY <2>1, <2>2 DEF Merged, Ahead, Quiet, Seen
<1>2. TypeOK /\ Merged /\ Ahead /\ Quiet /\ [Next]_vars => Merged' /\ Ahead' /\ Quiet'
  BY TypeParts, MergedHolds, AheadHolds, QuietHolds
<1>3. TypeOK /\ Merged /\ Ahead /\ Quiet /\ [Next]_vars
        => [Publishes /\ ~ disturbed => published' = TopOfAll]_vars
  <2> SUFFICES ASSUME TypeOK, Merged, Quiet, [Next]_vars, Publishes, ~ disturbed
               PROVE published' = TopOfAll
    OBVIOUS
  <2>1. Data /\ Publish
    BY TypeParts, PublishesIsPublish
  <2>2. refresher.at = "merge" /\ published' = Top(refresher.candidates)
    BY <2>1 DEF Publish
  <2>3. Top(refresher.candidates) = Top(scanned)
    BY <2>1, <2>2, MergedTop
  <2>4. scanned = ItemsOf(counts, Query \ Blocked)
    BY <2>1, <2>2, QuietTop
  <2> QED
    BY <2>2, <2>3, <2>4 DEF TopOfAll
<1> QED
  BY <1>1, <1>2, <1>3, TypeCorrect, PTL DEF Spec, QuietBuildIsExact
=============================================================================
