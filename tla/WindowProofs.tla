---------------------------- MODULE WindowProofs ----------------------------
(***************************************************************************)
(* Every operation of Window keeps its totals balanced with its buckets    *)
(* and within the configured limits, for every configuration that          *)
(* NewWindow accepts.                                                      *)
(***************************************************************************)
EXTENDS Window, CountingProofs

-----------------------------------------------------------------------------
(* Time and slots. *)

LEMMA BucketCountPositive == BucketCount \in Nat \ {0}
<1>1. WindowSize \in Nat /\ BucketSize \in Nat \ {0}
  BY ConfigAssumption
<1>2. WindowSize \div BucketSize \in Nat
  BY <1>1
<1> QED BY <1>2 DEF BucketCount

LEMMA SlotsFinite == IsFiniteSet(Slots)
BY BucketCountPositive, FS_Interval DEF Slots

LEMMA SlotOfBucket == ASSUME NEW id \in Int PROVE bucketIndex(id) \in Slots
<1>1. \A n \in Nat \ {0} : id % n \in 0..(n - 1)
  OBVIOUS
<1> QED BY <1>1, BucketCountPositive DEF bucketIndex, Slots

LEMMA BucketIDType == ASSUME NEW ts \in Int PROVE bucketID(ts) \in Int
<1>1. BucketSize \in Nat \ {0} /\ Int64Half \in Nat \ {0}
  BY ConfigAssumption
<1>2. UnixNano(ts) \in Int
  BY <1>1 DEF UnixNano
<1>3. \A a \in Int, b \in Nat \ {0} : Quotient(a, b) \in Int
  BY DEF Quotient
<1> QED BY <1>1, <1>2, <1>3 DEF bucketID

LEMMA KeysFinite ==
  /\ \A m \in [Query -> Nat] : IsFiniteSet(Keys(m))
  /\ IsFiniteSet(ActorQueryKey)
<1>1. IsFiniteSet(Query) /\ IsFiniteSet(Actor)
  BY ConfigAssumption
<1>2. \A m \in [Query -> Nat] : Keys(m) \subseteq Query
  BY DEF Keys
<1>3. \A m \in [Query -> Nat] : IsFiniteSet(Keys(m))
  BY <1>1, <1>2, FS_Subset
<1>4. IsFiniteSet(ActorQueryKey)
  BY <1>1, FS_Product, Zenon DEF ActorQueryKey
<1> QED BY <1>3, <1>4

-----------------------------------------------------------------------------
(* Sums over the slots. *)

\* Clearing the slots S of a column of counters takes their sum off it.
LEMMA ColumnDrop ==
  ASSUME NEW c \in [Slots -> Nat], NEW d \in [Slots -> Nat], NEW S \in SUBSET Slots,
         \A i \in S : d[i] = 0, \A i \in Slots \ S : d[i] = c[i]
  PROVE  Monus(Total(c, Slots), Total(c, S)) = Total(d, Slots)
<1>1. Total(c, Slots) = Total(c, S) + Total(c, Slots \ S)
  BY SlotsFinite, TotalSplit
<1>2. Total(d, Slots) = Total(d, S) + Total(d, Slots \ S)
  BY SlotsFinite, TotalSplit
<1>3. Total(d, S) = 0
  BY TotalZero
<1>4. Total(d, Slots \ S) = Total(c, Slots \ S)
  BY TotalCong
<1>5. /\ Total(c, S) \in Nat
      /\ Total(c, Slots \ S) \in Nat
  <2>1. IsFiniteSet(S) /\ IsFiniteSet(Slots \ S)
    BY SlotsFinite, FS_Subset
  <2> QED BY <2>1, UnitsFinite
<1> QED BY <1>1, <1>2, <1>3, <1>4, <1>5 DEF Monus

\* One more hit in slot j adds one to the sum of the column.
LEMMA ColumnHit ==
  ASSUME NEW c \in [Slots -> Nat], NEW d \in [Slots -> Nat], NEW j \in Slots,
         d[j] = c[j] + 1, \A i \in Slots \ {j} : d[i] = c[i]
  PROVE  Total(d, Slots) = Total(c, Slots) + 1
BY SlotsFinite, TotalHit

\* The columns of a window.
Column(w, q) == [i \in Slots |-> w.buckets[i].counts[q]]

ActorColumn(w, k) == [i \in Slots |-> w.buckets[i].actorCounts[k]]

LEMMA ColumnType ==
  ASSUME NEW w \in WindowType
  PROVE  /\ \A q \in Query : Column(w, q) \in [Slots -> Nat]
         /\ \A k \in ActorQueryKey : ActorColumn(w, k) \in [Slots -> Nat]
BY DEF Column, ActorColumn, WindowType, BucketType

LEMMA MonusType == \A a, b \in Nat : Monus(a, b) \in Nat /\ Monus(a, b) <= a
BY DEF Monus

\* What slots hold is a natural number.
LEMMA HeldType ==
  ASSUME NEW w \in WindowType, NEW S \in SUBSET Slots
  PROVE  /\ \A q \in Query : HeldIn(w, S, q) \in Nat
         /\ \A k \in ActorQueryKey : ActorHeldIn(w, S, k) \in Nat
<1>1. IsFiniteSet(S)
  BY SlotsFinite, FS_Subset
<1>2. ASSUME NEW c \in [Slots -> Nat] PROVE Total(c, S) \in Nat
  BY <1>1, UnitsFinite
<1> QED BY <1>2, ColumnType DEF HeldIn, ActorHeldIn, Column, ActorColumn

-----------------------------------------------------------------------------
(* Drop, ExpireAt and ensureBucket. *)

LEMMA NoCountsType ==
  /\ NoCounts \in [Query -> Nat] /\ \A q \in Query : NoCounts[q] = 0
  /\ NoActorCounts \in [ActorQueryKey -> Nat] /\ \A k \in ActorQueryKey : NoActorCounts[k] = 0
BY DEF NoCounts, NoActorCounts

LEMMA DropType ==
  ASSUME NEW w \in WindowType, NEW S \in SUBSET Slots
  PROVE  Drop(w, S) \in WindowType
<1>1. \A i \in Slots : Cleared(w.buckets[i]) \in BucketType
  <2>1. ASSUME NEW b \in BucketType PROVE Cleared(b) \in BucketType
    BY NoCountsType DEF Cleared, BucketType
  <2>2. \A i \in Slots : w.buckets[i] \in BucketType
    BY DEF WindowType
  <2> QED BY <2>1, <2>2
<1>2. Drop(w, S).buckets \in [Slots -> BucketType]
  BY <1>1 DEF Drop, WindowType
<1>3. Drop(w, S).totals \in [Query -> Nat]
  <2>1. \A q \in Query : Monus(w.totals[q], HeldIn(w, S, q)) \in Nat
    BY HeldType, MonusType DEF WindowType
  <2> QED BY <2>1 DEF Drop
<1>4. Drop(w, S).actorTotals \in [ActorQueryKey -> Nat]
  <2>1. \A k \in ActorQueryKey : Monus(w.actorTotals[k], ActorHeldIn(w, S, k)) \in Nat
    BY HeldType, MonusType DEF WindowType
  <2> QED BY <2>1 DEF Drop
<1> QED BY <1>2, <1>3, <1>4 DEF Drop, WindowType

\* What Drop leaves in the buckets.
LEMMA DropBuckets ==
  ASSUME NEW w \in WindowType, NEW S \in SUBSET Slots
  PROVE  /\ \A i \in S : /\ Drop(w, S).buckets[i].id = w.buckets[i].id
                         /\ Drop(w, S).buckets[i].counts = NoCounts
                         /\ Drop(w, S).buckets[i].actorCounts = NoActorCounts
         /\ \A i \in Slots \ S : Drop(w, S).buckets[i] = w.buckets[i]
BY DEF Drop, Cleared, WindowType, BucketType

LEMMA DropBalanced ==
  ASSUME NEW w \in WindowType, NEW S \in SUBSET Slots, Balanced(w)
  PROVE  Balanced(Drop(w, S))
<1> DEFINE v == Drop(w, S)
<1>1. v \in WindowType
  BY DropType
<1>2. ASSUME NEW q \in Query PROVE v.totals[q] = HeldIn(v, Slots, q)
  <2>1. Column(w, q) \in [Slots -> Nat] /\ Column(v, q) \in [Slots -> Nat]
    BY <1>1, ColumnType
  <2>2. \A i \in S : Column(v, q)[i] = 0
    BY DropBuckets, NoCountsType DEF Column
  <2>3. \A i \in Slots \ S : Column(v, q)[i] = Column(w, q)[i]
    BY DropBuckets DEF Column
  <2>4. Monus(Total(Column(w, q), Slots), Total(Column(w, q), S)) = Total(Column(v, q), Slots)
    BY <2>1, <2>2, <2>3, ColumnDrop
  <2>5. w.totals[q] = Total(Column(w, q), Slots)
    BY DEF Balanced, HeldIn, Column
  <2>6. v.totals[q] = Monus(w.totals[q], Total(Column(w, q), S))
    BY DEF Drop, HeldIn, Column
  <2> QED BY <2>4, <2>5, <2>6 DEF HeldIn, Column
<1>3. ASSUME NEW k \in ActorQueryKey PROVE v.actorTotals[k] = ActorHeldIn(v, Slots, k)
  <2>1. ActorColumn(w, k) \in [Slots -> Nat] /\ ActorColumn(v, k) \in [Slots -> Nat]
    BY <1>1, ColumnType
  <2>2. \A i \in S : ActorColumn(v, k)[i] = 0
    BY DropBuckets, NoCountsType DEF ActorColumn
  <2>3. \A i \in Slots \ S : ActorColumn(v, k)[i] = ActorColumn(w, k)[i]
    BY DropBuckets DEF ActorColumn
  <2>4. Monus(Total(ActorColumn(w, k), Slots), Total(ActorColumn(w, k), S))
          = Total(ActorColumn(v, k), Slots)
    BY <2>1, <2>2, <2>3, ColumnDrop
  <2>5. w.actorTotals[k] = Total(ActorColumn(w, k), Slots)
    BY DEF Balanced, ActorHeldIn, ActorColumn
  <2>6. v.actorTotals[k] = Monus(w.actorTotals[k], Total(ActorColumn(w, k), S))
    BY DEF Drop, ActorHeldIn, ActorColumn
  <2> QED BY <2>4, <2>5, <2>6 DEF ActorHeldIn, ActorColumn
<1> QED BY <1>2, <1>3 DEF Balanced

\* A map that is nowhere above another has no key the other has not.
LEMMA FewerKeys ==
  ASSUME NEW m \in [Query -> Nat], NEW n \in [Query -> Nat], \A q \in Query : n[q] <= m[q]
  PROVE  Cardinality(Keys(n)) <= Cardinality(Keys(m))
<1>1. Keys(n) \subseteq Keys(m)
  BY DEF Keys
<1>2. IsFiniteSet(Keys(m))
  BY KeysFinite
<1> QED BY <1>1, <1>2, FS_Subset, FS_CardinalityType

LEMMA DropWithinLimits ==
  ASSUME NEW w \in WindowType, NEW S \in SUBSET Slots, WithinLimits(w)
  PROVE  WithinLimits(Drop(w, S))
<1> DEFINE v == Drop(w, S)
<1>1. v \in WindowType
  BY DropType
<1>2. \A q \in Query : v.totals[q] <= w.totals[q]
  BY HeldType, MonusType DEF Drop, WindowType
<1>3. \A k \in ActorQueryKey : v.actorTotals[k] <= w.actorTotals[k]
  BY HeldType, MonusType DEF Drop, WindowType
<1>4. ASSUME NEW k \in ActorQueryKey PROVE v.actorTotals[k] <= PerActorQueryLimit
  <2>1. w.actorTotals[k] <= PerActorQueryLimit
    BY DEF WithinLimits
  <2>2. v.actorTotals[k] \in Nat /\ w.actorTotals[k] \in Nat /\ PerActorQueryLimit \in Nat
    BY <1>1, ConfigAssumption DEF WindowType
  <2> QED BY <2>1, <2>2, <1>3
<1>5. Cardinality(Keys(v.totals)) <= MaxUniqueQueries
  <2>1. Cardinality(Keys(v.totals)) <= Cardinality(Keys(w.totals))
    <3>1. v.totals \in [Query -> Nat] /\ w.totals \in [Query -> Nat]
      BY <1>1 DEF WindowType
    <3> QED BY <3>1, <1>2, FewerKeys
  <2>2. Cardinality(Keys(w.totals)) <= MaxUniqueQueries
    BY DEF WithinLimits
  <2>3. Cardinality(Keys(v.totals)) \in Nat /\ Cardinality(Keys(w.totals)) \in Nat
    BY <1>1, KeysFinite, FS_CardinalityType DEF WindowType
  <2>4. MaxUniqueQueries \in Nat
    BY ConfigAssumption
  <2> QED BY <2>1, <2>2, <2>3, <2>4
<1>6. ASSUME NEW i \in Slots
      PROVE  Cardinality(Keys(v.buckets[i].counts)) <= MaxUniqueQueriesPerBucket
  <2>1. CASE i \in S
    <3>1. Keys(v.buckets[i].counts) = {}
      BY <2>1, DropBuckets, NoCountsType DEF Keys
    <3> QED BY <3>1, FS_EmptySet, ConfigAssumption
  <2>2. CASE i \notin S
    BY <2>2, DropBuckets DEF WithinLimits
  <2> QED BY <2>1, <2>2
<1> QED BY <1>4, <1>5, <1>6 DEF WithinLimits

\* The three facts every operation keeps.
Sound(w) == w \in WindowType /\ Balanced(w) /\ WithinLimits(w)

LEMMA DropSound ==
  ASSUME NEW w, Sound(w), NEW S \in SUBSET Slots
  PROVE  Sound(Drop(w, S))
BY DropType, DropBalanced, DropWithinLimits DEF Sound

LEMMA ExpireAtSound ==
  ASSUME NEW w, Sound(w), NEW now \in Int
  PROVE  Sound(ExpireAt(w, now))
BY DropSound DEF ExpireAt

\* Giving a slot another id changes no counter.
LEMMA RenameParts ==
  ASSUME NEW w \in WindowType, NEW j \in Slots, NEW id \in Int
  PROVE  LET v == [w EXCEPT !.buckets[j].id = id] IN
         /\ v \in WindowType
         /\ v.totals = w.totals /\ v.actorTotals = w.actorTotals
         /\ \A i \in Slots : /\ v.buckets[i].counts = w.buckets[i].counts
                             /\ v.buckets[i].actorCounts = w.buckets[i].actorCounts
         /\ \A i \in Slots \ {j} : v.buckets[i] = w.buckets[i]
         /\ v.buckets[j].id = id
<1> DEFINE v == [w EXCEPT !.buckets[j].id = id]
<1>1. v \in WindowType
  BY DEF WindowType, BucketType
<1>2. /\ v.totals = w.totals /\ v.actorTotals = w.actorTotals
      /\ \A i \in Slots : /\ v.buckets[i].counts = w.buckets[i].counts
                          /\ v.buckets[i].actorCounts = w.buckets[i].actorCounts
  BY DEF WindowType, BucketType
<1>3. (\A i \in Slots \ {j} : v.buckets[i] = w.buckets[i]) /\ v.buckets[j].id = id
  BY DEF WindowType, BucketType
<1> HIDE DEF v
<1>4. QED BY <1>1, <1>2, <1>3 DEF v

LEMMA RenameSound ==
  ASSUME NEW w, Sound(w), NEW j \in Slots, NEW id \in Int
  PROVE  Sound([w EXCEPT !.buckets[j].id = id])
<1> DEFINE v == [w EXCEPT !.buckets[j].id = id]
<1>1. /\ v \in WindowType
      /\ v.totals = w.totals /\ v.actorTotals = w.actorTotals
      /\ \A i \in Slots : /\ v.buckets[i].counts = w.buckets[i].counts
                          /\ v.buckets[i].actorCounts = w.buckets[i].actorCounts
  BY RenameParts DEF Sound
<1> HIDE DEF v
<1>2. Balanced(v)
  BY <1>1 DEF Sound, Balanced, HeldIn, ActorHeldIn
<1>3. WithinLimits(v)
  BY <1>1 DEF Sound, WithinLimits
<1> QED BY <1>1, <1>2, <1>3 DEF Sound, v

LEMMA EnsureSound ==
  ASSUME NEW w, Sound(w), NEW id \in Int
  PROVE  Sound(ensureBucket(w, id))
<1>1. bucketIndex(id) \in Slots
  BY SlotOfBucket
<1>2. Sound(Drop(w, {bucketIndex(id)}))
  BY <1>1, DropSound
<1> QED BY <1>1, <1>2, RenameSound DEF ensureBucket

-----------------------------------------------------------------------------
(* Count and AddAt. *)

\* A hit of a key that is in a map leaves the size of the map; a hit of
\* another key adds one to it.
LEMMA HitKeys ==
  ASSUME NEW m \in [Query -> Nat], NEW q \in Query, NEW limit \in Nat,
         Cardinality(Keys(m)) <= limit, ~ NoRoomFor(m, q, limit)
  PROVE  Cardinality(Keys(Hit(m, q))) <= limit
<1>1. Keys(Hit(m, q)) = Keys(m) \cup {q}
  BY DEF Keys, Hit
<1>2. IsFiniteSet(Keys(m)) /\ Cardinality(Keys(m)) \in Nat
  BY KeysFinite, FS_CardinalityType
<1>3. CASE m[q] = 0
  <2>1. q \notin Keys(m)
    BY <1>3 DEF Keys
  <2>2. Cardinality(Keys(m) \cup {q}) = Cardinality(Keys(m)) + 1
    BY <1>2, <2>1, FS_AddElement
  <2>3. ~ (Cardinality(Keys(m)) >= limit)
    BY <1>3 DEF NoRoomFor
  <2> QED BY <1>1, <1>2, <2>2, <2>3
<1>4. CASE m[q] # 0
  <2>1. Keys(m) \cup {q} = Keys(m)
    BY <1>4 DEF Keys
  <2> QED BY <1>1, <2>1
<1> QED BY <1>3, <1>4

\* The event named by an event record.
LEMMA EventTimeType ==
  ASSUME NEW event \in Event, NEW now \in Int
  PROVE  EventTime(event, now) \in Int
BY DEF Event, EventTime

\* One more hit: the key counts one more, every other key as before.
LEMMA HitAt ==
  ASSUME NEW S, NEW m \in [S -> Nat], NEW k \in S
  PROVE  /\ Hit(m, k) \in [S -> Nat]
         /\ Hit(m, k)[k] = m[k] + 1
         /\ \A l \in S : l # k => Hit(m, k)[l] = m[l]
BY DEF Hit

LEMMA ActorHitAt ==
  ASSUME NEW m \in [ActorQueryKey -> Nat], NEW event \in Event, event.query \in Query
  PROVE  /\ ActorHit(m, event) \in [ActorQueryKey -> Nat]
         /\ event.actor # NoActor =>
              ActorHit(m, event)[<<event.query, event.actor>>] = m[<<event.query, event.actor>>] + 1
         /\ \A l \in ActorQueryKey :
              (event.actor = NoActor \/ l # <<event.query, event.actor>>)
                => ActorHit(m, event)[l] = m[l]
<1> DEFINE k == <<event.query, event.actor>>
<1>1. CASE event.actor = NoActor
  BY <1>1 DEF ActorHit
<1>2. CASE event.actor # NoActor
  <2>1. k \in ActorQueryKey
    BY <1>2 DEF Event, ActorQueryKey
  <2>2. ActorHit(m, event) = Hit(m, k)
    BY <1>2 DEF ActorHit
  <2> HIDE DEF k
  <2>3. /\ Hit(m, k) \in [ActorQueryKey -> Nat]
        /\ Hit(m, k)[k] = m[k] + 1
        /\ \A l \in ActorQueryKey : l # k => Hit(m, k)[l] = m[l]
    BY <2>1, HitAt
  <2> QED BY <1>2, <2>2, <2>3 DEF k
<1> QED BY <1>1, <1>2

\* v is w after one hit of event in slot j, part by part.
HitOnce(w, v, j, event) ==
  /\ v \in WindowType
  /\ \A i \in Slots \ {j} : v.buckets[i] = w.buckets[i]
  /\ \A i \in Slots : v.buckets[i].id = w.buckets[i].id
  /\ v.totals = Hit(w.totals, event.query)
  /\ v.buckets[j].counts = Hit(w.buckets[j].counts, event.query)
  /\ v.actorTotals = ActorHit(w.actorTotals, event)
  /\ v.buckets[j].actorCounts = ActorHit(w.buckets[j].actorCounts, event)

LEMMA CountParts ==
  ASSUME NEW w \in WindowType, NEW j \in Slots, NEW event \in Event, event.query \in Query
  PROVE  HitOnce(w, Count(w, j, event), j, event)
<1>1. /\ w.totals \in [Query -> Nat] /\ w.buckets[j].counts \in [Query -> Nat]
      /\ w.actorTotals \in [ActorQueryKey -> Nat]
      /\ w.buckets[j].actorCounts \in [ActorQueryKey -> Nat]
  BY DEF WindowType, BucketType
<1>2. /\ Hit(w.totals, event.query) \in [Query -> Nat]
      /\ Hit(w.buckets[j].counts, event.query) \in [Query -> Nat]
  BY <1>1, HitAt
<1>3. /\ ActorHit(w.actorTotals, event) \in [ActorQueryKey -> Nat]
      /\ ActorHit(w.buckets[j].actorCounts, event) \in [ActorQueryKey -> Nat]
  BY <1>1, ActorHitAt
<1> DEFINE b == [id |-> w.buckets[j].id,
                 counts |-> Hit(w.buckets[j].counts, event.query),
                 actorCounts |-> ActorHit(w.buckets[j].actorCounts, event)]
           v == [buckets |-> [w.buckets EXCEPT ![j] = b],
                 totals |-> Hit(w.totals, event.query),
                 actorTotals |-> ActorHit(w.actorTotals, event)]
<1>4. b \in BucketType
  BY <1>2, <1>3 DEF WindowType, BucketType
<1>5. Count(w, j, event) = v
  BY DEF Count
<1>6. v \in WindowType
  <2> HIDE DEF b
  <2> QED BY <1>2, <1>3, <1>4 DEF WindowType
<1>7. v.buckets[j] = b /\ \A i \in Slots \ {j} : v.buckets[i] = w.buckets[i]
  BY DEF WindowType
<1>8. HitOnce(w, v, j, event)
  BY <1>6, <1>7 DEF HitOnce
<1> QED BY <1>5, <1>8

\* The hit shows in the totals and in the bucket counters of its query and,
\* if the actor is known, of its actor, and nowhere else.
HitShows(w, v, j, event) ==
  /\ v.totals[event.query] = w.totals[event.query] + 1
  /\ v.buckets[j].counts[event.query] = w.buckets[j].counts[event.query] + 1
  /\ \A q \in Query : q # event.query =>
       /\ v.totals[q] = w.totals[q]
       /\ v.buckets[j].counts[q] = w.buckets[j].counts[q]

ActorHitShows(w, v, j, event) ==
  /\ event.actor # NoActor =>
       /\ v.actorTotals[<<event.query, event.actor>>]
            = w.actorTotals[<<event.query, event.actor>>] + 1
       /\ v.buckets[j].actorCounts[<<event.query, event.actor>>]
            = w.buckets[j].actorCounts[<<event.query, event.actor>>] + 1
  /\ \A l \in ActorQueryKey :
       (event.actor = NoActor \/ l # <<event.query, event.actor>>) =>
         /\ v.actorTotals[l] = w.actorTotals[l]
         /\ v.buckets[j].actorCounts[l] = w.buckets[j].actorCounts[l]

LEMMA HitOnceShows ==
  ASSUME NEW w \in WindowType, NEW j \in Slots, NEW event \in Event, event.query \in Query,
         NEW v, HitOnce(w, v, j, event)
  PROVE  HitShows(w, v, j, event) /\ ActorHitShows(w, v, j, event)
<1>1. /\ w.totals \in [Query -> Nat] /\ w.buckets[j].counts \in [Query -> Nat]
      /\ w.actorTotals \in [ActorQueryKey -> Nat]
      /\ w.buckets[j].actorCounts \in [ActorQueryKey -> Nat]
  BY DEF WindowType, BucketType
<1> DEFINE k == <<event.query, event.actor>>
<1>2. ASSUME NEW m \in [Query -> Nat]
      PROVE  /\ Hit(m, event.query)[event.query] = m[event.query] + 1
             /\ \A q \in Query : q # event.query => Hit(m, event.query)[q] = m[q]
  BY HitAt
<1>3. ASSUME NEW m \in [ActorQueryKey -> Nat]
      PROVE  /\ event.actor # NoActor => ActorHit(m, event)[k] = m[k] + 1
             /\ \A l \in ActorQueryKey :
                  (event.actor = NoActor \/ l # k) => ActorHit(m, event)[l] = m[l]
  BY ActorHitAt
<1>4. HitShows(w, v, j, event)
  BY <1>1, <1>2 DEF HitOnce, HitShows
<1>5. ActorHitShows(w, v, j, event)
  <2>1. /\ v.actorTotals = ActorHit(w.actorTotals, event)
        /\ v.buckets[j].actorCounts = ActorHit(w.buckets[j].actorCounts, event)
    BY DEF HitOnce
  <2>2. /\ event.actor # NoActor => v.actorTotals[k] = w.actorTotals[k] + 1
        /\ \A l \in ActorQueryKey :
             (event.actor = NoActor \/ l # k) => v.actorTotals[l] = w.actorTotals[l]
    BY <1>1, <1>3, <2>1
  <2>3. /\ event.actor # NoActor =>
             v.buckets[j].actorCounts[k] = w.buckets[j].actorCounts[k] + 1
        /\ \A l \in ActorQueryKey :
             (event.actor = NoActor \/ l # k) =>
               v.buckets[j].actorCounts[l] = w.buckets[j].actorCounts[l]
    BY <1>1, <1>3, <2>1
  <2> QED BY <2>2, <2>3 DEF ActorHitShows
<1> QED BY <1>4, <1>5

LEMMA CountBalanced ==
  ASSUME NEW w \in WindowType, Balanced(w), NEW j \in Slots,
         NEW event \in Event, event.query \in Query,
         NEW v, HitOnce(w, v, j, event)
  PROVE  Balanced(v)
<1> DEFINE k == <<event.query, event.actor>>
<1>0. /\ HitShows(w, v, j, event)
      /\ event.actor # NoActor =>
           /\ v.actorTotals[k] = w.actorTotals[k] + 1
           /\ v.buckets[j].actorCounts[k] = w.buckets[j].actorCounts[k] + 1
      /\ \A l \in ActorQueryKey :
           (event.actor = NoActor \/ l # k) =>
             /\ v.actorTotals[l] = w.actorTotals[l]
             /\ v.buckets[j].actorCounts[l] = w.buckets[j].actorCounts[l]
  BY HitOnceShows DEF ActorHitShows
<1>1. v \in WindowType
  BY DEF HitOnce
<1>2. ASSUME NEW q \in Query PROVE v.totals[q] = HeldIn(v, Slots, q)
  <2>1. /\ w.totals[q] = Total(Column(w, q), Slots)
        /\ Column(w, q) \in [Slots -> Nat] /\ Column(v, q) \in [Slots -> Nat]
    BY <1>1, ColumnType DEF Balanced, HeldIn, Column
  <2>2. \A i \in Slots \ {j} : Column(v, q)[i] = Column(w, q)[i]
    BY DEF Column, HitOnce
  <2>3. CASE q = event.query
    <3>1. Column(v, q)[j] = Column(w, q)[j] + 1
      BY <2>3, <1>0 DEF Column, HitShows
    <3>2. Total(Column(v, q), Slots) = Total(Column(w, q), Slots) + 1
      BY <2>1, <2>2, <3>1, ColumnHit
    <3>3. v.totals[q] = w.totals[q] + 1
      BY <2>3, <1>0 DEF HitShows
    <3> QED BY <2>1, <3>2, <3>3 DEF HeldIn, Column
  <2>4. CASE q # event.query
    <3>1. Column(v, q)[j] = Column(w, q)[j]
      BY <2>4, <1>0 DEF Column, HitShows
    <3>2. Total(Column(v, q), Slots) = Total(Column(w, q), Slots)
      BY <2>2, <3>1, TotalCong
    <3>3. v.totals[q] = w.totals[q]
      BY <2>4, <1>0 DEF HitShows
    <3> QED BY <2>1, <3>2, <3>3 DEF HeldIn, Column
  <2> QED BY <2>3, <2>4
<1>3. ASSUME NEW l \in ActorQueryKey PROVE v.actorTotals[l] = ActorHeldIn(v, Slots, l)
  <2>1. /\ w.actorTotals[l] = Total(ActorColumn(w, l), Slots)
        /\ ActorColumn(w, l) \in [Slots -> Nat] /\ ActorColumn(v, l) \in [Slots -> Nat]
    BY <1>1, ColumnType DEF Balanced, ActorHeldIn, ActorColumn
  <2>2. \A i \in Slots \ {j} : ActorColumn(v, l)[i] = ActorColumn(w, l)[i]
    BY DEF ActorColumn, HitOnce
  <2>3. CASE event.actor # NoActor /\ l = k
    <3>1. ActorColumn(v, l)[j] = ActorColumn(w, l)[j] + 1
      BY <2>3, <1>0 DEF ActorColumn
    <3>2. Total(ActorColumn(v, l), Slots) = Total(ActorColumn(w, l), Slots) + 1
      BY <2>1, <2>2, <3>1, ColumnHit
    <3>3. v.actorTotals[l] = w.actorTotals[l] + 1
      BY <2>3, <1>0
    <3> QED BY <2>1, <3>2, <3>3 DEF ActorHeldIn, ActorColumn
  <2>4. CASE event.actor = NoActor \/ l # k
    <3>1. ActorColumn(v, l)[j] = ActorColumn(w, l)[j]
      BY <2>4, <1>0 DEF ActorColumn
    <3>2. Total(ActorColumn(v, l), Slots) = Total(ActorColumn(w, l), Slots)
      BY <2>2, <3>1, TotalCong
    <3>3. v.actorTotals[l] = w.actorTotals[l]
      BY <2>4, <1>0
    <3> QED BY <2>1, <3>2, <3>3 DEF ActorHeldIn, ActorColumn
  <2> QED BY <2>3, <2>4
<1> QED BY <1>2, <1>3 DEF Balanced

LEMMA CountWithinLimits ==
  ASSUME NEW w \in WindowType, WithinLimits(w), NEW j \in Slots,
         NEW event \in Event, event.query \in Query,
         NEW v, HitOnce(w, v, j, event),
         ~ OverActorLimit(w, event),
         ~ NoRoomFor(w.totals, event.query, MaxUniqueQueries),
         ~ NoRoomFor(w.buckets[j].counts, event.query, MaxUniqueQueriesPerBucket)
  PROVE  WithinLimits(v)
<1> DEFINE k == <<event.query, event.actor>>
<1>0. /\ HitShows(w, v, j, event)
      /\ event.actor # NoActor =>
           /\ v.actorTotals[k] = w.actorTotals[k] + 1
           /\ v.buckets[j].actorCounts[k] = w.buckets[j].actorCounts[k] + 1
      /\ \A l \in ActorQueryKey :
           (event.actor = NoActor \/ l # k) =>
             /\ v.actorTotals[l] = w.actorTotals[l]
             /\ v.buckets[j].actorCounts[l] = w.buckets[j].actorCounts[l]
  BY HitOnceShows DEF ActorHitShows
<1>1. Cardinality(Keys(v.totals)) <= MaxUniqueQueries
  <2>1. w.totals \in [Query -> Nat] /\ MaxUniqueQueries \in Nat
    BY ConfigAssumption DEF WindowType
  <2>2. Cardinality(Keys(w.totals)) <= MaxUniqueQueries
    BY DEF WithinLimits
  <2>3. Cardinality(Keys(Hit(w.totals, event.query))) <= MaxUniqueQueries
    BY <2>1, <2>2, HitKeys
  <2> QED BY <2>3 DEF HitOnce
<1>2. ASSUME NEW i \in Slots
      PROVE  Cardinality(Keys(v.buckets[i].counts)) <= MaxUniqueQueriesPerBucket
  <2>1. CASE i = j
    <3>1. w.buckets[j].counts \in [Query -> Nat] /\ MaxUniqueQueriesPerBucket \in Nat
      BY ConfigAssumption DEF WindowType, BucketType
    <3>2. Cardinality(Keys(w.buckets[j].counts)) <= MaxUniqueQueriesPerBucket
      BY DEF WithinLimits
    <3>3. Cardinality(Keys(Hit(w.buckets[j].counts, event.query))) <= MaxUniqueQueriesPerBucket
      BY <3>1, <3>2, HitKeys
    <3> QED BY <2>1, <3>3 DEF HitOnce
  <2>2. CASE i # j
    BY <2>2 DEF WithinLimits, HitOnce
  <2> QED BY <2>1, <2>2
<1>3. ASSUME NEW l \in ActorQueryKey PROVE v.actorTotals[l] <= PerActorQueryLimit
  <2>1. w.actorTotals[l] \in Nat /\ PerActorQueryLimit \in Nat
    BY ConfigAssumption DEF WindowType
  <2>2. CASE event.actor # NoActor /\ l = k
    <3>1. ~ (w.actorTotals[l] >= PerActorQueryLimit)
      BY <2>2 DEF OverActorLimit
    <3>2. v.actorTotals[l] = w.actorTotals[l] + 1
      BY <2>2, <1>0
    <3> QED BY <2>1, <3>1, <3>2
  <2>3. CASE event.actor = NoActor \/ l # k
    <3>1. v.actorTotals[l] = w.actorTotals[l]
      BY <2>3, <1>0
    <3> QED BY <3>1 DEF WithinLimits
  <2> QED BY <2>2, <2>3
<1> QED BY <1>1, <1>2, <1>3 DEF WithinLimits
LEMMA CountSound ==
  ASSUME NEW w, Sound(w), NEW j \in Slots,
         NEW event \in Event, event.query \in Query,
         ~ OverActorLimit(w, event),
         ~ NoRoomFor(w.totals, event.query, MaxUniqueQueries),
         ~ NoRoomFor(w.buckets[j].counts, event.query, MaxUniqueQueriesPerBucket)
  PROVE  Sound(Count(w, j, event))
<1> DEFINE v == Count(w, j, event)
<1>1. w \in WindowType /\ Balanced(w) /\ WithinLimits(w)
  BY DEF Sound
<1>2. HitOnce(w, v, j, event)
  BY <1>1, CountParts
<1> HIDE DEF v
<1>3. Balanced(v) /\ WithinLimits(v)
  BY <1>1, <1>2, CountBalanced, CountWithinLimits
<1>4. v \in WindowType
  BY <1>2 DEF HitOnce
<1>5. Sound(v)
  BY <1>3, <1>4 DEF Sound
<1> QED BY <1>5 DEF v

\* ensureBucket leaves the limits' verdicts on the totals as they are, or
\* better: it only takes hits away.
LEMMA EnsureEases ==
  ASSUME NEW w, Sound(w), NEW id \in Int
  PROVE  LET t == ensureBucket(w, id) IN
         /\ \A q \in Query : t.totals[q] <= w.totals[q]
         /\ \A k \in ActorQueryKey : t.actorTotals[k] <= w.actorTotals[k]
<1> DEFINE S == {bucketIndex(id)}
<1>1. S \in SUBSET Slots
  BY SlotOfBucket
<1>2. w \in WindowType
  BY DEF Sound
<1>3. /\ \A q \in Query : Drop(w, S).totals[q] <= w.totals[q]
      /\ \A k \in ActorQueryKey : Drop(w, S).actorTotals[k] <= w.actorTotals[k]
  BY <1>1, <1>2, HeldType, MonusType DEF Drop, WindowType
<1>4. Drop(w, S) \in WindowType
  BY <1>1, <1>2, DropType
<1>5. /\ \A q \in Query : w.totals[q] <= w.totals[q]
      /\ \A k \in ActorQueryKey : w.actorTotals[k] <= w.actorTotals[k]
  BY <1>2 DEF WindowType
<1>6. /\ ensureBucket(w, id).totals \in {w.totals, Drop(w, S).totals}
      /\ ensureBucket(w, id).actorTotals \in {w.actorTotals, Drop(w, S).actorTotals}
      /\ ensureBucket(w, id).totals = w.totals \/ ensureBucket(w, id).totals = Drop(w, S).totals
  BY <1>2, <1>4 DEF ensureBucket, WindowType
<1> QED BY <1>3, <1>5, <1>6
\* A query that had room in a map has room in a map that is nowhere above it,
\* even if the query itself has gone from it.
LEMMA RoomEases ==
  ASSUME NEW m \in [Query -> Nat], NEW n \in [Query -> Nat], \A q \in Query : n[q] <= m[q],
         NEW limit \in Nat, Cardinality(Keys(m)) <= limit,
         NEW q \in Query, ~ NoRoomFor(m, q, limit)
  PROVE  ~ NoRoomFor(n, q, limit)
<1>1. /\ Cardinality(Keys(n)) <= Cardinality(Keys(m))
      /\ IsFiniteSet(Keys(m)) /\ Cardinality(Keys(m)) \in Nat /\ Cardinality(Keys(n)) \in Nat
  BY FewerKeys, KeysFinite, FS_CardinalityType
<1>2. CASE m[q] = 0
  BY <1>1, <1>2 DEF NoRoomFor
<1>3. CASE m[q] # 0 /\ n[q] = 0
  <2>1. q \in Keys(m) /\ q \notin Keys(n) /\ Keys(n) \subseteq Keys(m)
    BY <1>3 DEF Keys
  <2>2. Keys(n) \subseteq Keys(m) \ {q}
    BY <2>1
  <2>3. /\ IsFiniteSet(Keys(m) \ {q})
        /\ Cardinality(Keys(m) \ {q}) = Cardinality(Keys(m)) - 1
    BY <1>1, <2>1, FS_RemoveElement
  <2>4. Cardinality(Keys(n)) <= Cardinality(Keys(m) \ {q})
    BY <2>2, <2>3, FS_Subset
  <2> QED BY <1>1, <2>3, <2>4 DEF NoRoomFor
<1>4. CASE n[q] # 0
  BY <1>4 DEF NoRoomFor
<1> QED BY <1>2, <1>3, <1>4

LEMMA AddExpiredSound ==
  ASSUME NEW e, Sound(e), NEW event \in Event, event.query \in Query, NEW now \in Int
  PROVE  Sound(AddExpired(e, event, now).win)
<1> DEFINE id == bucketID(EventTime(event, now))
           j  == bucketIndex(id)
           t  == ensureBucket(e, id)
<1>1. id \in Int /\ j \in Slots
  BY EventTimeType, BucketIDType, SlotOfBucket
<1>2. Sound(t)
  BY <1>1, EnsureSound
<1>3. /\ \A q \in Query : t.totals[q] <= e.totals[q]
      /\ \A k \in ActorQueryKey : t.actorTotals[k] <= e.actorTotals[k]
  BY <1>1, EnsureEases
<1>4. /\ e.totals \in [Query -> Nat] /\ t.totals \in [Query -> Nat]
      /\ e.actorTotals \in [ActorQueryKey -> Nat] /\ t.actorTotals \in [ActorQueryKey -> Nat]
      /\ Cardinality(Keys(e.totals)) <= MaxUniqueQueries
  BY <1>2 DEF Sound, WindowType, WithinLimits
<1>5. MaxUniqueQueries \in Nat /\ PerActorQueryLimit \in Nat
  BY ConfigAssumption
<1>6. CASE /\ ~ OverActorLimit(e, event)
           /\ ~ NoRoomFor(e.totals, event.query, MaxUniqueQueries)
           /\ ~ NoRoomFor(t.buckets[j].counts, event.query, MaxUniqueQueriesPerBucket)
  <2>1. ~ NoRoomFor(t.totals, event.query, MaxUniqueQueries)
    BY <1>3, <1>4, <1>5, <1>6, RoomEases
  <2>2. ~ OverActorLimit(t, event)
    <3>1. CASE event.actor = NoActor
      BY <3>1 DEF OverActorLimit
    <3>2. CASE event.actor # NoActor
      <4>1. <<event.query, event.actor>> \in ActorQueryKey
        BY <3>2 DEF Event, ActorQueryKey
      <4>2. ~ (e.actorTotals[<<event.query, event.actor>>] >= PerActorQueryLimit)
        BY <1>6, <3>2 DEF OverActorLimit
      <4>3. t.actorTotals[<<event.query, event.actor>>]
              <= e.actorTotals[<<event.query, event.actor>>]
        BY <1>3, <4>1
      <4>4. /\ t.actorTotals[<<event.query, event.actor>>] \in Nat
            /\ e.actorTotals[<<event.query, event.actor>>] \in Nat
        BY <1>4, <4>1
      <4> QED BY <1>5, <4>2, <4>3, <4>4 DEF OverActorLimit
    <3> QED BY <3>1, <3>2
  <2>3. Sound(Count(t, j, event))
    <3> HIDE DEF t, j
    <3> QED BY <1>1, <1>2, <1>6, <2>1, <2>2, CountSound
  <2>4. AddExpired(e, event, now).win \in {e, Count(t, j, event)}
    BY <1>6 DEF AddExpired, Accept, Reject
  <2> QED BY <2>3, <2>4
<1>7. CASE ~ (/\ ~ OverActorLimit(e, event)
              /\ ~ NoRoomFor(e.totals, event.query, MaxUniqueQueries)
              /\ ~ NoRoomFor(t.buckets[j].counts, event.query, MaxUniqueQueriesPerBucket))
  <2>1. AddExpired(e, event, now).win \in {e, t}
    BY <1>7 DEF AddExpired, Reject
  <2> QED BY <1>2, <2>1
<1> QED BY <1>6, <1>7

LEMMA AddAtSound ==
  ASSUME NEW w, Sound(w), NEW event \in Event, NEW now \in Int
  PROVE  Sound(AddAt(w, event, now).win)
<1>1. CASE event.query = NoQuery \/ event.occurredAt > now + MaxFutureSkew
  BY <1>1 DEF AddAt, Reject
<1>2. CASE event.query # NoQuery /\ ~ (event.occurredAt > now + MaxFutureSkew)
  <2>1. event.query \in Query
    BY <1>2 DEF Event
  <2>2. Sound(AddExpired(ExpireAt(w, now), event, now).win)
    BY <2>1, ExpireAtSound, AddExpiredSound
  <2> QED BY <1>2, <2>2 DEF AddAt
<1> QED BY <1>1, <1>2

LEMMA NewWindowSound == Sound(NewWindow)
<1>1. EmptyBucket \in BucketType
  BY NoCountsType DEF EmptyBucket, BucketType
<1>2. NewWindow \in WindowType
  BY <1>1, NoCountsType DEF NewWindow, WindowType
<1>3. ASSUME NEW q \in Query PROVE NewWindow.totals[q] = HeldIn(NewWindow, Slots, q)
  <2>1. \A i \in Slots : Column(NewWindow, q)[i] = 0
    BY NoCountsType DEF Column, NewWindow, EmptyBucket
  <2>2. Total(Column(NewWindow, q), Slots) = 0
    BY <2>1, TotalZero
  <2> QED BY <2>2, NoCountsType DEF HeldIn, Column, NewWindow
<1>4. ASSUME NEW k \in ActorQueryKey
      PROVE  NewWindow.actorTotals[k] = ActorHeldIn(NewWindow, Slots, k)
  <2>1. \A i \in Slots : ActorColumn(NewWindow, k)[i] = 0
    BY NoCountsType DEF ActorColumn, NewWindow, EmptyBucket
  <2>2. Total(ActorColumn(NewWindow, k), Slots) = 0
    BY <2>1, TotalZero
  <2> QED BY <2>2, NoCountsType DEF ActorHeldIn, ActorColumn, NewWindow
<1>5. WithinLimits(NewWindow)
  <2>1. Keys(NoCounts) = {}
    BY NoCountsType DEF Keys
  <2>2. Cardinality(Keys(NoCounts)) = 0
    BY <2>1, FS_EmptySet
  <2>3. \A k \in ActorQueryKey : NoActorCounts[k] <= PerActorQueryLimit
    BY NoCountsType, ConfigAssumption
  <2> QED BY <2>2, <2>3, ConfigAssumption DEF WithinLimits, NewWindow, EmptyBucket
<1> QED BY <1>2, <1>3, <1>4, <1>5 DEF Sound, Balanced

-----------------------------------------------------------------------------
(* What becomes of one bucket. *)

\* ensureBucket leaves the other slots alone, and its own unless another
\* bucket was in it.
LEMMA EnsureBuckets ==
  ASSUME NEW w \in WindowType, NEW id \in Int
  PROVE  LET t == ensureBucket(w, id)
             j == bucketIndex(id)
         IN /\ t \in WindowType
            /\ \A i \in Slots \ {j} : t.buckets[i] = w.buckets[i]
            /\ t.buckets[j].id = id
            /\ w.buckets[j].id = id => t.buckets[j] = w.buckets[j]
            /\ w.buckets[j].id # id =>
                 t.buckets[j].counts = NoCounts /\ t.buckets[j].actorCounts = NoActorCounts
<1> DEFINE j == bucketIndex(id)
           v == IF w.buckets[j].id = id THEN w ELSE Drop(w, {j})
           t == [v EXCEPT !.buckets[j].id = id]
<1>1. j \in Slots
  BY SlotOfBucket
<1>2. Drop(w, {j}) \in WindowType
  BY <1>1, DropType
<1>3. v \in WindowType
  BY <1>2
<1>4. /\ \A i \in Slots \ {j} : v.buckets[i] = w.buckets[i]
      /\ w.buckets[j].id = id => v.buckets[j] = w.buckets[j]
      /\ w.buckets[j].id # id =>
           v.buckets[j].counts = NoCounts /\ v.buckets[j].actorCounts = NoActorCounts
  BY <1>1, DropBuckets
<1> HIDE DEF v, j
<1>5. /\ t \in WindowType
      /\ \A i \in Slots \ {j} : t.buckets[i] = v.buckets[i]
      /\ t.buckets[j].id = id
      /\ t.buckets[j].counts = v.buckets[j].counts
      /\ t.buckets[j].actorCounts = v.buckets[j].actorCounts
  BY <1>1, <1>3, RenameParts
<1> HIDE DEF t
<1>6. w.buckets[j].id = id => t.buckets[j] = w.buckets[j]
  <2> SUFFICES ASSUME w.buckets[j].id = id PROVE t.buckets[j] = w.buckets[j]
    OBVIOUS
  <2>1. w.buckets[j] \in BucketType /\ t.buckets[j] \in BucketType
    BY <1>1, <1>5 DEF WindowType
  <2>2. /\ t.buckets[j].id = w.buckets[j].id
        /\ t.buckets[j].counts = w.buckets[j].counts
        /\ t.buckets[j].actorCounts = w.buckets[j].actorCounts
    BY <1>4, <1>5
  <2> QED BY <2>1, <2>2 DEF BucketType
<1>7. ensureBucket(w, id) = t
  BY DEF ensureBucket, t, v, j
<1> QED BY <1>4, <1>5, <1>6, <1>7 DEF j

\* The bucket id of an event and what AddAt may have done to the window.
Target(event, now) == bucketID(EventTime(event, now))

LEMMA AddAtCases ==
  ASSUME NEW w \in WindowType, NEW event \in Event, NEW now \in Int
  PROVE  LET e == ExpireAt(w, now)
             t == ensureBucket(e, Target(event, now))
             r == AddAt(w, event, now)
         IN \/ r.reason # "none" /\ r.win \in {w, e}
            \/ r.reason # "none" /\ r.win = t /\ Target(event, now) >= minBucketID(now)
            \/ /\ r.reason = "none" /\ event.query \in Query
               /\ r.win = Count(t, bucketIndex(Target(event, now)), event)
               /\ Target(event, now) >= minBucketID(now)
<1> DEFINE id == Target(event, now)
           e  == ExpireAt(w, now)
           t  == ensureBucket(e, id)
           r  == AddAt(w, event, now)
<1>1. id \in Int /\ minBucketID(now) \in Int
  BY EventTimeType, BucketIDType, ConfigAssumption DEF Target, minBucketID
<1>2. CASE event.query = NoQuery \/ event.occurredAt > now + MaxFutureSkew
  BY <1>2 DEF AddAt, Reject
<1>3. CASE event.query # NoQuery /\ ~ (event.occurredAt > now + MaxFutureSkew)
  <2>1. r = AddExpired(e, event, now) /\ event.query \in Query
    BY <1>3 DEF AddAt, Event
  <2> HIDE DEF e, r
  <2>2. \/ r = Reject(e, "too_old") \/ r = Reject(e, "actor_query_limit")
        \/ r = Reject(e, "cardinality_limit")
        \/ id >= minBucketID(now) /\ r = Reject(t, "bucket_cardinality_limit")
        \/ id >= minBucketID(now) /\ r = Accept(Count(t, bucketIndex(id), event))
    BY <1>1, <2>1 DEF AddExpired, Target
  <2> QED BY <2>1, <2>2 DEF Accept, Reject, e, r
<1> QED BY <1>2, <1>3

\* A bucket kept as it was, or emptied.
Reused(old, new) ==
  /\ new \in BucketType
  /\ new = old \/ (new.counts = NoCounts /\ new.actorCounts = NoActorCounts)

\* A bucket with one more hit.
HitBucket(b, event) ==
  [id |-> b.id, counts |-> Hit(b.counts, event.query), actorCounts |-> ActorHit(b.actorCounts, event)]

LEMMA ExpireBuckets ==
  ASSUME NEW w \in WindowType, NEW now \in Int
  PROVE  /\ ExpireAt(w, now) \in WindowType
         /\ \A i \in Slots : Reused(w.buckets[i], ExpireAt(w, now).buckets[i])
<1> DEFINE S == {i \in Slots : w.buckets[i].id < minBucketID(now)}
<1>1. S \in SUBSET Slots /\ ExpireAt(w, now) = Drop(w, S)
  BY DEF ExpireAt
<1> HIDE DEF S
<1>2. Drop(w, S) \in WindowType
  BY <1>1, DropType
<1>3. \A i \in Slots : Drop(w, S).buckets[i] \in BucketType
  BY <1>2 DEF WindowType
<1> QED BY <1>1, <1>2, <1>3, DropBuckets DEF Reused

\* AddAt keeps or empties each bucket, but for the one an accepted event is
\* counted in: that one has the event's id, and one hit more than what was
\* kept of it.
LEMMA AddAtBuckets ==
  ASSUME NEW w \in WindowType, NEW event \in Event, NEW now \in Int
  PROVE  LET r  == AddAt(w, event, now)
             id == Target(event, now)
         IN \A i \in Slots :
              \/ Reused(w.buckets[i], r.win.buckets[i])
              \/ /\ r.reason = "none" /\ i = bucketIndex(id)
                 /\ \E b : /\ Reused(w.buckets[i], b) /\ b.id = id
                           /\ r.win.buckets[i] = HitBucket(b, event)
<1> DEFINE e == ExpireAt(w, now)
           id == Target(event, now)
           j == bucketIndex(id)
           t == ensureBucket(e, id)
           r == AddAt(w, event, now)
<1>1. id \in Int /\ j \in Slots
  BY EventTimeType, BucketIDType, SlotOfBucket DEF Target
<1>2. e \in WindowType /\ \A i \in Slots : Reused(w.buckets[i], e.buckets[i])
  BY ExpireBuckets
<1>3. \/ r.reason # "none" /\ r.win \in {w, e, t}
      \/ r.reason = "none" /\ event.query \in Query /\ r.win = Count(t, j, event)
  BY AddAtCases
<1> HIDE DEF e, id, r
<1>4. /\ t \in WindowType
      /\ \A i \in Slots \ {j} : t.buckets[i] = e.buckets[i]
      /\ t.buckets[j].id = id
      /\ e.buckets[j].id = id => t.buckets[j] = e.buckets[j]
      /\ e.buckets[j].id # id =>
           t.buckets[j].counts = NoCounts /\ t.buckets[j].actorCounts = NoActorCounts
  BY <1>1, <1>2, EnsureBuckets
<1> HIDE DEF t
<1>5. \A i \in Slots : Reused(w.buckets[i], t.buckets[i])
  BY <1>2, <1>4 DEF Reused, WindowType
<1>6. \A i \in Slots : Reused(w.buckets[i], w.buckets[i])
  BY DEF Reused, WindowType
<1>7. CASE r.win = Count(t, j, event) /\ r.reason = "none" /\ event.query \in Query
  <2>1. HitOnce(t, Count(t, j, event), j, event)
    BY <1>1, <1>4, <1>7, CountParts
  <2>2. \A i \in Slots \ {j} : r.win.buckets[i] = t.buckets[i]
    BY <1>7, <2>1 DEF HitOnce
  <2>3. r.win.buckets[j] = HitBucket(t.buckets[j], event)
    BY <1>1, <1>4, <1>7 DEF Count, HitBucket, WindowType
  <2>4. Reused(w.buckets[j], t.buckets[j]) /\ t.buckets[j].id = id
    BY <1>1, <1>4, <1>5
  <2> QED BY <1>5, <1>7, <2>2, <2>3, <2>4 DEF r, id
<1>8. CASE r.win \in {w, e, t}
  BY <1>2, <1>5, <1>6, <1>8 DEF r
<1> QED BY <1>3, <1>7, <1>8

\* The actors of a bucket have no more hits of a query than there are.
ActorsFit(b) ==
  \A q \in Query : Total([a \in Actor |-> b.actorCounts[<<q, a>>]], Actor) <= b.counts[q]

LEMMA EmptyFits ==
  ASSUME NEW b, b.counts = NoCounts, b.actorCounts = NoActorCounts
  PROVE  ActorsFit(b)
<1> SUFFICES ASSUME NEW q \in Query
             PROVE  Total([a \in Actor |-> b.actorCounts[<<q, a>>]], Actor) <= b.counts[q]
  BY DEF ActorsFit
<1>1. \A a \in Actor : [x \in Actor |-> b.actorCounts[<<q, x>>]][a] = 0
  BY NoCountsType DEF ActorQueryKey
<1>2. Total([a \in Actor |-> b.actorCounts[<<q, a>>]], Actor) = 0
  BY <1>1, TotalZero
<1> QED BY <1>2, NoCountsType

\* One hit is one for the query and one for its actor, or for no actor.
LEMMA HitFits ==
  ASSUME NEW b \in BucketType, ActorsFit(b), NEW event \in Event, event.query \in Query
  PROVE  ActorsFit(HitBucket(b, event))
<1> DEFINE v == HitBucket(b, event)
           row(x, q) == [a \in Actor |-> x.actorCounts[<<q, a>>]]
           k == <<event.query, event.actor>>
<1>1. b.counts \in [Query -> Nat] /\ b.actorCounts \in [ActorQueryKey -> Nat]
  BY DEF BucketType
<1>2. /\ v.counts[event.query] = b.counts[event.query] + 1
      /\ \A q \in Query : q # event.query => v.counts[q] = b.counts[q]
  BY <1>1, HitAt DEF HitBucket
<1>3. /\ event.actor # NoActor => v.actorCounts[k] = b.actorCounts[k] + 1
      /\ \A l \in ActorQueryKey :
           (event.actor = NoActor \/ l # k) => v.actorCounts[l] = b.actorCounts[l]
  BY <1>1, ActorHitAt DEF HitBucket
<1>4. IsFiniteSet(Actor)
  BY ConfigAssumption
<1>5. \A q \in Query, a \in Actor : row(b, q)[a] \in Nat
  BY <1>1 DEF ActorQueryKey
<1> HIDE DEF v
<1>6. ASSUME NEW q \in Query PROVE Total(row(v, q), Actor) <= v.counts[q]
  <2>1. Total(row(b, q), Actor) <= b.counts[q] /\ Total(row(b, q), Actor) \in Nat
    <3>1. Total(row(b, q), Actor) \in Nat
      <4> HIDE DEF row
      <4> QED BY <1>4, <1>5, UnitsFinite
    <3> QED BY <3>1 DEF ActorsFit
  <2>2. b.counts[q] \in Nat
    BY <1>1
  <2>3. CASE q = event.query /\ event.actor # NoActor
    <3>1. event.actor \in Actor
      BY <2>3 DEF Event
    <3>2. row(v, q)[event.actor] = row(b, q)[event.actor] + 1
      BY <1>3, <2>3, <3>1
    <3>3. \A a \in Actor \ {event.actor} : row(v, q)[a] = row(b, q)[a]
      BY <1>3, <2>3 DEF ActorQueryKey
    <3>4. Total(row(v, q), Actor) = Total(row(b, q), Actor) + 1
      <4> HIDE DEF row
      <4> QED BY <1>4, <1>5, <3>1, <3>2, <3>3, TotalHit
    <3> QED BY <1>2, <2>1, <2>2, <2>3, <3>4
  <2>4. CASE q # event.query \/ event.actor = NoActor
    <3>1. \A a \in Actor : row(v, q)[a] = row(b, q)[a]
      BY <1>3, <2>4 DEF ActorQueryKey
    <3>2. Total(row(v, q), Actor) = Total(row(b, q), Actor)
      <4> HIDE DEF row
      <4> QED BY <3>1, TotalCong
    <3>3. v.counts[q] = b.counts[q] \/ v.counts[q] = b.counts[q] + 1
      BY <1>2
    <3> QED BY <2>1, <2>2, <3>2, <3>3
  <2> QED BY <2>3, <2>4
<1> QED BY <1>6 DEF ActorsFit, v

-----------------------------------------------------------------------------
(* Time without wrapping around *)

LEMMA DivParts ==
  ASSUME NEW a \in Int, NEW n \in Nat \ {0}
  PROVE  /\ a \div n \in Int
         /\ n * (a \div n) <= a
         /\ a < n * (a \div n) + n
OBVIOUS

LEMMA DivMonotone ==
  ASSUME NEW a \in Int, NEW b \in Int, a <= b, NEW n \in Nat \ {0}
  PROVE  a \div n <= b \div n
<1>1. /\ a \div n \in Int /\ b \div n \in Int
      /\ n * (a \div n) <= a /\ b < n * (b \div n) + n
  BY DivParts
<1>2. SUFFICES ASSUME a \div n >= (b \div n) + 1 PROVE FALSE
  BY <1>1
<1>3. n * (a \div n) >= n * ((b \div n) + 1)
  BY <1>1, <1>2
<1>4. n * ((b \div n) + 1) = n * (b \div n) + n
  BY <1>1
<1> QED BY <1>1, <1>3, <1>4

LEMMA UnixNanoExact ==
  ASSUME NEW ts \in Int, -Int64Half <= ts, ts < Int64Half
  PROVE  UnixNano(ts) = ts
<1>1. Int64Half \in Nat \ {0}
  BY ConfigAssumption
<1>2. \A a \in Nat, n \in Nat \ {0} : a < n => a % n = a
  OBVIOUS
<1>3. ts + Int64Half \in Nat /\ 2 * Int64Half \in Nat \ {0} /\ ts + Int64Half < 2 * Int64Half
  BY <1>1
<1>4. (ts + Int64Half) % (2 * Int64Half) = ts + Int64Half
  BY <1>2, <1>3
<1> QED BY <1>1, <1>4 DEF UnixNano

\* A real instant after the epoch.
LEMMA BucketOfInstant ==
  ASSUME NEW ts \in Nat, ts < Int64Half
  PROVE  bucketID(ts) = ts \div BucketSize /\ bucketID(ts) \in Nat
<1>1. UnixNano(ts) = ts
  BY UnixNanoExact, ConfigAssumption
<1>2. BucketSize \in Nat \ {0}
  BY ConfigAssumption
<1>3. ts \div BucketSize \in Nat
  BY <1>2
<1> QED BY <1>1, <1>3 DEF bucketID, Quotient

\* An instant before another is in no later bucket.
LEMMA BucketMonotone ==
  ASSUME NEW a \in Int, NEW b \in Nat, -Int64Half <= a, a <= b, b < Int64Half
  PROVE  bucketID(a) <= bucketID(b)
<1>1. BucketSize \in Nat \ {0} /\ Int64Half \in Nat \ {0}
  BY ConfigAssumption
<1>2. bucketID(b) = b \div BucketSize /\ bucketID(b) \in Nat
  BY BucketOfInstant
<1>3. CASE a >= 0
  <2>1. a \in Nat /\ a < Int64Half
    BY <1>1, <1>3
  <2>2. bucketID(a) = a \div BucketSize
    BY <2>1, BucketOfInstant
  <2> QED BY <1>1, <1>2, <2>2, DivMonotone
<1>4. CASE a < 0
  <2>1. UnixNano(a) = a
    BY <1>1, UnixNanoExact
  <2>2. bucketID(a) = -((-a) \div BucketSize)
    BY <1>4, <2>1 DEF bucketID, Quotient
  <2>3. (-a) \div BucketSize \in Nat
    BY <1>1, <1>4
  <2> QED BY <1>2, <2>2, <2>3
<1> QED BY <1>3, <1>4

\* The window spans all slots but one before the bucket of now.
LEMMA WindowSpan ==
  ASSUME NEW now \in Nat, WindowSize <= now, now < Int64Half
  PROVE  minBucketID(now) = bucketID(now) - (BucketCount - 1)
<1> DEFINE W == WindowSize
           B == BucketSize
<1>1. W \in Nat /\ B \in Nat \ {0} /\ W % B = 0
  BY ConfigAssumption
<1>2. now - W \in Nat /\ now - W < Int64Half
  BY <1>1, ConfigAssumption
<1>3. bucketID(now) = now \div B /\ minBucketID(now) = (now - W) \div B
  BY <1>2, BucketOfInstant DEF minBucketID
<1>4. W = B * (W \div B) /\ W \div B \in Nat
  BY <1>1
<1> HIDE DEF W, B
<1> DEFINE k == W \div B
           x == now \div B
           y == (now - W) \div B
<1>5. /\ x \in Int /\ y \in Int /\ k \in Nat
      /\ B * x <= now /\ now < B * x + B
      /\ B * y <= now - W /\ now - W < B * y + B
  BY <1>1, <1>2, <1>4, DivParts
<1>6. W = B * k
  BY <1>4
<1> HIDE DEF k, x, y
<1>7. B * (x - k) = B * x - W /\ B * (x - k) \in Int
  BY <1>1, <1>5, <1>6
<1>8. ~ (y < x - k)
  <2> SUFFICES ASSUME y + 1 <= x - k PROVE FALSE
    BY <1>5
  <2>1. B * (y + 1) <= B * (x - k)
    BY <1>1, <1>5
  <2>2. B * (y + 1) = B * y + B
    BY <1>1, <1>5
  <2> QED BY <1>1, <1>5, <1>7, <2>1, <2>2
<1>9. ~ (y > x - k)
  <2> SUFFICES ASSUME x - k + 1 <= y PROVE FALSE
    BY <1>5
  <2>1. B * (x - k + 1) <= B * y
    BY <1>1, <1>5
  <2>2. B * (x - k + 1) = B * (x - k) + B
    BY <1>1, <1>5
  <2> QED BY <1>1, <1>5, <1>7, <2>1, <2>2
<1>10. y = x - k
  BY <1>5, <1>8, <1>9
<1> QED BY <1>3, <1>4, <1>10 DEF x, y, k, W, B, BucketCount

\* Two bucket ids closer than the ring is long, in one slot, are one.
LEMMA SlotDecides ==
  ASSUME NEW a \in Int, NEW b \in Int, bucketIndex(a) = bucketIndex(b),
         a - b <= BucketCount - 1, b - a <= BucketCount - 1
  PROVE  a = b
<1> DEFINE n == BucketCount
<1>1. n \in Nat \ {0}
  BY BucketCountPositive
<1> HIDE DEF n
<1>2. /\ a = n * (a \div n) + (a % n) /\ a \div n \in Int /\ a % n \in Int
      /\ b = n * (b \div n) + (b % n) /\ b \div n \in Int
  BY <1>1
<1>3. a % n = b % n
  BY DEF bucketIndex, n
<1> DEFINE d == (a \div n) - (b \div n)
<1>4. a - b = n * d /\ d \in Int
  BY <1>1, <1>2, <1>3
<1> HIDE DEF d
<1>5. n * d < n /\ n * d > -n
  BY <1>1, <1>4 DEF n
<1>6. ~ (d >= 1)
  <2> SUFFICES ASSUME d >= 1 PROVE FALSE
    OBVIOUS
  <2>1. n * d >= n * 1
    BY <1>1, <1>4
  <2> QED BY <1>1, <1>4, <1>5, <2>1
<1>7. ~ (d <= -1)
  <2> SUFFICES ASSUME d <= -1 PROVE FALSE
    OBVIOUS
  <2>1. n * d <= n * (-1)
    BY <1>1, <1>4
  <2> QED BY <1>1, <1>4, <1>5, <2>1
<1>8. d = 0
  BY <1>4, <1>6, <1>7
<1> QED BY <1>1, <1>4, <1>8

-----------------------------------------------------------------------------
(* The list of the top *)

\* Precedes is a strict linear order of the items, so ranks are places.
LEMMA Ranked ==
  ASSUME NEW m \in [Query -> Nat], NEW items \in SUBSET Query
  PROVE  LET rank == [q \in items |-> 1 + Cardinality({r \in items : Precedes(m, r, q)})] IN
         /\ IsFiniteSet(items) /\ rank \in [items -> 1..Cardinality(items)]
         /\ \A q, r \in items : Precedes(m, q, r) <=> rank[q] < rank[r]
         /\ \A n \in 1..Cardinality(items) : \E q \in items : rank[q] = n
<1> DEFINE R == {p \in items \X items : Precedes(m, p[1], p[2])}
           rank == [q \in items |-> 1 + Cardinality({r \in items : Precedes(m, r, q)})]
<1>1. IsFiniteSet(items) /\ \A q \in items : m[q] \in Nat /\ q \in Int
  BY ConfigAssumption, FS_Subset
<1>2. \A q, r \in items : <<q, r>> \in R <=> Precedes(m, q, r)
  OBVIOUS
<1> HIDE DEF R
<1>3. /\ \A q \in items : <<q, q>> \notin R
      /\ \A q, r, s \in items : <<q, r>> \in R /\ <<r, s>> \in R => <<q, s>> \in R
      /\ \A q, r \in items : q = r \/ <<q, r>> \in R \/ <<r, q>> \in R
  BY <1>1, <1>2 DEF Precedes
<1>4. \A q \in items : {r \in items : <<r, q>> \in R} = {r \in items : Precedes(m, r, q)}
  BY <1>2
<1>5. \A q \in items : rank[q] = 1 + Cardinality({r \in items : <<r, q>> \in R})
  BY <1>4
<1>6. rank \in [items -> Int]
  <2>1. \A q \in items : Cardinality({r \in items : <<r, q>> \in R}) \in Nat
    BY <1>1, FS_Subset, FS_CardinalityType
  <2>2. \A q \in items : 1 + Cardinality({r \in items : Precedes(m, r, q)}) \in Int
    BY <1>4, <2>1
  <2> QED BY <2>2
<1> HIDE DEF rank
<1>7. /\ rank \in [items -> 1..Cardinality(items)]
      /\ \A q, r \in items : <<q, r>> \in R <=> rank[q] < rank[r]
      /\ \A n \in 1..Cardinality(items) : \E q \in items : rank[q] = n
  BY <1>1, <1>3, <1>5, <1>6, RankIsPlace
<1> QED BY <1>1, <1>2, <1>7 DEF rank

\* TopOf lists the first limit items in order, and all if they are fewer.
LEMMA TopOfShows ==
  ASSUME NEW m \in [Query -> Nat], NEW limit \in Nat, NEW included
  PROVE  LET list   == TopOf(m, limit, included)
             found  == Keys(m) \cap included
             listed == {list[n].query : n \in 1..Len(list)}
         IN /\ listed \subseteq found
            /\ \A n \in 1..Len(list) : list[n].count = m[list[n].query]
            /\ \A n, k \in 1..Len(list) : n < k => Precedes(m, list[n].query, list[k].query)
            /\ \A q \in listed, r \in found \ listed : Precedes(m, q, r)
            /\ Len(list) <= limit
            /\ Len(list) < limit => listed = found
<1> DEFINE found == Keys(m) \cap included
           rank == [q \in found |-> 1 + Cardinality({r \in found : Precedes(m, r, q)})]
           size == IF limit < Cardinality(found) THEN limit ELSE Cardinality(found)
           at == [n \in 1..size |-> CHOOSE r \in found : rank[r] = n]
           list == [n \in 1..size |-> [query |-> at[n], count |-> m[at[n]]]]
<1>1. found \in SUBSET Query
  BY DEF Keys
<1>2. /\ IsFiniteSet(found) /\ rank \in [found -> 1..Cardinality(found)]
      /\ \A q, r \in found : Precedes(m, q, r) <=> rank[q] < rank[r]
      /\ \A n \in 1..Cardinality(found) : \E q \in found : rank[q] = n
  <2> HIDE DEF found
  <2> QED BY <1>1, Ranked, Zenon
<1>3. TopOf(m, limit, included) = list
  <2> DEFINE pick(n) == CHOOSE r \in found :
                          1 + Cardinality({s \in found : Precedes(m, s, r)}) = n
  <2>1. ASSUME NEW n PROVE (CHOOSE r \in found : rank[r] = n) = pick(n)
    <3>1. \A r \in found : rank[r] = 1 + Cardinality({s \in found : Precedes(m, s, r)})
      OBVIOUS
    <3> HIDE DEF rank, found
    <3> QED BY <3>1, Zenon
  <2>2. TopOf(m, limit, included) = [n \in 1..size |-> [query |-> pick(n), count |-> m[pick(n)]]]
    BY Zenon DEF TopOf
  <2>3. \A n \in 1..size : at[n] = pick(n)
    BY <2>1
  <2> HIDE DEF at, pick, size
  <2> QED BY <2>2, <2>3
<1>4. Cardinality(found) \in Nat
  BY <1>2, FS_CardinalityType
<1>5. size \in Nat /\ size <= limit /\ size <= Cardinality(found)
  BY <1>4
<1>6. \A n \in 1..size : at[n] \in found /\ rank[at[n]] = n
  <2> HIDE DEF found, rank, size
  <2>1. \A n \in 1..size : n \in 1..Cardinality(found)
    BY <1>4, <1>5
  <2>2. \A n \in 1..size : \E q \in found : rank[q] = n
    BY <1>2, <2>1
  <2> QED BY <2>2
<1> HIDE DEF found, rank, at
<1>7. Len(list) = size
  BY <1>5
<1>8. \A n \in 1..size : list[n].query = at[n] /\ list[n].count = m[at[n]]
  OBVIOUS
<1> HIDE DEF list
<1> DEFINE listed == {list[n].query : n \in 1..Len(list)}
<1>9. listed = {at[n] : n \in 1..size}
  BY <1>7, <1>8
<1>10. \A q \in found : rank[q] \in 1..size => q \in listed
  <2>1. ASSUME NEW q \in found, rank[q] \in 1..size PROVE q \in listed
    <3>1. at[rank[q]] \in found /\ rank[at[rank[q]]] = rank[q]
      BY <1>6, <2>1
    <3>2. ~ Precedes(m, q, at[rank[q]]) /\ ~ Precedes(m, at[rank[q]], q)
      BY <1>2, <3>1
    <3>3. q \in Int /\ at[rank[q]] \in Int /\ m[q] \in Nat /\ m[at[rank[q]]] \in Nat
      BY <1>1, <3>1, ConfigAssumption
    <3>4. q = at[rank[q]]
      BY <3>2, <3>3 DEF Precedes
    <3> QED BY <1>9, <2>1, <3>4
  <2> QED BY <2>1
<1>11. listed \subseteq found
  BY <1>6, <1>9
<1>12. ASSUME NEW q \in listed, NEW r \in found \ listed PROVE Precedes(m, q, r)
  <2>0. PICK n \in 1..size : q = at[n]
    BY <1>9
  <2>1. rank[q] \in 1..size
    BY <1>6, <2>0
  <2>2. rank[r] \notin 1..size /\ rank[r] \in 1..Cardinality(found)
    BY <1>2, <1>10
  <2>3. rank[q] < rank[r]
    BY <1>4, <1>5, <2>1, <2>2
  <2> QED BY <1>2, <1>11, <2>3
<1>13. ASSUME size < limit PROVE listed = found
  <2>1. size = Cardinality(found)
    BY <1>13
  <2>2. \A q \in found : rank[q] \in 1..size
    BY <1>2, <2>1
  <2> QED BY <1>10, <1>11, <2>2
<1>14. \A n, k \in 1..size : n < k => Precedes(m, list[n].query, list[k].query)
  BY <1>2, <1>6, <1>8
<1>15. \A n \in 1..size : list[n].count = m[list[n].query]
  BY <1>8
<1> HIDE DEF size, listed
<1> QED BY <1>3, <1>5, <1>7, <1>11, <1>12, <1>13, <1>14, <1>15 DEF listed, found
=============================================================================
