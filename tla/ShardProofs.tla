---------------------------- MODULE ShardProofs ----------------------------
(***************************************************************************)
(* What holds of a shard for every configuration and any number of         *)
(* goroutines: first, however long its callers wait for the mutex, its     *)
(* counters and limits; then, when none of them waits across a bucket      *)
(* boundary, the exactness of its answers.                                 *)
(***************************************************************************)
EXTENDS Shard, WindowProofs

LEMMA ArrivalType ==
  ASSUME NEW now \in Int
  PROVE  Arrival(now) \subseteq Event
BY CallsAssumption DEF Arrival, Event

\* The events of the calls that Begin, and the log of a call that returns.
CallsTyped ==
  /\ clock \in Int
  /\ call \in [Proc -> CallType]
  /\ log \subseteq LogType /\ IsFiniteSet(log)

LEMMA BeginTyped ==
  ASSUME CallsTyped, NEW p \in Proc, Begin(p)
  PROVE  CallsTyped'
<1> USE DEF CallsTyped
<1>1. CASE BeginAdd(p)
  <2>1. PICK event \in Arrival(clock) :
          call' = [call EXCEPT ![p] = [op |-> "add", event |-> event, now |-> clock]]
    BY <1>1 DEF BeginAdd
  <2>2. [op |-> "add", event |-> event, now |-> clock] \in CallType
    BY ArrivalType DEF CallType
  <2> QED BY <1>1, <2>1, <2>2 DEF BeginAdd
<1>2. CASE BeginTop(p)
  <2>1. PICK included \in SUBSET Query :
          call' = [call EXCEPT ![p] = [op |-> "top", included |-> included, now |-> clock]]
    BY <1>2 DEF BeginTop
  <2>2. [op |-> "top", included |-> included, now |-> clock] \in CallType
    BY DEF CallType
  <2> QED BY <1>2, <2>1, <2>2 DEF BeginTop
<1>3. CASE BeginGauge(p)
  <2>1. PICK op \in {"unique", "actors", "events"} :
          call' = [call EXCEPT ![p] = [op |-> op, now |-> clock]]
    BY <1>3 DEF BeginGauge
  <2>2. [op |-> op, now |-> clock] \in CallType
    BY DEF CallType
  <2> QED BY <1>3, <2>1, <2>2 DEF BeginGauge
<1> QED BY <1>1, <1>2, <1>3 DEF Begin

LEMMA ReadReturnsTyped ==
  ASSUME CallsTyped, NEW p \in Proc, NEW answer, ReadReturns(p, answer)
  PROVE  CallsTyped'
<1>1. Idle \in CallType
  BY DEF CallType
<1> QED BY <1>1 DEF CallsTyped, ReadReturns

\* What a waiting call carries.
LEMMA CallParts ==
  ASSUME NEW c \in CallType
  PROVE  /\ c.op = "add" => c.event \in Event /\ c.now \in Int
         /\ c.op \in {"count", "top", "unique", "actors", "events"} => c.now \in Int
BY DEF CallType, Idle

LEMMA LoggedTyped ==
  ASSUME log \subseteq LogType, IsFiniteSet(log),
         NEW event \in Event, event.query \in Query, NEW id \in Int
  PROVE  Logged(event, id) \subseteq LogType /\ IsFiniteSet(Logged(event, id))
<1> DEFINE alike == {r \in log : /\ r.query = event.query
                                 /\ r.actor = event.actor
                                 /\ r.bucket = id}
           new == [n |-> Cardinality(alike) + 1, query |-> event.query,
                   actor |-> event.actor, bucket |-> id]
<1>1. IsFiniteSet(alike) /\ Cardinality(alike) \in Nat
  BY FS_Subset, FS_CardinalityType
<1>2. new \in LogType
  BY <1>1 DEF LogType, Event
<1>3. IsFiniteSet(log \cup {new})
  BY FS_AddElement
<1>4. Logged(event, id) = log \cup {new}
  BY DEF Logged
<1> QED BY <1>2, <1>3, <1>4

LEMMA AddReturnsTyped ==
  ASSUME CallsTyped, NEW p \in Proc, call[p].op = "add", NEW reason, AddReturns(p, reason),
         reason = "none" => call[p].event.query \in Query
  PROVE  CallsTyped'
<1> DEFINE c == call[p]
<1>1. c.event \in Event /\ c.now \in Int
  BY CallParts DEF CallsTyped
<1>2. CASE reason = "none"
  <2>1. [op |-> "count", query |-> c.event.query, now |-> c.now] \in CallType
    BY <1>1, <1>2 DEF CallType
  <2>2. call' = [call EXCEPT ![p] = [op |-> "count", query |-> c.event.query, now |-> c.now]]
    BY <1>2 DEF AddReturns
  <2>3. call' \in [Proc -> CallType]
    BY <2>1, <2>2 DEF CallsTyped
  <2>4. log' = Logged(c.event, bucketID(EventTime(c.event, c.now)))
    BY <1>2 DEF AddReturns
  <2>5. bucketID(EventTime(c.event, c.now)) \in Int
    BY <1>1, EventTimeType, BucketIDType
  <2>6. log' \subseteq LogType /\ IsFiniteSet(log')
    BY <1>1, <1>2, <2>4, <2>5, LoggedTyped DEF CallsTyped
  <2> QED BY <2>3, <2>6 DEF CallsTyped, AddReturns
<1>3. CASE reason # "none"
  <2>1. Idle \in CallType
    BY DEF CallType
  <2> QED BY <1>3, <2>1 DEF CallsTyped, AddReturns
<1> QED BY <1>2, <1>3

\* An event without a query is never accepted.
LEMMA AcceptedHasQuery ==
  ASSUME NEW w, NEW event \in Event, NEW now, AddAt(w, event, now).reason = "none"
  PROVE  event.query \in Query
<1>1. event.query # NoQuery
  BY DEF AddAt, Reject
<1> QED BY <1>1 DEF Event

-----------------------------------------------------------------------------
\* The inductive invariant: the calls are well-formed and the window is sound.
Inv == CallsTyped /\ Sound(win)

LEMMA InitInv == Init => Inv
<1> SUFFICES ASSUME Init PROVE Inv
  OBVIOUS
<1>1. CallsTyped
  BY CallsAssumption, FS_EmptySet DEF Init, CallsInit, CallsTyped, CallType, LogType
<1> QED BY <1>1, NewWindowSound DEF Init, Inv

LEMMA NextInv == Inv /\ [Next]_vars => Inv'
<1> SUFFICES ASSUME Inv, [Next]_vars PROVE Inv'
  OBVIOUS
<1>1. CASE Tick /\ UNCHANGED win
  BY <1>1 DEF Inv, Tick, CallsTyped, Sound
<1>2. ASSUME NEW p \in Proc, Begin(p) /\ UNCHANGED win PROVE Inv'
  BY <1>2, BeginTyped DEF Inv, Sound
<1>3. ASSUME NEW p \in Proc, Add(p) PROVE Inv'
  <2>1. call[p] \in CallType /\ call[p].event \in Event /\ call[p].now \in Int
    BY <1>3, CallParts DEF Inv, CallsTyped, Add
  <2>2. Sound(win')
    BY <1>3, <2>1, AddAtSound DEF Inv, Add
  <2>3. CallsTyped'
    BY <1>3, <2>1, AddReturnsTyped, AcceptedHasQuery DEF Inv, Add
  <2> QED BY <2>2, <2>3 DEF Inv, Sound
<1>4. ASSUME NEW p \in Proc, NEW answer, Expiring(p), ReadReturns(p, answer),
             call[p].op \in {"count", "top", "unique", "actors", "events"}
      PROVE  Inv'
  <2>1. call[p].now \in Int
    BY <1>4, CallParts DEF Inv, CallsTyped
  <2>2. Sound(win')
    BY <1>4, <2>1, ExpireAtSound DEF Inv, Expiring
  <2>3. CallsTyped'
    BY <1>4, ReadReturnsTyped DEF Inv
  <2> QED BY <2>2, <2>3 DEF Inv, Sound
<1>5. ASSUME NEW p \in Proc,
             \/ CountQuery(p) \/ Top(p) \/ UniqueQueries(p) \/ ActorCounters(p)
             \/ WindowEvents(p)
      PROVE  Inv'
  BY <1>4, <1>5 DEF CountQuery, Top, UniqueQueries, ActorCounters, WindowEvents
<1>6. CASE UNCHANGED vars
  BY <1>6 DEF Inv, CallsTyped, Sound, vars
<1> QED BY <1>1, <1>2, <1>3, <1>5, <1>6 DEF Next, Locked

LEMMA SpecInv == Spec => []Inv
BY InitInv, NextInv, PTL DEF Spec

\* The types of the shard's state.
THEOREM TypeCorrect == Spec => []TypeOK
<1>1. Inv => TypeOK
  BY DEF Inv, TypeOK, CallsTyped, Sound
<1> QED BY <1>1, SpecInv, PTL

\* The running totals of a shard are at all times the sums of its buckets,
\* whatever its callers' clocks: subtractBucket, called by ExpireAt and by
\* ensureBucket, always gives back what AddAt put in.
THEOREM AccountingHolds == Spec => []Accounting
<1>1. Inv => Accounting
  BY DEF Inv, Sound, Accounting
<1> QED BY <1>1, SpecInv, PTL

\* No order of calls gets past the limits of the configuration, although
\* AddAt checks two of them before ensureBucket changes the window.
THEOREM LimitsAreKept == Spec => []LimitsHold
<1>1. Inv => LimitsHold
  BY DEF Inv, Sound, LimitsHold
<1> QED BY <1>1, SpecInv, PTL

-----------------------------------------------------------------------------
(* The log, and what the buckets say of it. *)

\* Records that differ in no more than their number are numbered 1, 2, ...
Alike(L, r) == {s \in L : s.query = r.query /\ s.actor = r.actor /\ s.bucket = r.bucket}

Numbered(L) == \A r \in L : r.n <= Cardinality(Alike(L, r))

\* So the record that Logged adds is a new one.
LEMMA LoggedNew ==
  ASSUME log \subseteq LogType, IsFiniteSet(log), Numbered(log),
         NEW event \in Event, event.query \in Query, NEW id \in Int
  PROVE  /\ Numbered(Logged(event, id))
         /\ \E new \in LogType \ log :
              /\ Logged(event, id) = log \cup {new}
              /\ new.query = event.query /\ new.actor = event.actor /\ new.bucket = id
<1> DEFINE alike == {r \in log : /\ r.query = event.query
                                 /\ r.actor = event.actor
                                 /\ r.bucket = id}
           new == [n |-> Cardinality(alike) + 1, query |-> event.query,
                   actor |-> event.actor, bucket |-> id]
           L == log \cup {new}
<1>1. IsFiniteSet(alike) /\ Cardinality(alike) \in Nat
  BY FS_Subset, FS_CardinalityType
<1>2. new \in LogType
  BY <1>1 DEF LogType, Event
<1>3. Logged(event, id) = L
  BY DEF Logged
<1>4. ASSUME new \in log PROVE FALSE
  <2>1. Alike(log, new) = alike
    BY DEF Alike
  <2>2. new.n <= Cardinality(alike)
    BY <1>4, <2>1, Zenon DEF Numbered
  <2> QED BY <1>1, <2>2
<1>5. IsFiniteSet(L) /\ log \subseteq L
  BY FS_AddElement
<1>6. ASSUME NEW r \in L PROVE r.n <= Cardinality(Alike(L, r))
  <2>1. CASE r = new
    <3>1. Alike(L, new) = alike \cup {new} /\ new \notin alike
      BY <1>4 DEF Alike
    <3>2. Cardinality(alike \cup {new}) = Cardinality(alike) + 1
      BY <1>1, <3>1, FS_AddElement
    <3>3. new.n = Cardinality(alike) + 1
      OBVIOUS
    <3> HIDE DEF new, alike
    <3> QED BY <1>1, <2>1, <3>1, <3>2, <3>3
  <2>2. CASE r \in log
    <3>1. Alike(log, r) \subseteq Alike(L, r) /\ Alike(log, r) \subseteq log /\ Alike(L, r) \subseteq L
      BY <1>5 DEF Alike
    <3> HIDE DEF L
    <3>2. IsFiniteSet(Alike(L, r)) /\ IsFiniteSet(Alike(log, r))
      BY <1>5, <3>1, FS_Subset
    <3>3. /\ Cardinality(Alike(log, r)) <= Cardinality(Alike(L, r))
          /\ Cardinality(Alike(log, r)) \in Nat /\ Cardinality(Alike(L, r)) \in Nat
      BY <3>1, <3>2, FS_Subset, FS_CardinalityType
    <3>4. r.n <= Cardinality(Alike(log, r)) /\ r.n \in Nat
      BY <2>2 DEF Numbered, LogType
    <3> QED BY <3>3, <3>4
  <2> QED BY <2>1, <2>2
<1>7. Numbered(L)
  <2> HIDE DEF L
  <2> QED BY <1>6 DEF Numbered
<1> QED BY <1>2, <1>3, <1>4, <1>7

\* The accepted events of a query in a bucket.
Entries(L, q, id) == {r \in L : r.query = q /\ r.bucket = id}

\* A longer log backs all that a shorter one did.
LEMMA MoreEntries ==
  ASSUME NEW L, IsFiniteSet(L), NEW K \in SUBSET L, NEW q, NEW id
  PROVE  /\ Cardinality(Entries(K, q, id)) <= Cardinality(Entries(L, q, id))
         /\ Cardinality(Entries(K, q, id)) \in Nat /\ Cardinality(Entries(L, q, id)) \in Nat
<1>1. Entries(K, q, id) \subseteq Entries(L, q, id) /\ Entries(L, q, id) \subseteq L
  BY DEF Entries
<1>2. IsFiniteSet(Entries(L, q, id)) /\ IsFiniteSet(Entries(K, q, id))
  BY <1>1, FS_Subset
<1> QED BY <1>1, <1>2, FS_Subset, FS_CardinalityType

Backed(L, b, i) ==
  \A q \in Query :
    b.counts[q] > 0 => bucketIndex(b.id) = i /\ b.counts[q] <= Cardinality(Entries(L, q, b.id))

LEMMA ReusedBacked ==
  ASSUME NEW L, IsFiniteSet(L), NEW K \in SUBSET L, NEW i \in Slots,
         NEW old \in BucketType, Backed(K, old, i), NEW new, Reused(old, new)
  PROVE  Backed(L, new, i)
<1> SUFFICES ASSUME NEW q \in Query, new.counts[q] > 0
             PROVE  /\ bucketIndex(new.id) = i
                    /\ new.counts[q] <= Cardinality(Entries(L, q, new.id))
  BY DEF Backed
<1>1. new = old
  BY NoCountsType DEF Reused
<1>2. bucketIndex(old.id) = i /\ old.counts[q] <= Cardinality(Entries(K, q, old.id))
  BY <1>1 DEF Backed
<1>3. /\ Cardinality(Entries(K, q, old.id)) <= Cardinality(Entries(L, q, old.id))
      /\ Cardinality(Entries(K, q, old.id)) \in Nat /\ Cardinality(Entries(L, q, old.id)) \in Nat
  BY MoreEntries
<1>4. old.counts[q] \in Nat
  BY DEF BucketType
<1> QED BY <1>1, <1>2, <1>3, <1>4

LEMMA HitBacked ==
  ASSUME NEW L, IsFiniteSet(L), NEW new, new \notin L, NEW i \in Slots, NEW b \in BucketType,
         Backed(L, b, i), bucketIndex(b.id) = i,
         NEW event \in Event, event.query \in Query,
         new.query = event.query, new.bucket = b.id
  PROVE  Backed(L \cup {new}, HitBucket(b, event), i)
<1> DEFINE M == L \cup {new}
           v == HitBucket(b, event)
<1>1. IsFiniteSet(M)
  BY FS_AddElement
<1>2. /\ v.id = b.id
      /\ v.counts[event.query] = b.counts[event.query] + 1
      /\ \A q \in Query : q # event.query => v.counts[q] = b.counts[q]
      /\ \A q \in Query : b.counts[q] \in Nat
  BY HitAt DEF HitBucket, BucketType
<1> HIDE DEF v
<1>3. ASSUME NEW q \in Query, v.counts[q] > 0
      PROVE  v.counts[q] <= Cardinality(Entries(M, q, b.id))
  <2>1. IsFiniteSet(Entries(L, q, b.id)) /\ Cardinality(Entries(L, q, b.id)) \in Nat
    <3>1. Entries(L, q, b.id) \subseteq L
      BY DEF Entries
    <3> QED BY <3>1, FS_Subset, FS_CardinalityType
  <2>2. b.counts[q] <= Cardinality(Entries(L, q, b.id))
    <3>1. b.counts[q] > 0 => b.counts[q] <= Cardinality(Entries(L, q, b.id))
      BY DEF Backed
    <3> QED BY <1>2, <2>1, <3>1
  <2>3. CASE q = event.query
    <3>1. Entries(M, q, b.id) = Entries(L, q, b.id) \cup {new} /\ new \notin Entries(L, q, b.id)
      BY <2>3 DEF Entries
    <3>2. Cardinality(Entries(M, q, b.id)) = Cardinality(Entries(L, q, b.id)) + 1
      BY <2>1, <3>1, FS_AddElement
    <3> QED BY <1>2, <2>1, <2>2, <2>3, <3>2
  <2>4. CASE q # event.query
    <3>1. Entries(M, q, b.id) = Entries(L, q, b.id)
      BY <2>4 DEF Entries
    <3> QED BY <1>2, <2>2, <2>4, <3>1
  <2> QED BY <2>3, <2>4
<1> QED BY <1>2, <1>3 DEF Backed, v

\* What Inv does not say: the numbers of the log, and of each bucket that its
\* actors fit in it and that the log backs it.
BucketInv ==
  /\ Numbered(log)
  /\ \A i \in Slots : ActorsFit(win.buckets[i]) /\ Backed(log, win.buckets[i], i)

LEMMA InitBucketInv == Init => BucketInv
<1> SUFFICES ASSUME Init PROVE BucketInv
  OBVIOUS
<1>1. Numbered(log)
  BY DEF Init, CallsInit, Numbered
<1>2. \A i \in Slots : /\ win.buckets[i].counts = NoCounts
                       /\ win.buckets[i].actorCounts = NoActorCounts
  BY DEF Init, NewWindow, EmptyBucket
<1>3. \A i \in Slots : ActorsFit(win.buckets[i])
  BY <1>2, EmptyFits
<1>4. \A i \in Slots : Backed(log, win.buckets[i], i)
  BY <1>2, NoCountsType DEF Backed
<1> QED BY <1>1, <1>3, <1>4 DEF BucketInv

LEMMA NextBucketInv == Inv /\ BucketInv /\ [Next]_vars => BucketInv'
<1> SUFFICES ASSUME Inv, BucketInv, [Next]_vars PROVE BucketInv'
  OBVIOUS
<1>1. ASSUME UNCHANGED <<win, log>> PROVE BucketInv'
  BY <1>1 DEF BucketInv
<1>2. CASE Tick /\ UNCHANGED win
  BY <1>1, <1>2 DEF Tick
<1>3. ASSUME NEW p \in Proc, Begin(p) /\ UNCHANGED win PROVE BucketInv'
  BY <1>1, <1>3 DEF Begin, BeginAdd, BeginTop, BeginGauge
<1>4. win \in WindowType /\ log \subseteq LogType /\ IsFiniteSet(log)
  BY DEF Inv, Sound, CallsTyped
<1>5. \A i \in Slots : win.buckets[i] \in BucketType
  BY <1>4 DEF WindowType
<1>6. ASSUME NEW i \in Slots, NEW L, IsFiniteSet(L), log \subseteq L,
             NEW new, Reused(win.buckets[i], new)
      PROVE  ActorsFit(new) /\ Backed(L, new, i)
  <2>1. ActorsFit(new)
    BY <1>6, EmptyFits DEF BucketInv, Reused
  <2>2. Backed(L, new, i)
    BY <1>5, <1>6, ReusedBacked DEF BucketInv
  <2> QED BY <2>1, <2>2
<1>7. ASSUME NEW p \in Proc, Add(p) PROVE BucketInv'
  <2> DEFINE event == call[p].event
             now == call[p].now
             id == Target(event, now)
             r == AddAt(win, event, now)
  <2>1. event \in Event /\ now \in Int
    BY <1>7, CallParts DEF Inv, CallsTyped, Add
  <2>2. id \in Int
    BY <2>1, EventTimeType, BucketIDType DEF Target
  <2>3. win' = r.win /\ AddReturns(p, r.reason)
    BY <1>7 DEF Add
  <2>4. \A i \in Slots :
          \/ Reused(win.buckets[i], win'.buckets[i])
          \/ /\ r.reason = "none" /\ i = bucketIndex(id)
             /\ \E b : /\ Reused(win.buckets[i], b) /\ b.id = id
                       /\ win'.buckets[i] = HitBucket(b, event)
    BY <1>4, <2>1, <2>3, AddAtBuckets
  <2>5. CASE r.reason # "none"
    <3>1. log' = log
      BY <2>3, <2>5 DEF AddReturns
    <3>2. \A i \in Slots : Reused(win.buckets[i], win'.buckets[i])
      BY <2>4, <2>5
    <3>3. \A i \in Slots : ActorsFit(win'.buckets[i]) /\ Backed(log', win'.buckets[i], i)
      BY <1>4, <1>6, <3>1, <3>2
    <3> QED BY <3>1, <3>3 DEF BucketInv
  <2>6. CASE r.reason = "none"
    <3>1. event.query \in Query
      BY <2>1, <2>6, AcceptedHasQuery
    <3>2. log' = Logged(event, id)
      BY <2>3, <2>6 DEF AddReturns, Target
    <3> HIDE DEF event, now, id, r
    <3>3. PICK new \in LogType \ log :
            /\ log' = log \cup {new} /\ Numbered(log')
            /\ new.query = event.query /\ new.actor = event.actor /\ new.bucket = id
      BY <1>4, <2>1, <2>2, <3>1, <3>2, LoggedNew DEF BucketInv
    <3>4. IsFiniteSet(log') /\ log \subseteq log'
      BY <1>4, <3>3, FS_AddElement
    <3>5. ASSUME NEW i \in Slots PROVE ActorsFit(win'.buckets[i]) /\ Backed(log', win'.buckets[i], i)
      <4>1. CASE Reused(win.buckets[i], win'.buckets[i])
        BY <1>6, <3>4, <4>1
      <4>2. ASSUME NEW b, i = bucketIndex(id), Reused(win.buckets[i], b), b.id = id,
                   win'.buckets[i] = HitBucket(b, event)
            PROVE  ActorsFit(win'.buckets[i]) /\ Backed(log', win'.buckets[i], i)
        <5>1. b \in BucketType
          BY <4>2 DEF Reused
        <5>2. ActorsFit(b) /\ Backed(log, b, i)
          BY <1>4, <1>6, <4>2
        <5>3. ActorsFit(HitBucket(b, event))
          BY <2>1, <3>1, <5>1, <5>2, HitFits
        <5>4. Backed(log \cup {new}, HitBucket(b, event), i)
          BY <1>4, <2>1, <3>1, <3>3, <4>2, <5>1, <5>2, HitBacked
        <5> QED BY <3>3, <4>2, <5>3, <5>4
      <4> QED BY <2>4, <4>1, <4>2
    <3> QED BY <3>3, <3>5 DEF BucketInv
  <2> QED BY <2>5, <2>6
<1>8. ASSUME NEW p \in Proc, NEW answer, Expiring(p), ReadReturns(p, answer),
             call[p].op \in {"count", "top", "unique", "actors", "events"}
      PROVE  BucketInv'
  <2>1. call[p].now \in Int
    BY <1>8, CallParts DEF Inv, CallsTyped
  <2>2. \A i \in Slots : Reused(win.buckets[i], win'.buckets[i])
    BY <1>4, <1>8, <2>1, ExpireBuckets DEF Expiring
  <2>3. log' = log
    BY <1>8 DEF ReadReturns
  <2>4. \A i \in Slots : ActorsFit(win'.buckets[i]) /\ Backed(log', win'.buckets[i], i)
    BY <1>4, <1>6, <2>2, <2>3
  <2> QED BY <2>3, <2>4 DEF BucketInv
<1>9. ASSUME NEW p \in Proc,
             \/ CountQuery(p) \/ Top(p) \/ UniqueQueries(p) \/ ActorCounters(p)
             \/ WindowEvents(p)
      PROVE  BucketInv'
  BY <1>8, <1>9 DEF CountQuery, Top, UniqueQueries, ActorCounters, WindowEvents
<1>10. CASE UNCHANGED vars
  BY <1>1, <1>10 DEF vars
<1> QED BY <1>2, <1>3, <1>7, <1>9, <1>10 DEF Next, Locked

LEMMA SpecBucketInv == Spec => []BucketInv
BY InitBucketInv, NextBucketInv, SpecInv, PTL DEF Spec

\* Whatever ensureBucket and ExpireAt reuse, the counters of a bucket never
\* show a hit that was not accepted for its id, nor one twice.
THEOREM NothingIsInvented == Spec => []NothingInvented
<1>1. BucketInv => NothingInvented
  BY DEF BucketInv, Backed, Entries, NothingInvented
<1> QED BY <1>1, SpecBucketInv, PTL

\* In every bucket the actors' hits of a query fit in its hits.
THEOREM ActorsStayWithinCounts == Spec => []ActorsWithinCounts
<1>1. BucketInv => ActorsWithinCounts
  BY DEF BucketInv, ActorsFit, ActorsWithinCounts
<1> QED BY <1>1, SpecBucketInv, PTL

-----------------------------------------------------------------------------
(* The window as a mirror of the log *)

\* The events of L that slot i shows when it holds bucket id.
InSlot(L, i, id) == {r \in L : r.bucket = id /\ bucketIndex(r.bucket) = i}

OfQuery(L, q) == {r \in L : r.query = q}

OfActor(L, k) == {r \in L : <<r.query, r.actor>> = k}

Recent(L, m) == {r \in L : r.bucket >= m}

Tallied(L, b, i) ==
  /\ \A q \in Query : b.counts[q] = Cardinality(OfQuery(InSlot(L, i, b.id), q))
  /\ \A k \in ActorQueryKey : b.actorCounts[k] = Cardinality(OfActor(InSlot(L, i, b.id), k))

\* From the oldest bucket m of the window on, each bucket counts the events
\* logged for it, and every event logged has its bucket; none is after c.
Mirrors(w, L, m, c) ==
  /\ \A r \in L : r.bucket <= c
  /\ \A i \in Slots : w.buckets[i].id <= c
  /\ \A i \in Slots : w.buckets[i].id >= m => Tallied(L, w.buckets[i], i)
  /\ \A r \in L : r.bucket >= m => w.buckets[bucketIndex(r.bucket)].id = r.bucket

\* The buckets before m are empty.
Swept(w, m) ==
  \A i \in Slots :
    w.buckets[i].id < m =>
      w.buckets[i].counts = NoCounts /\ w.buckets[i].actorCounts = NoActorCounts

IsLog(L) == L \subseteq LogType /\ IsFiniteSet(L)

LEMMA PartsFinite ==
  ASSUME NEW L, IsLog(L), NEW K \in SUBSET L
  PROVE  /\ IsLog(K) /\ Cardinality(K) \in Nat
         /\ \A q : IsFiniteSet(OfQuery(K, q)) /\ Cardinality(OfQuery(K, q)) \in Nat
         /\ \A k : IsFiniteSet(OfActor(K, k)) /\ Cardinality(OfActor(K, k)) \in Nat
<1>1. \A M \in SUBSET L : IsFiniteSet(M) /\ Cardinality(M) \in Nat
  BY FS_Subset, FS_CardinalityType DEF IsLog
<1>2. \A q : OfQuery(K, q) \in SUBSET L
  BY DEF OfQuery
<1>3. \A k : OfActor(K, k) \in SUBSET L
  BY DEF OfActor
<1> QED BY <1>1, <1>2, <1>3 DEF IsLog

\* A log entry has a slot.
LEMMA EntryParts ==
  ASSUME NEW L, IsLog(L), NEW r \in L
  PROVE  /\ r.query \in Query /\ r.actor \in Actor \cup {NoActor} /\ r.bucket \in Int
         /\ bucketIndex(r.bucket) \in Slots
<1>1. r.query \in Query /\ r.actor \in Actor \cup {NoActor} /\ r.bucket \in Int
  BY DEF IsLog, LogType
<1> QED BY <1>1, SlotOfBucket

LEMMA ExpireMirrors ==
  ASSUME NEW w \in WindowType, NEW L, IsLog(L), NEW c, NEW now \in Int, Mirrors(w, L, minBucketID(now), c)
  PROVE  LET e == ExpireAt(w, now) IN
         Mirrors(e, L, minBucketID(now), c) /\ Swept(e, minBucketID(now))
<1> DEFINE m == minBucketID(now)
           S == {i \in Slots : w.buckets[i].id < m}
           e == Drop(w, S)
<1>1. ExpireAt(w, now) = e /\ S \in SUBSET Slots
  BY DEF ExpireAt
<1>2. m \in Int /\ \A i \in Slots : w.buckets[i].id \in Int
  BY BucketIDType, ConfigAssumption DEF minBucketID, WindowType, BucketType
<1>3. \A i \in Slots : i \in S <=> w.buckets[i].id < m
  OBVIOUS
<1> HIDE DEF S, m
<1>4. /\ \A i \in S : /\ e.buckets[i].id = w.buckets[i].id
                      /\ e.buckets[i].counts = NoCounts
                      /\ e.buckets[i].actorCounts = NoActorCounts
      /\ \A i \in Slots \ S : e.buckets[i] = w.buckets[i]
  BY <1>1, DropBuckets
<1> HIDE DEF e
<1>5. \A i \in Slots : e.buckets[i].id = w.buckets[i].id
  BY <1>4
<1>6. Swept(e, m)
  BY <1>3, <1>4, <1>5 DEF Swept
<1>7. ASSUME NEW i \in Slots, e.buckets[i].id >= m PROVE Tallied(L, e.buckets[i], i)
  <2>1. i \notin S
    BY <1>2, <1>3, <1>5, <1>7
  <2>2. e.buckets[i] = w.buckets[i]
    BY <1>4, <2>1
  <2> QED BY <1>7, <2>2 DEF Mirrors, m
<1>8. \A i \in Slots : e.buckets[i].id <= c
  BY <1>5 DEF Mirrors
<1>9. \A r \in L : r.bucket <= c
  BY DEF Mirrors
<1>10. ASSUME NEW r \in L, r.bucket >= m PROVE e.buckets[bucketIndex(r.bucket)].id = r.bucket
  <2>1. w.buckets[bucketIndex(r.bucket)].id = r.bucket
    BY <1>10 DEF Mirrors, m
  <2>2. bucketIndex(r.bucket) \in Slots
    BY EntryParts
  <2> QED BY <1>5, <2>1, <2>2
<1> QED BY <1>1, <1>6, <1>7, <1>8, <1>9, <1>10 DEF Mirrors, m

\* What is left in the buckets after an expiry: the recent events, slot by slot.
LEMMA MirrorColumns ==
  ASSUME NEW w \in WindowType, NEW L, IsLog(L), NEW m \in Int, NEW c,
         Mirrors(w, L, m, c), Swept(w, m)
  PROVE  \A i \in Slots :
           LET here == {r \in Recent(L, m) : bucketIndex(r.bucket) = i} IN
           /\ \A q \in Query : w.buckets[i].counts[q] = Cardinality(OfQuery(here, q))
           /\ \A k \in ActorQueryKey : w.buckets[i].actorCounts[k] = Cardinality(OfActor(here, k))
<1> SUFFICES ASSUME NEW i \in Slots
             PROVE  LET here == {r \in Recent(L, m) : bucketIndex(r.bucket) = i} IN
                    /\ \A q \in Query : w.buckets[i].counts[q] = Cardinality(OfQuery(here, q))
                    /\ \A k \in ActorQueryKey :
                         w.buckets[i].actorCounts[k] = Cardinality(OfActor(here, k))
  OBVIOUS
<1> DEFINE here == {r \in Recent(L, m) : bucketIndex(r.bucket) = i}
           id == w.buckets[i].id
<1>1. id \in Int
  BY DEF WindowType, BucketType
<1>2. \A r \in here : r.bucket = id
  BY DEF Mirrors, Recent
<1>3. CASE id >= m
  <2>1. here = InSlot(L, i, id)
    BY <1>2, <1>3 DEF InSlot, Recent
  <2>2. Tallied(L, w.buckets[i], i)
    BY <1>3 DEF Mirrors
  <2> HIDE DEF here
  <2> QED BY <2>1, <2>2 DEF Tallied, here
<1>4. CASE id < m
  <2>1. here = {}
    BY <1>1, <1>2, <1>4, EntryParts DEF Recent
  <2>2. w.buckets[i].counts = NoCounts /\ w.buckets[i].actorCounts = NoActorCounts
    BY <1>4 DEF Swept
  <2>3. (\A q : OfQuery({}, q) = {}) /\ (\A k : OfActor({}, k) = {})
    BY DEF OfQuery, OfActor
  <2>4. /\ \A q \in Query : w.buckets[i].counts[q] = 0
        /\ \A k \in ActorQueryKey : w.buckets[i].actorCounts[k] = 0
    BY <2>2, NoCountsType
  <2> HIDE DEF here
  <2> QED BY <2>1, <2>3, <2>4, FS_EmptySet DEF here
<1> QED BY <1>1, <1>3, <1>4

\* So the running totals count the recent events.
LEMMA MirrorTotals ==
  ASSUME NEW w \in WindowType, Balanced(w), NEW L, IsLog(L), NEW m \in Int, NEW c,
         Mirrors(w, L, m, c), Swept(w, m)
  PROVE  /\ \A q \in Query : w.totals[q] = Cardinality(OfQuery(Recent(L, m), q))
         /\ \A k \in ActorQueryKey : w.actorTotals[k] = Cardinality(OfActor(Recent(L, m), k))
<1> DEFINE R == Recent(L, m)
<1>1. R \in SUBSET L
  BY DEF Recent
<1>0. \A i \in Slots :
        /\ \A q \in Query : w.buckets[i].counts[q]
                            = Cardinality(OfQuery({r \in R : bucketIndex(r.bucket) = i}, q))
        /\ \A k \in ActorQueryKey :
             w.buckets[i].actorCounts[k]
               = Cardinality(OfActor({r \in R : bucketIndex(r.bucket) = i}, k))
  BY MirrorColumns, Zenon
<1>2. ASSUME NEW S \in SUBSET R, NEW col \in [Slots -> Nat],
             \A i \in Slots : col[i] = Cardinality({r \in S : bucketIndex(r.bucket) = i})
      PROVE  Total(col, Slots) = Cardinality(S)
  <2> DEFINE f == [r \in S |-> bucketIndex(r.bucket)]
  <2>1. IsFiniteSet(S) /\ IsFiniteSet(Slots)
    BY <1>1, FS_Subset, SlotsFinite DEF IsLog
  <2>2. f \in [S -> Slots]
    BY <1>1, EntryParts
  <2>3. \A i \in Slots : col[i] = Cardinality({r \in S : f[r] = i})
    <3>1. \A i \in Slots : {r \in S : f[r] = i} = {r \in S : bucketIndex(r.bucket) = i}
      OBVIOUS
    <3> QED BY <1>2, <3>1
  <2> HIDE DEF f
  <2> QED BY <2>1, <2>2, <2>3, TotalOfParts
<1>3. ASSUME NEW q \in Query PROVE w.totals[q] = Cardinality(OfQuery(R, q))
  <2>1. w.totals[q] = Total(Column(w, q), Slots) /\ Column(w, q) \in [Slots -> Nat]
    BY ColumnType DEF Balanced, HeldIn, Column
  <2>2. \A i \in Slots :
          Column(w, q)[i] = Cardinality({r \in OfQuery(R, q) : bucketIndex(r.bucket) = i})
    <3>1. \A i \in Slots : OfQuery({r \in R : bucketIndex(r.bucket) = i}, q)
                            = {r \in OfQuery(R, q) : bucketIndex(r.bucket) = i}
      BY DEF OfQuery
    <3> HIDE DEF R
    <3> QED BY <1>0, <3>1 DEF Column
  <2>3. OfQuery(R, q) \in SUBSET R
    BY DEF OfQuery
  <2> HIDE DEF R
  <2> QED BY <1>2, <2>1, <2>2, <2>3
<1>4. ASSUME NEW k \in ActorQueryKey PROVE w.actorTotals[k] = Cardinality(OfActor(R, k))
  <2>1. w.actorTotals[k] = Total(ActorColumn(w, k), Slots) /\ ActorColumn(w, k) \in [Slots -> Nat]
    BY ColumnType DEF Balanced, ActorHeldIn, ActorColumn
  <2>2. \A i \in Slots :
          ActorColumn(w, k)[i] = Cardinality({r \in OfActor(R, k) : bucketIndex(r.bucket) = i})
    <3>1. \A i \in Slots : OfActor({r \in R : bucketIndex(r.bucket) = i}, k)
                            = {r \in OfActor(R, k) : bucketIndex(r.bucket) = i}
      BY DEF OfActor
    <3> HIDE DEF R
    <3> QED BY <1>0, <3>1 DEF ActorColumn
  <2>3. OfActor(R, k) \in SUBSET R
    BY DEF OfActor
  <2> HIDE DEF R
  <2> QED BY <1>2, <2>1, <2>2, <2>3
<1> QED BY <1>3, <1>4

\* ensureBucket of a bucket inside the window takes nothing away: what it
\* finds in the slot is that bucket, or empty.
LEMMA EnsureMirrors ==
  ASSUME NEW w \in WindowType, NEW L, IsLog(L), NEW m \in Int, NEW c \in Int,
         c - m <= BucketCount - 1, Mirrors(w, L, m, c), Swept(w, m),
         NEW id \in Int, m <= id, id <= c
  PROVE  LET t == ensureBucket(w, id) IN Mirrors(t, L, m, c)
<1> DEFINE t == ensureBucket(w, id)
           j == bucketIndex(id)
<1>1. /\ t \in WindowType
      /\ \A i \in Slots \ {j} : t.buckets[i] = w.buckets[i]
      /\ t.buckets[j].id = id
      /\ w.buckets[j].id = id => t.buckets[j] = w.buckets[j]
      /\ w.buckets[j].id # id =>
           t.buckets[j].counts = NoCounts /\ t.buckets[j].actorCounts = NoActorCounts
  BY EnsureBuckets
<1> HIDE DEF t
<1>2. j \in Slots
  BY SlotOfBucket
<1>3. \A r \in L : r.bucket <= c
  BY DEF Mirrors
<1>4. \A i \in Slots : t.buckets[i].id <= c
  BY <1>1 DEF Mirrors
<1>5. ASSUME NEW r \in L, r.bucket >= m, bucketIndex(r.bucket) = j PROVE r.bucket = id
  <2>1. r.bucket \in Int /\ r.bucket <= c /\ BucketCount \in Int
    BY <1>3, EntryParts, BucketCountPositive
  <2>2. r.bucket - id <= BucketCount - 1 /\ id - r.bucket <= BucketCount - 1
    BY <1>5, <2>1
  <2> QED BY <1>5, <2>1, <2>2, SlotDecides
<1>6. ASSUME NEW r \in L, r.bucket >= m PROVE t.buckets[bucketIndex(r.bucket)].id = r.bucket
  <2>1. w.buckets[bucketIndex(r.bucket)].id = r.bucket /\ bucketIndex(r.bucket) \in Slots
    BY <1>6, EntryParts DEF Mirrors
  <2>2. CASE bucketIndex(r.bucket) = j
    BY <1>1, <1>5, <1>6, <2>2
  <2>3. CASE bucketIndex(r.bucket) # j
    BY <1>1, <2>1, <2>3
  <2> QED BY <2>2, <2>3
<1>7. ASSUME NEW i \in Slots, t.buckets[i].id >= m PROVE Tallied(L, t.buckets[i], i)
  <2>1. CASE i # j \/ w.buckets[j].id = id
    BY <1>1, <1>7, <2>1 DEF Mirrors
  <2>2. CASE i = j /\ w.buckets[j].id # id
    <3>1. InSlot(L, j, id) = {}
      <4> SUFFICES ASSUME NEW r \in L, r.bucket = id, bucketIndex(r.bucket) = j PROVE FALSE
        BY DEF InSlot
      <4>1. w.buckets[bucketIndex(r.bucket)].id = r.bucket
        BY DEF Mirrors
      <4> QED BY <2>2, <4>1
    <3>2. (\A q : OfQuery({}, q) = {}) /\ (\A k : OfActor({}, k) = {})
      BY DEF OfQuery, OfActor
    <3>3. /\ \A q \in Query : t.buckets[j].counts[q] = 0
          /\ \A k \in ActorQueryKey : t.buckets[j].actorCounts[k] = 0
      BY <1>1, <2>2, NoCountsType
    <3>4. t.buckets[i].id = id
      BY <1>1, <2>2
    <3> HIDE DEF j
    <3> QED BY <2>2, <3>1, <3>2, <3>3, <3>4, FS_EmptySet DEF Tallied
  <2> QED BY <2>1, <2>2
<1> QED BY <1>3, <1>4, <1>6, <1>7 DEF Mirrors, t

\* An accepted event is one more in its bucket and one more in the log.
LEMMA CountMirrors ==
  ASSUME NEW w \in WindowType, NEW L, IsLog(L), NEW m \in Int, NEW c \in Int,
         Mirrors(w, L, m, c), NEW id \in Int, m <= id, id <= c,
         w.buckets[bucketIndex(id)].id = id,
         NEW event \in Event, event.query \in Query,
         NEW new \in LogType, new \notin L,
         new.query = event.query, new.actor = event.actor, new.bucket = id
  PROVE  Mirrors(Count(w, bucketIndex(id), event), L \cup {new}, m, c)
<1> DEFINE j == bucketIndex(id)
           v == Count(w, j, event)
           M == L \cup {new}
           k == <<event.query, event.actor>>
<1>1. j \in Slots
  BY SlotOfBucket
<1>2. HitOnce(w, v, j, event)
  BY <1>1, CountParts
<1>3. HitShows(w, v, j, event) /\ ActorHitShows(w, v, j, event)
  BY <1>1, <1>2, HitOnceShows
<1> HIDE DEF v
<1>4. /\ \A i \in Slots \ {j} : v.buckets[i] = w.buckets[i]
      /\ \A i \in Slots : v.buckets[i].id = w.buckets[i].id
  BY <1>2 DEF HitOnce
<1>5. \A r \in M : r.bucket <= c
  BY DEF Mirrors
<1>6. \A i \in Slots : v.buckets[i].id <= c
  BY <1>4 DEF Mirrors
<1>7. ASSUME NEW r \in M, r.bucket >= m PROVE v.buckets[bucketIndex(r.bucket)].id = r.bucket
  <2>1. CASE r \in L
    BY <1>4, <1>7, <2>1, EntryParts DEF Mirrors
  <2>2. CASE r = new
    BY <1>1, <1>4, <2>2
  <2> QED BY <2>1, <2>2
<1>8. ASSUME NEW i \in Slots, v.buckets[i].id >= m PROVE Tallied(M, v.buckets[i], i)
  <2>0. Tallied(L, w.buckets[i], i)
    BY <1>4, <1>8 DEF Mirrors
  <2>1. CASE i # j
    <3>1. InSlot(M, i, w.buckets[i].id) = InSlot(L, i, w.buckets[i].id)
      BY <2>1 DEF InSlot
    <3>2. v.buckets[i] = w.buckets[i]
      BY <1>4, <2>1
    <3> HIDE DEF M
    <3> QED BY <2>0, <3>1, <3>2 DEF Tallied
  <2>2. CASE i = j
    <3> DEFINE H == InSlot(L, j, id)
    <3>1. InSlot(M, j, id) = H \cup {new} /\ new \notin H /\ H \in SUBSET L
      BY DEF InSlot
    <3>2. ASSUME NEW q \in Query
          PROVE  v.buckets[j].counts[q] = Cardinality(OfQuery(H \cup {new}, q))
      <4>1. /\ w.buckets[j].counts[q] = Cardinality(OfQuery(H, q))
            /\ IsFiniteSet(OfQuery(H, q))
        BY <2>0, <2>2, <3>1, PartsFinite DEF Tallied
      <4>2. CASE q = event.query
        <5>1. OfQuery(H \cup {new}, q) = OfQuery(H, q) \cup {new} /\ new \notin OfQuery(H, q)
          BY <3>1, <4>2 DEF OfQuery
        <5>2. Cardinality(OfQuery(H \cup {new}, q)) = Cardinality(OfQuery(H, q)) + 1
          BY <4>1, <5>1, FS_AddElement
        <5> QED BY <1>3, <4>1, <4>2, <5>2 DEF HitShows
      <4>3. CASE q # event.query
        <5>1. OfQuery(H \cup {new}, q) = OfQuery(H, q)
          BY <4>3 DEF OfQuery
        <5> QED BY <1>3, <4>1, <4>3, <5>1 DEF HitShows
      <4> QED BY <4>2, <4>3
    <3>3. ASSUME NEW l \in ActorQueryKey
          PROVE  v.buckets[j].actorCounts[l] = Cardinality(OfActor(H \cup {new}, l))
      <4>1. /\ w.buckets[j].actorCounts[l] = Cardinality(OfActor(H, l))
            /\ IsFiniteSet(OfActor(H, l))
        BY <2>0, <2>2, <3>1, PartsFinite DEF Tallied
      <4>2. CASE event.actor # NoActor /\ l = k
        <5>1. OfActor(H \cup {new}, l) = OfActor(H, l) \cup {new} /\ new \notin OfActor(H, l)
          BY <3>1, <4>2 DEF OfActor
        <5>2. Cardinality(OfActor(H \cup {new}, l)) = Cardinality(OfActor(H, l)) + 1
          BY <4>1, <5>1, FS_AddElement
        <5> QED BY <1>3, <4>1, <4>2, <5>2 DEF ActorHitShows
      <4>3. CASE event.actor = NoActor \/ l # k
        <5>1. l # k
          BY <4>3, ConfigAssumption DEF ActorQueryKey
        <5>2. OfActor(H \cup {new}, l) = OfActor(H, l)
          BY <5>1 DEF OfActor
        <5> QED BY <1>3, <4>1, <4>3, <5>2 DEF ActorHitShows
      <4> QED BY <4>2, <4>3
    <3>4. v.buckets[i].id = id
      BY <1>1, <1>4, <2>2
    <3> HIDE DEF H, M, j
    <3> QED BY <2>2, <3>1, <3>2, <3>3, <3>4 DEF Tallied
  <2> QED BY <2>1, <2>2
<1> QED BY <1>5, <1>6, <1>7, <1>8 DEF Mirrors, v

-----------------------------------------------------------------------------
(* The answers *)

\* The keys and the sum of the totals are those of the recent events.
LEMMA MirrorGauges ==
  ASSUME NEW w \in WindowType, NEW R, IsLog(R),
         \A q \in Query : w.totals[q] = Cardinality(OfQuery(R, q)),
         \A k \in ActorQueryKey : w.actorTotals[k] = Cardinality(OfActor(R, k))
  PROVE  /\ Keys(w.totals) = {r.query : r \in R}
         /\ Keys(w.actorTotals) = {<<r.query, r.actor>> : r \in {s \in R : s.actor # NoActor}}
         /\ Total(w.totals, Query) = Cardinality(R)
<1>1. /\ \A q : IsFiniteSet(OfQuery(R, q))
      /\ \A k : IsFiniteSet(OfActor(R, k))
  BY PartsFinite
<1>2. Keys(w.totals) = {r.query : r \in R}
  <2>1. Keys(w.totals) = {q \in Query : w.totals[q] > 0}
    BY DEF Keys, WindowType
  <2>2. \A q \in Query : w.totals[q] > 0 <=> OfQuery(R, q) # {}
    BY <1>1, PositiveSize
  <2>3. \A q \in Query : OfQuery(R, q) # {} <=> \E r \in R : r.query = q
    BY DEF OfQuery
  <2> QED BY <2>1, <2>2, <2>3, EntryParts
<1>3. Keys(w.actorTotals) = {<<r.query, r.actor>> : r \in {s \in R : s.actor # NoActor}}
  <2>1. Keys(w.actorTotals) = {k \in ActorQueryKey : w.actorTotals[k] > 0}
    BY DEF Keys, WindowType
  <2>2. \A k \in ActorQueryKey : w.actorTotals[k] > 0 <=> OfActor(R, k) # {}
    BY <1>1, PositiveSize
  <2>3. \A k \in ActorQueryKey : OfActor(R, k) # {} <=> \E r \in R : <<r.query, r.actor>> = k
    BY DEF OfActor
  <2>4. \A r \in R : r.actor # NoActor <=> <<r.query, r.actor>> \in ActorQueryKey
    BY EntryParts, ConfigAssumption DEF ActorQueryKey
  <2> QED BY <2>1, <2>2, <2>3, <2>4
<1>4. Total(w.totals, Query) = Cardinality(R)
  <2> DEFINE f == [r \in R |-> r.query]
  <2>1. f \in [R -> Query]
    BY EntryParts
  <2>2. \A q \in Query : {r \in R : f[r] = q} = OfQuery(R, q)
    BY DEF OfQuery
  <2>3. \A q \in Query : w.totals[q] = Cardinality({r \in R : f[r] = q})
    BY <2>2
  <2> HIDE DEF f
  <2>4. IsFiniteSet(R) /\ IsFiniteSet(Query)
    BY ConfigAssumption DEF IsLog
  <2> QED BY <2>1, <2>3, <2>4, TotalOfParts
<1> QED BY <1>2, <1>3, <1>4

\* The queries of one bucket.
LEMMA MirrorBucketKeys ==
  ASSUME NEW w \in WindowType, NEW L, IsLog(L), NEW m \in Int, NEW c,
         Mirrors(w, L, m, c), NEW id \in Int, m <= id,
         w.buckets[bucketIndex(id)].id = id
  PROVE  Keys(w.buckets[bucketIndex(id)].counts) = {r.query : r \in {s \in L : s.bucket = id}}
<1> DEFINE j == bucketIndex(id)
           H == InSlot(L, j, id)
           counts == w.buckets[j].counts
<1>1. j \in Slots
  BY SlotOfBucket
<1>2. Tallied(L, w.buckets[j], j)
  BY <1>1 DEF Mirrors
<1>3. H = {s \in L : s.bucket = id} /\ H \in SUBSET L
  BY DEF InSlot
<1>4. \A q \in Query : counts[q] = Cardinality(OfQuery(H, q)) /\ IsFiniteSet(OfQuery(H, q))
  BY <1>2, <1>3, PartsFinite DEF Tallied
<1>5. Keys(counts) = {q \in Query : counts[q] > 0}
  BY <1>1 DEF Keys, WindowType, BucketType
<1> HIDE DEF H, counts
<1>6. \A q \in Query : counts[q] > 0 <=> OfQuery(H, q) # {}
  BY <1>4, PositiveSize
<1>7. \A q \in Query : OfQuery(H, q) # {} <=> \E r \in H : r.query = q
  BY DEF OfQuery
<1>8. Keys(counts) = {r.query : r \in H}
  <2>1. \A r \in H : r.query \in Query
    BY <1>3, EntryParts
  <2>2. \A q \in Query : counts[q] > 0 <=> \E r \in H : r.query = q
    BY <1>6, <1>7
  <2> QED BY <1>5, <2>1, <2>2
<1> QED BY <1>3, <1>8 DEF counts

-----------------------------------------------------------------------------
(* Shard and SlidingWindow speak of the same calls *)

LEMMA SameSize == \A S : Promise!Cardinality(S) = Cardinality(S)
BY Zenon DEF Promise!Cardinality, Cardinality

LEMMA SameTime ==
  /\ \A ts : Promise!bucketID(ts) = bucketID(ts)
  /\ \A now : Promise!minBucketID(now) = minBucketID(now)
  /\ \A event, now : Promise!EventTime(event, now) = EventTime(event, now)
BY DEF Promise!bucketID, Promise!Quotient, Promise!UnixNano, bucketID, Quotient, UnixNano,
       Promise!minBucketID, minBucketID, Promise!EventTime, EventTime

LEMMA SameCalls ==
  /\ CallsInit <=> Promise!CallsInit
  /\ Tick <=> Promise!Tick
  /\ \A p : Begin(p) <=> Promise!Begin(p)
  /\ \A p, reason : AddReturns(p, reason) <=> Promise!AddReturns(p, reason)
  /\ \A p, answer : ReadReturns(p, answer) <=> Promise!ReadReturns(p, answer)
<1>1. CallsInit <=> Promise!CallsInit
  BY DEF CallsInit, Promise!CallsInit, Idle, Promise!Idle
<1>2. Tick <=> Promise!Tick
  BY SameTime DEF Tick, Promise!Tick, Idle, Promise!Idle
<1>3. \A p : Begin(p) <=> Promise!Begin(p)
  BY SameSize DEF Begin, Promise!Begin, BeginAdd, Promise!BeginAdd, BeginTop, Promise!BeginTop,
         BeginGauge, Promise!BeginGauge, Idle, Promise!Idle, Room, Promise!Room,
         Arrival, Promise!Arrival
<1>4. \A event, id : Logged(event, id) = Promise!Logged(event, id)
  BY SameSize DEF Logged, Promise!Logged
<1>5. \A p, reason : AddReturns(p, reason) <=> Promise!AddReturns(p, reason)
  BY <1>4, SameTime DEF AddReturns, Promise!AddReturns, Idle, Promise!Idle
<1>6. \A p, answer : ReadReturns(p, answer) <=> Promise!ReadReturns(p, answer)
  BY DEF ReadReturns, Promise!ReadReturns, Idle, Promise!Idle
<1> QED BY <1>1, <1>2, <1>3, <1>5, <1>6

LEMMA SameHits ==
  ASSUME NEW now
  PROVE  LET R == Recent(log, minBucketID(now)) IN
         /\ Promise!Live(now) = R
         /\ \A q : Promise!Hits(now, q) = Cardinality(OfQuery(R, q))
         /\ \A q, a : Promise!ActorHits(now, q, a) = Cardinality(OfActor(R, <<q, a>>))
<1> DEFINE R == Recent(log, minBucketID(now))
<1>1. Promise!Live(now) = R
  BY SameTime DEF Promise!Live, Recent
<1> HIDE DEF R
<1>2. \A q : Promise!Hits(now, q) = Cardinality(OfQuery(R, q))
  BY <1>1, SameSize DEF Promise!Hits, OfQuery
<1>3. ASSUME NEW q, NEW a PROVE Promise!ActorHits(now, q, a) = Cardinality(OfActor(R, <<q, a>>))
  <2>1. {r \in R : r.query = q /\ r.actor = a} = OfActor(R, <<q, a>>)
    BY DEF OfActor
  <2> QED BY <1>1, <2>1, SameSize DEF Promise!ActorHits
<1> QED BY <1>1, <1>2, <1>3 DEF R

-----------------------------------------------------------------------------
(* The refinement *)

\* The instants of a run, and the window before it, lie after the epoch, and
\* they and the events that are presented in the range of UnixNano.
InRange ==
  /\ WindowSize <= StartClock /\ StartClock <= MaxClock /\ MaxClock < Int64Half
  /\ \A d \in Offset : -Int64Half <= StartClock + d

\* Moreover no call waits across a bucket boundary.
Timely == MaxLag = 0 /\ InRange

\* A waiting call has read the clock of this run, and its event is in range.
CallKnown(c) ==
  /\ c.now \in StartClock..clock
  /\ c.op = "add" => -Int64Half <= c.event.occurredAt

Known ==
  /\ clock \in StartClock..MaxClock
  /\ \A p \in Proc : call[p] # Idle => CallKnown(call[p])

\* It sees the window of the present time.
Prompt == \A p \in Proc : call[p] # Idle => bucketID(call[p].now) = bucketID(clock)

MirrorInv == Known /\ Prompt /\ Mirrors(win, log, minBucketID(clock), bucketID(clock))

\* The window at a timely instant.
LEMMA PresentTime ==
  ASSUME InRange, NEW now \in StartClock..MaxClock
  PROVE  /\ now \in Nat /\ now < Int64Half
         /\ bucketID(now) \in Nat /\ minBucketID(now) \in Int
         /\ minBucketID(now) = bucketID(now) - (BucketCount - 1)
<1>1. WindowSize \in Nat /\ Int64Half \in Nat /\ StartClock \in Int /\ MaxClock \in Int
  BY ConfigAssumption, CallsAssumption
<1>2. now \in Nat /\ now < Int64Half /\ WindowSize <= now
  BY <1>1 DEF InRange
<1>3. bucketID(now) \in Nat
  BY <1>2, BucketOfInstant
<1>4. minBucketID(now) = bucketID(now) - (BucketCount - 1)
  BY <1>2, WindowSpan
<1> QED BY <1>2, <1>3, <1>4, BucketCountPositive

\* Time only lets buckets go.
LEMMA LaterMirrors ==
  ASSUME NEW w \in WindowType, NEW L, IsLog(L),
         NEW m \in Int, NEW c \in Int, NEW n \in Int, NEW d \in Int, m <= n, c <= d,
         Mirrors(w, L, m, c)
  PROVE  Mirrors(w, L, n, d)
<1>1. \A r \in L : r.bucket \in Int
  BY EntryParts
<1>2. \A i \in Slots : w.buckets[i].id \in Int
  BY DEF WindowType, BucketType
<1> QED BY <1>1, <1>2 DEF Mirrors

LEMMA InitMirrors == ASSUME Timely, Init PROVE MirrorInv
<1>1. clock = StartClock /\ log = {} /\ win = NewWindow /\ call = [p \in Proc |-> Idle]
  BY DEF Init, CallsInit
<1>2. clock \in StartClock..MaxClock
  BY <1>1, CallsAssumption DEF Timely, InRange
<1>3. Known /\ Prompt
  BY <1>1, <1>2 DEF Known, Prompt
<1>4. bucketID(clock) \in Nat
  BY <1>2, PresentTime DEF Timely
<1>5. ASSUME NEW i \in Slots PROVE win.buckets[i].id <= bucketID(clock) /\ Tallied(log, win.buckets[i], i)
  <2>1. /\ win.buckets[i].id = 0 /\ win.buckets[i].counts = NoCounts
        /\ win.buckets[i].actorCounts = NoActorCounts
    BY <1>1 DEF NewWindow, EmptyBucket
  <2>2. \A id : InSlot(log, i, id) = {}
    BY <1>1 DEF InSlot
  <2>3. (\A q : OfQuery({}, q) = {}) /\ (\A k : OfActor({}, k) = {})
    BY DEF OfQuery, OfActor
  <2>4. /\ \A q \in Query : win.buckets[i].counts[q] = 0
        /\ \A k \in ActorQueryKey : win.buckets[i].actorCounts[k] = 0
    BY <2>1, NoCountsType
  <2>5. Tallied(log, win.buckets[i], i)
    BY <2>2, <2>3, <2>4, FS_EmptySet DEF Tallied
  <2> QED BY <1>4, <2>1, <2>5
<1>6. Mirrors(win, log, minBucketID(clock), bucketID(clock))
  BY <1>1, <1>5 DEF Mirrors
<1> QED BY <1>3, <1>6 DEF MirrorInv

\* The window a call finds: e, the window after its expiry.
LEMMA FoundWindow ==
  ASSUME Timely, Inv, MirrorInv, NEW p \in Proc, call[p] # Idle, call[p].now \in Int
  PROVE  LET now == call[p].now
             e == ExpireAt(win, now)
             m == minBucketID(now)
             c == bucketID(now)
         IN /\ now \in Nat /\ now < Int64Half
            /\ m \in Int /\ c \in Int /\ c - m = BucketCount - 1
            /\ m = minBucketID(clock) /\ c = bucketID(clock)
            /\ IsLog(log) /\ Sound(e)
            /\ Mirrors(win, log, m, c) /\ Mirrors(e, log, m, c) /\ Swept(e, m)
<1> DEFINE now == call[p].now
           m == minBucketID(now)
           c == bucketID(now)
<1>1. clock \in StartClock..MaxClock /\ CallKnown(call[p])
  BY DEF MirrorInv, Known
<1>2. now \in StartClock..MaxClock /\ c = bucketID(clock)
  BY <1>1, CallsAssumption DEF CallKnown, MirrorInv, Prompt
<1>3. /\ now \in Nat /\ now < Int64Half /\ m \in Int /\ c \in Int
      /\ m = c - (BucketCount - 1) /\ minBucketID(clock) = bucketID(clock) - (BucketCount - 1)
  BY <1>1, <1>2, PresentTime DEF Timely
<1>4. m = minBucketID(clock) /\ c - m = BucketCount - 1
  BY <1>2, <1>3, BucketCountPositive
<1>5. IsLog(log) /\ win \in WindowType /\ Sound(win)
  BY DEF Inv, CallsTyped, IsLog, Sound
<1>6. Mirrors(win, log, m, c)
  BY <1>2, <1>4 DEF MirrorInv
<1>7. Sound(ExpireAt(win, now))
  BY <1>5, ExpireAtSound
<1>8. Mirrors(ExpireAt(win, now), log, m, c) /\ Swept(ExpireAt(win, now), m)
  BY <1>5, <1>6, ExpireMirrors
<1> QED BY <1>2, <1>3, <1>4, <1>5, <1>6, <1>7, <1>8

\* An add finds its event in no bucket after that of its now.
LEMMA AddKnown ==
  ASSUME InRange, Inv, Known, NEW p \in Proc, call[p].op = "add"
  PROVE  LET now == call[p].now
             event == call[p].event
         IN /\ call[p] # Idle /\ event \in Event /\ now \in StartClock..MaxClock
            /\ EventTime(event, now) \in Int /\ -Int64Half <= EventTime(event, now)
            /\ EventTime(event, now) <= now
            /\ Target(event, now) \in Int /\ Target(event, now) <= bucketID(now)
<1> DEFINE now == call[p].now
           event == call[p].event
<1>1. call[p] # Idle
  BY DEF Idle
<1>2. event \in Event /\ now \in Int
  BY CallParts DEF Inv, CallsTyped
<1>3. CallKnown(call[p]) /\ clock \in StartClock..MaxClock
  BY <1>1 DEF Known
<1>4. now \in StartClock..MaxClock
  BY <1>3, CallsAssumption DEF CallKnown
<1>5. now \in Nat /\ now < Int64Half
  BY <1>4, PresentTime
<1>6. -Int64Half <= event.occurredAt
  BY <1>3 DEF CallKnown
<1>7. event.occurredAt \in Int /\ Int64Half \in Nat
  BY <1>2, ConfigAssumption DEF Event
<1>8. /\ EventTime(event, now) \in Int /\ -Int64Half <= EventTime(event, now)
      /\ EventTime(event, now) <= now
  BY <1>5, <1>6, <1>7 DEF EventTime
<1>9. Target(event, now) <= bucketID(now)
  BY <1>5, <1>8, BucketMonotone DEF Target
<1>10. Target(event, now) \in Int
  BY <1>8, BucketIDType DEF Target
<1> QED BY <1>1, <1>2, <1>4, <1>8, <1>9, <1>10

\* What a call becomes when it begins and when it returns.
LEMMA CallBecomes ==
  ASSUME InRange, Inv, Known, NEW p \in Proc,
         \/ Begin(p)
         \/ \E reason : call[p].op = "add" /\ AddReturns(p, reason)
         \/ \E answer : ReadReturns(p, answer)
  PROVE  /\ clock' = clock
         /\ \E new : /\ call' = [call EXCEPT ![p] = new]
                     /\ \/ new = Idle
                        \/ CallKnown(new) /\ (new.now = clock \/ (call[p] # Idle /\ new.now = call[p].now))
<1>1. clock \in StartClock..MaxClock /\ clock \in StartClock..clock
  BY CallsAssumption DEF Known
<1>2. CASE BeginAdd(p)
  <2>1. PICK event \in Arrival(clock) :
          call' = [call EXCEPT ![p] = [op |-> "add", event |-> event, now |-> clock]]
    BY <1>2 DEF BeginAdd
  <2>2. PICK d \in Offset : event.occurredAt = clock + d
    BY DEF Arrival
  <2>3. -Int64Half <= event.occurredAt
    BY <1>1, <2>2, CallsAssumption, ConfigAssumption DEF InRange
  <2> DEFINE new == [op |-> "add", event |-> event, now |-> clock]
  <2>4. new.now = clock /\ new.event = event /\ call' = [call EXCEPT ![p] = new]
    BY <2>1
  <2>5. CallKnown(new)
    BY <1>1, <2>3, <2>4, Zenon DEF CallKnown
  <2>6. clock' = clock
    BY <1>2 DEF BeginAdd
  <2> HIDE DEF new
  <2> QED BY <2>4, <2>5, <2>6
<1>3. CASE BeginTop(p)
  <2>1. PICK included \in SUBSET Query :
          call' = [call EXCEPT ![p] = [op |-> "top", included |-> included, now |-> clock]]
    BY <1>3 DEF BeginTop
  <2> DEFINE new == [op |-> "top", included |-> included, now |-> clock]
  <2>2. new.now = clock /\ new.op # "add" /\ call' = [call EXCEPT ![p] = new]
    BY <2>1
  <2>3. CallKnown(new)
    BY <1>1, <2>2, Zenon DEF CallKnown
  <2>4. clock' = clock
    BY <1>3 DEF BeginTop
  <2> HIDE DEF new
  <2> QED BY <2>2, <2>3, <2>4
<1>4. CASE BeginGauge(p)
  <2>1. PICK op \in {"unique", "actors", "events"} :
          call' = [call EXCEPT ![p] = [op |-> op, now |-> clock]]
    BY <1>4 DEF BeginGauge
  <2> DEFINE new == [op |-> op, now |-> clock]
  <2>2. new.now = clock /\ new.op # "add" /\ call' = [call EXCEPT ![p] = new]
    BY <2>1
  <2>3. CallKnown(new)
    BY <1>1, <2>2, Zenon DEF CallKnown
  <2>4. clock' = clock
    BY <1>4 DEF BeginGauge
  <2> HIDE DEF new
  <2> QED BY <2>2, <2>3, <2>4
<1>5. ASSUME NEW reason, call[p].op = "add", AddReturns(p, reason)
      PROVE  /\ clock' = clock
             /\ \E new : /\ call' = [call EXCEPT ![p] = new]
                         /\ \/ new = Idle
                            \/ CallKnown(new) /\ call[p] # Idle /\ new.now = call[p].now
  <2>1. call[p] # Idle
    BY <1>5 DEF Idle
  <2>2. CASE reason = "none"
    <3> DEFINE new == [op |-> "count", query |-> call[p].event.query, now |-> call[p].now]
    <3>1. call' = [call EXCEPT ![p] = new] /\ clock' = clock
      BY <1>5, <2>2 DEF AddReturns
    <3>2. new.now = call[p].now /\ new.op # "add"
      OBVIOUS
    <3>3. CallKnown(new)
      BY <2>1, <3>2, Zenon DEF Known, CallKnown
    <3> HIDE DEF new
    <3> QED BY <2>1, <3>1, <3>2, <3>3
  <2>3. CASE reason # "none"
    BY <1>5, <2>3 DEF AddReturns
  <2> QED BY <2>2, <2>3
<1>6. ASSUME NEW answer, ReadReturns(p, answer)
      PROVE  clock' = clock /\ call' = [call EXCEPT ![p] = Idle]
  BY <1>6 DEF ReadReturns
<1> QED BY <1>2, <1>3, <1>4, <1>5, <1>6 DEF Begin

LEMMA CallKnownPrompt ==
  ASSUME InRange, Inv, Known, NEW p \in Proc,
         \/ Begin(p)
         \/ \E reason : call[p].op = "add" /\ AddReturns(p, reason)
         \/ \E answer : ReadReturns(p, answer)
  PROVE  Known' /\ (Prompt => Prompt')
<1>1. clock' = clock
  BY CallBecomes
<1>2. PICK new : /\ call' = [call EXCEPT ![p] = new]
                 /\ \/ new = Idle
                    \/ CallKnown(new) /\ (new.now = clock \/ (call[p] # Idle /\ new.now = call[p].now))
  BY CallBecomes
<1>3. call'[p] = new /\ \A q \in Proc \ {p} : call'[q] = call[q]
  BY <1>2 DEF Inv, CallsTyped
<1>4. Known'
  BY <1>1, <1>2, <1>3 DEF Known, CallKnown
<1>5. ASSUME Prompt PROVE Prompt'
  BY <1>1, <1>2, <1>3, <1>5 DEF Prompt
<1> QED BY <1>4, <1>5

LEMMA AddMirrors ==
  ASSUME Timely, Inv, BucketInv, MirrorInv, NEW p \in Proc, Add(p)
  PROVE  MirrorInv'
<1> DEFINE now == call[p].now
           event == call[p].event
           id == Target(event, now)
           m == minBucketID(now)
           c == bucketID(now)
           j == bucketIndex(id)
           e == ExpireAt(win, now)
           t == ensureBucket(e, id)
           r == AddAt(win, event, now)
<1>1. /\ call[p].op = "add" /\ win' = r.win /\ AddReturns(p, r.reason)
  BY DEF Add
<1>2. /\ call[p] # Idle /\ event \in Event /\ now \in Int
      /\ id \in Int /\ id <= c
  BY <1>1, AddKnown, CallsAssumption DEF Timely, MirrorInv
<1>3. /\ m \in Int /\ c \in Int /\ c - m = BucketCount - 1
      /\ m = minBucketID(clock) /\ c = bucketID(clock)
      /\ IsLog(log) /\ Sound(e) /\ e \in WindowType
      /\ Mirrors(win, log, m, c) /\ Mirrors(e, log, m, c) /\ Swept(e, m)
  BY <1>2, FoundWindow DEF Sound
<1>4. win \in WindowType /\ call \in [Proc -> CallType] /\ Numbered(log)
  BY DEF Inv, Sound, CallsTyped, BucketInv
<1>5. \/ r.reason # "none" /\ r.win \in {win, e}
      \/ r.reason # "none" /\ r.win = t /\ id >= m
      \/ r.reason = "none" /\ event.query \in Query /\ r.win = Count(t, j, event) /\ id >= m
  BY <1>2, <1>4, AddAtCases
<1>6. clock' = clock
  BY <1>1 DEF AddReturns
<1>7. Known' /\ Prompt'
  <2>1. \E reason : call[p].op = "add" /\ AddReturns(p, reason)
    BY <1>1
  <2> QED BY <2>1, CallKnownPrompt DEF Timely, MirrorInv
<1>8. r.reason # "none" => log' = log
  BY <1>1 DEF AddReturns
<1>9. r.reason = "none" => log' = Logged(event, id)
  BY <1>1 DEF AddReturns, Target
<1>10. BucketCount \in Int
  BY BucketCountPositive
<1> HIDE DEF r, e, m, c, id, now, event
<1>11. id >= m => /\ Mirrors(t, log, m, c) /\ t \in WindowType
                  /\ t.buckets[j].id = id
  <2> SUFFICES ASSUME id >= m
               PROVE  Mirrors(t, log, m, c) /\ t \in WindowType /\ t.buckets[j].id = id
    OBVIOUS
  <2>1. c - m <= BucketCount - 1
    BY <1>3, <1>10
  <2>2. Mirrors(t, log, m, c)
    BY <1>2, <1>3, <2>1, EnsureMirrors
  <2> QED BY <1>2, <1>3, <2>2, EnsureBuckets
<1> HIDE DEF t
<1>12. Mirrors(win', log', m, c)
  <2>1. CASE r.reason # "none" /\ r.win \in {win, e}
    BY <1>1, <1>3, <1>8, <2>1 DEF r
  <2>2. CASE r.reason # "none" /\ r.win = t /\ id >= m
    BY <1>1, <1>8, <1>11, <2>2 DEF r
  <2>3. CASE r.reason = "none" /\ event.query \in Query /\ r.win = Count(t, j, event) /\ id >= m
    <3>1. log \subseteq LogType /\ IsFiniteSet(log)
      BY <1>3 DEF IsLog
    <3>2. PICK new \in LogType \ log :
            /\ log' = log \cup {new}
            /\ new.query = event.query /\ new.actor = event.actor /\ new.bucket = id
      BY <1>2, <1>4, <1>9, <2>3, <3>1, LoggedNew
    <3>3. Mirrors(Count(t, j, event), log \cup {new}, m, c)
      <4>1. m <= id
        BY <1>2, <1>3, <2>3
      <4> QED BY <1>2, <1>3, <1>11, <2>3, <3>2, <4>1, CountMirrors
    <3> QED BY <1>1, <2>3, <3>2, <3>3 DEF r
  <2> QED BY <1>5, <2>1, <2>2, <2>3
<1>13. m = minBucketID(clock') /\ c = bucketID(clock')
  BY <1>3, <1>6
<1> QED BY <1>7, <1>12, <1>13 DEF MirrorInv

LEMMA InitKnown == ASSUME InRange, Init PROVE Known
BY CallsAssumption DEF Init, CallsInit, InRange, Known

LEMMA NextKnown ==
  ASSUME InRange, Inv, Known, [Next]_vars
  PROVE  Known'
<1>1. CASE Tick /\ UNCHANGED win
  <2>1. /\ clock' = clock + 1 /\ clock < MaxClock /\ call' = call
    BY <1>1 DEF Tick
  <2>2. clock' \in StartClock..MaxClock /\ \A t \in StartClock..clock : t \in StartClock..clock'
    BY <2>1, CallsAssumption DEF Known
  <2> QED BY <2>1, <2>2 DEF Known, CallKnown
<1>2. ASSUME NEW p \in Proc, Begin(p) PROVE Known'
  BY <1>2, CallKnownPrompt
<1>3. ASSUME NEW p \in Proc, Add(p) PROVE Known'
  <2>1. \E reason : call[p].op = "add" /\ AddReturns(p, reason)
    BY <1>3 DEF Add
  <2> QED BY <2>1, CallKnownPrompt
<1>4. ASSUME NEW p \in Proc, NEW answer, ReadReturns(p, answer) PROVE Known'
  BY <1>4, CallKnownPrompt
<1>5. ASSUME NEW p \in Proc,
             \/ CountQuery(p) \/ Top(p) \/ UniqueQueries(p) \/ ActorCounters(p)
             \/ WindowEvents(p)
      PROVE  Known'
  BY <1>4, <1>5 DEF CountQuery, Top, UniqueQueries, ActorCounters, WindowEvents
<1>6. CASE UNCHANGED vars
  BY <1>6 DEF Known, CallKnown, vars
<1> QED BY <1>1, <1>2, <1>3, <1>5, <1>6 DEF Next, Locked

LEMMA NextMirrors ==
  ASSUME Timely, Inv, BucketInv, MirrorInv, [Next]_vars
  PROVE  MirrorInv'
<1>0. InRange /\ Known /\ Known'
  BY NextKnown DEF Timely, MirrorInv
<1>1. CASE Tick /\ UNCHANGED win
  <2>1. /\ clock' = clock + 1 /\ clock < MaxClock /\ call' = call /\ log' = log /\ win' = win
        /\ \A p \in Proc : call[p] # Idle => bucketID(clock + 1) - bucketID(call[p].now) <= 0
    BY <1>1 DEF Tick, Timely
  <2>2. clock \in StartClock..MaxClock /\ clock' \in StartClock..MaxClock
    BY <1>0 DEF Known
  <2>3. /\ clock \in Nat /\ clock' \in Nat /\ clock' < Int64Half
        /\ bucketID(clock) \in Nat /\ bucketID(clock') \in Nat
        /\ minBucketID(clock) \in Int /\ minBucketID(clock') \in Int
        /\ minBucketID(clock) = bucketID(clock) - (BucketCount - 1)
        /\ minBucketID(clock') = bucketID(clock') - (BucketCount - 1)
    BY <1>0, <2>2, PresentTime
  <2>4. bucketID(clock) <= bucketID(clock')
    BY <2>1, <2>3, BucketMonotone, ConfigAssumption
  <2>5. minBucketID(clock) <= minBucketID(clock')
    BY <2>3, <2>4, BucketCountPositive
  <2>6. Mirrors(win, log, minBucketID(clock'), bucketID(clock'))
    <3>1. win \in WindowType /\ IsLog(log)
      BY DEF Inv, Sound, CallsTyped, IsLog
    <3>2. bucketID(clock) \in Int /\ bucketID(clock') \in Int
      BY <2>3
    <3> QED BY <2>3, <2>4, <2>5, <3>1, <3>2, LaterMirrors DEF MirrorInv
  <2>7. Prompt'
    <3> SUFFICES ASSUME NEW p \in Proc, call[p] # Idle
                 PROVE  bucketID(call[p].now) = bucketID(clock')
      BY <2>1 DEF Prompt
    <3>1. bucketID(call[p].now) = bucketID(clock)
      BY DEF MirrorInv, Prompt
    <3>2. bucketID(clock') - bucketID(call[p].now) <= 0
      BY <2>1
    <3> QED BY <2>3, <2>4, <3>1, <3>2
  <2> QED BY <1>0, <2>1, <2>6, <2>7 DEF MirrorInv
<1>2. ASSUME NEW p \in Proc, Begin(p) /\ UNCHANGED win PROVE MirrorInv'
  <2>1. clock' = clock /\ log' = log /\ win' = win
    BY <1>2 DEF Begin, BeginAdd, BeginTop, BeginGauge
  <2>2. Known' /\ Prompt'
    BY <1>0, <1>2, CallKnownPrompt DEF MirrorInv
  <2> QED BY <2>1, <2>2 DEF MirrorInv
<1>3. ASSUME NEW p \in Proc, Add(p) PROVE MirrorInv'
  BY <1>3, AddMirrors
<1>4. ASSUME NEW p \in Proc, NEW answer, Expiring(p), ReadReturns(p, answer),
             call[p].op \in {"count", "top", "unique", "actors", "events"}
      PROVE  MirrorInv'
  <2>1. call[p].now \in Int /\ call[p] # Idle
    BY <1>4, CallParts DEF Inv, CallsTyped, Idle
  <2>2. clock' = clock /\ log' = log
    BY <1>4 DEF ReadReturns
  <2>3. Known' /\ Prompt'
    BY <1>0, <1>4, CallKnownPrompt DEF MirrorInv
  <2>4. Mirrors(win', log, minBucketID(clock), bucketID(clock))
    BY <1>4, <2>1, FoundWindow DEF Expiring
  <2> QED BY <2>2, <2>3, <2>4 DEF MirrorInv
<1>5. ASSUME NEW p \in Proc,
             \/ CountQuery(p) \/ Top(p) \/ UniqueQueries(p) \/ ActorCounters(p)
             \/ WindowEvents(p)
      PROVE  MirrorInv'
  BY <1>4, <1>5 DEF CountQuery, Top, UniqueQueries, ActorCounters, WindowEvents
<1>6. CASE UNCHANGED vars
  BY <1>6 DEF MirrorInv, Known, Prompt, CallKnown, vars
<1> QED BY <1>1, <1>2, <1>3, <1>5, <1>6 DEF Next, Locked

\* What the window a call finds has counted, after its expiry, is what
\* SlidingWindow counts in the log.
LEMMA FoundCounts ==
  ASSUME Timely, Inv, MirrorInv, NEW p \in Proc, call[p] # Idle, call[p].now \in Int
  PROVE  LET now == call[p].now
             e == ExpireAt(win, now)
             live == Promise!Live(now)
         IN /\ \A q \in Query : e.totals[q] = Promise!Hits(now, q)
            /\ \A q \in Query, a \in Actor : e.actorTotals[<<q, a>>] = Promise!ActorHits(now, q, a)
            /\ Keys(e.totals) = Promise!Distinct(live)
            /\ Keys(e.actorTotals) = Promise!ActorKeys(live)
            /\ Total(e.totals, Query) = Cardinality(live)
<1> DEFINE now == call[p].now
           e == ExpireAt(win, now)
           m == minBucketID(now)
           R == Recent(log, m)
<1>1. /\ m \in Int /\ IsLog(log) /\ e \in WindowType /\ Balanced(e)
      /\ Mirrors(e, log, m, bucketID(now)) /\ Swept(e, m)
  BY FoundWindow DEF Sound
<1>2. /\ Promise!Live(now) = R
      /\ \A q : Promise!Hits(now, q) = Cardinality(OfQuery(R, q))
      /\ \A q, a : Promise!ActorHits(now, q, a) = Cardinality(OfActor(R, <<q, a>>))
  BY SameHits
<1> HIDE DEF e, m, now
<1>3. /\ \A q \in Query : e.totals[q] = Cardinality(OfQuery(R, q))
      /\ \A k \in ActorQueryKey : e.actorTotals[k] = Cardinality(OfActor(R, k))
  BY <1>1, MirrorTotals
<1>4. IsLog(R)
  <2>1. R \in SUBSET log
    BY DEF Recent
  <2> QED BY <1>1, <2>1, PartsFinite
<1> HIDE DEF R
<1>5. /\ Keys(e.totals) = {r.query : r \in R}
      /\ Keys(e.actorTotals) = {<<r.query, r.actor>> : r \in {s \in R : s.actor # NoActor}}
      /\ Total(e.totals, Query) = Cardinality(R)
  BY <1>1, <1>3, <1>4, MirrorGauges
<1>6. \A q \in Query, a \in Actor : <<q, a>> \in ActorQueryKey
  BY DEF ActorQueryKey
<1>7. \A q \in Query : e.totals[q] = Promise!Hits(now, q)
  BY <1>2, <1>3
<1>8. \A q \in Query, a \in Actor : e.actorTotals[<<q, a>>] = Promise!ActorHits(now, q, a)
  BY <1>2, <1>3, <1>6
<1>9. Keys(e.totals) = Promise!Distinct(R) /\ Keys(e.actorTotals) = Promise!ActorKeys(R)
  BY <1>5 DEF Promise!Distinct, Promise!ActorKeys
<1> QED BY <1>2, <1>5, <1>7, <1>8, <1>9 DEF e, now

\* AddAt decides as SlidingWindow does.
LEMMA VerdictRight ==
  ASSUME Timely, Inv, MirrorInv, NEW p \in Proc, call[p].op = "add"
  PROVE  AddAt(win, call[p].event, call[p].now).reason = Promise!Verdict(call[p].event, call[p].now)
<1> DEFINE now == call[p].now
           event == call[p].event
           id == Target(event, now)
           m == minBucketID(now)
           c == bucketID(now)
           j == bucketIndex(id)
           e == ExpireAt(win, now)
           t == ensureBucket(e, id)
           live == Promise!Live(now)
<1>1. /\ call[p] # Idle /\ event \in Event /\ now \in Int
      /\ id \in Int /\ id <= c
  BY AddKnown, CallsAssumption DEF Timely, MirrorInv
<1>2. /\ m \in Int /\ c \in Int /\ c - m = BucketCount - 1
      /\ IsLog(log) /\ e \in WindowType
      /\ Mirrors(e, log, m, c) /\ Swept(e, m)
  BY <1>1, FoundWindow DEF Sound
<1>3. /\ \A q \in Query : e.totals[q] = Promise!Hits(now, q)
      /\ \A q \in Query, a \in Actor : e.actorTotals[<<q, a>>] = Promise!ActorHits(now, q, a)
      /\ Keys(e.totals) = Promise!Distinct(live)
  BY <1>1, FoundCounts
<1>4. live = Recent(log, m)
  BY SameHits
<1>5. id = Promise!bucketID(Promise!EventTime(event, now)) /\ m = Promise!minBucketID(now)
  BY SameTime DEF Target
<1>6. CASE event.query = NoQuery
  BY <1>6 DEF AddAt, Reject, Promise!Verdict
<1>7. CASE event.query # NoQuery /\ event.occurredAt > now + MaxFutureSkew
  BY <1>7 DEF AddAt, Reject, Promise!Verdict
<1>8. CASE event.query # NoQuery /\ ~ (event.occurredAt > now + MaxFutureSkew)
  <2> DEFINE r == AddExpired(e, event, now)
             v == Promise!Verdict(event, now)
  <2>1. event.query \in Query /\ AddAt(win, event, now) = r
    BY <1>1, <1>8 DEF AddAt, Event
  <2>2. OverActorLimit(e, event) <=>
          event.actor # NoActor
            /\ Promise!ActorHits(now, event.query, event.actor) >= PerActorQueryLimit
    <3>1. event.actor \in Actor \cup {NoActor}
      BY <1>1 DEF Event
    <3> HIDE DEF e, event, now
    <3> QED BY <1>3, <2>1, <3>1 DEF OverActorLimit
  <2>3. NoRoomFor(e.totals, event.query, MaxUniqueQueries)
          <=> Promise!Full(live, event.query, MaxUniqueQueries)
    <3>1. e.totals[event.query] = 0 <=> event.query \notin Keys(e.totals)
      <4> HIDE DEF e, event
      <4> QED BY <1>2, <2>1 DEF Keys, WindowType
    <3> HIDE DEF e, event, live
    <3> QED BY <1>3, <3>1, SameSize DEF NoRoomFor, Promise!Full
  <2>4. ASSUME id >= m
        PROVE  NoRoomFor(t.buckets[j].counts, event.query, MaxUniqueQueriesPerBucket)
                 <=> Promise!Full(Promise!InBucket(now, id), event.query, MaxUniqueQueriesPerBucket)
    <3>1. m <= id /\ c - m <= BucketCount - 1
      BY <1>1, <1>2, <2>4, BucketCountPositive
    <3>2. t \in WindowType /\ t.buckets[j].id = id /\ j \in Slots
      <4> HIDE DEF e, id
      <4> QED BY <1>1, <1>2, EnsureBuckets, SlotOfBucket
    <3>3. Mirrors(t, log, m, c)
      <4> HIDE DEF e, id, m, c
      <4> QED BY <1>1, <1>2, <3>1, EnsureMirrors
    <3>4. Keys(t.buckets[j].counts) = {r1.query : r1 \in {s \in log : s.bucket = id}}
      <4> HIDE DEF t, id, m, c
      <4> QED BY <1>1, <1>2, <3>1, <3>2, <3>3, MirrorBucketKeys
    <3>5. Promise!InBucket(now, id) = {s \in log : s.bucket = id}
      <4> HIDE DEF id, m, now, live
      <4> QED BY <1>4, <3>1 DEF Recent, Promise!InBucket, live
    <3>6. Keys(t.buckets[j].counts) = Promise!Distinct(Promise!InBucket(now, id))
      BY <3>4, <3>5 DEF Promise!Distinct
    <3>7. t.buckets[j].counts[event.query] = 0 <=> event.query \notin Keys(t.buckets[j].counts)
      <4> HIDE DEF t, event, j
      <4> QED BY <2>1, <3>2 DEF Keys, WindowType, BucketType
    <3> HIDE DEF t, event, j, id, now
    <3> QED BY <3>6, <3>7, SameSize DEF NoRoomFor, Promise!Full
  <2>5. r.reason = IF id < m THEN "too_old"
                   ELSE IF OverActorLimit(e, event) THEN "actor_query_limit"
                   ELSE IF NoRoomFor(e.totals, event.query, MaxUniqueQueries)
                        THEN "cardinality_limit"
                   ELSE IF NoRoomFor(t.buckets[j].counts, event.query, MaxUniqueQueriesPerBucket)
                        THEN "bucket_cardinality_limit"
                   ELSE "none"
    BY DEF AddExpired, Accept, Reject, Target
  <2>6. v = IF id < m THEN "too_old"
            ELSE IF event.actor # NoActor
                      /\ Promise!ActorHits(now, event.query, event.actor) >= PerActorQueryLimit
                 THEN "actor_query_limit"
            ELSE IF Promise!Full(live, event.query, MaxUniqueQueries) THEN "cardinality_limit"
            ELSE IF Promise!Full(Promise!InBucket(now, id), event.query, MaxUniqueQueriesPerBucket)
                 THEN "bucket_cardinality_limit"
            ELSE "none"
    <3> HIDE DEF id, m
    <3> QED BY <1>5, <1>8 DEF Promise!Verdict
  <2>7. id >= m <=> ~ (id < m)
    BY <1>1, <1>2
  <2> HIDE DEF id, m, r, v, e, t, live, event, now, j
  <2>8. r.reason = v
    BY <2>2, <2>3, <2>4, <2>5, <2>6, <2>7, Zenon
  <2> QED BY <2>1, <2>8 DEF r, v, event, now
<1> QED BY <1>6, <1>7, <1>8

\* The list of TopFilteredAt is the one SlidingWindow asks for.
LEMMA TopRight ==
  ASSUME Timely, Inv, MirrorInv, NEW p \in Proc, call[p].op = "top"
  PROVE  Promise!IsTop(TopFilteredAt(win, TopLimit, call[p].now, call[p].included),
                       call[p].now, call[p].included)
<1> DEFINE now == call[p].now
           included == call[p].included
           totals == ExpireAt(win, now).totals
           list == TopOf(totals, TopLimit, included)
           found == Keys(totals) \cap included
           listed == {list[n].query : n \in 1..Len(list)}
<1>1. call[p] # Idle /\ now \in Int
  BY CallParts DEF Idle, Inv, CallsTyped
<1>2. /\ totals \in [Query -> Nat]
      /\ \A q \in Query : totals[q] = Promise!Hits(now, q)
      /\ Keys(totals) = Promise!Distinct(Promise!Live(now))
  BY <1>1, FoundWindow, FoundCounts DEF Sound, WindowType
<1>3. TopFilteredAt(win, TopLimit, now, included) = list /\ TopLimit \in Nat
  BY CallsAssumption DEF TopFilteredAt
<1> HIDE DEF totals, now, included
<1>4. /\ listed \subseteq found
      /\ \A n \in 1..Len(list) : list[n].count = totals[list[n].query]
      /\ \A n, k \in 1..Len(list) : n < k => Precedes(totals, list[n].query, list[k].query)
      /\ \A q \in listed, r \in found \ listed : Precedes(totals, q, r)
      /\ Len(list) <= TopLimit
      /\ Len(list) < TopLimit => listed = found
  <2>1. TopLimit \in Nat
    BY <1>3
  <2> QED BY <1>2, <2>1, TopOfShows
<1>5. found = Promise!Distinct(Promise!Live(now)) \cap included /\ found \subseteq Query
  BY <1>2 DEF Keys
<1>6. \A n \in 1..Len(list) : list[n].query \in listed
  OBVIOUS
<1>7. \A q, r \in Query : Precedes(totals, q, r) <=>
        (\/ Promise!Hits(now, q) > Promise!Hits(now, r)
         \/ Promise!Hits(now, q) = Promise!Hits(now, r) /\ q < r)
  BY <1>2 DEF Precedes
<1> HIDE DEF list, found, listed
<1>8. listed \subseteq Query
  BY <1>4, <1>5
<1>9. \A n \in 1..Len(list) : list[n].count = Promise!Hits(now, list[n].query)
  BY <1>2, <1>4, <1>6, <1>8
<1>10. \A n, k \in 1..Len(list) : n < k =>
         (\/ Promise!Hits(now, list[n].query) > Promise!Hits(now, list[k].query)
          \/ /\ Promise!Hits(now, list[n].query) = Promise!Hits(now, list[k].query)
             /\ list[n].query < list[k].query)
  BY <1>4, <1>6, <1>7, <1>8
<1>11. \A q \in listed, r \in found \ listed :
         \/ Promise!Hits(now, q) > Promise!Hits(now, r)
         \/ Promise!Hits(now, q) = Promise!Hits(now, r) /\ q < r
  BY <1>4, <1>5, <1>7, <1>8
<1>12. Promise!IsTop(list, now, included)
  BY <1>4, <1>5, <1>9, <1>10, <1>11 DEF Promise!IsTop, listed
<1> QED BY <1>3, <1>12 DEF now, included

\* Each step of the shard is the step of SlidingWindow of the same name, the
\* three gauges being one there.
LEMMA PromiseStep ==
  ASSUME Timely, Inv, MirrorInv, [Next]_vars
  PROVE  [Promise!Next]_(Promise!callVars)
<1>1. CASE Tick /\ UNCHANGED win
  BY <1>1, SameCalls DEF Promise!Next
<1>2. ASSUME NEW p \in Proc, Begin(p) /\ UNCHANGED win PROVE Promise!Next
  BY <1>2, SameCalls DEF Promise!Next
<1>3. ASSUME NEW p \in Proc, Add(p) PROVE Promise!Next
  <2>1. Promise!Add(p)
    BY <1>3, VerdictRight, SameCalls DEF Add, Promise!Add
  <2> QED BY <2>1 DEF Promise!Next
<1>4. ASSUME NEW p \in Proc, call[p].op \in {"count", "top", "unique", "actors", "events"}
      PROVE  /\ call[p] # Idle /\ call[p].now \in Int
             /\ call[p].op = "count" => call[p].query \in Query
  <2>1. call[p] \in CallType
    BY DEF Inv, CallsTyped
  <2> QED BY <1>4, <2>1, CallParts DEF Idle, CallType
<1>5. ASSUME NEW p \in Proc, CountQuery(p) PROVE Promise!Next
  <2>1. CountAt(win, call[p].query, call[p].now) = Promise!Hits(call[p].now, call[p].query)
    BY <1>4, <1>5, FoundCounts DEF CountQuery, CountAt
  <2>2. Promise!CountQuery(p)
    BY <1>5, <2>1, SameCalls DEF CountQuery, Promise!CountQuery
  <2> QED BY <2>2 DEF Promise!Next
<1>6. ASSUME NEW p \in Proc, Top(p) PROVE Promise!Next
  <2> DEFINE list == TopFilteredAt(win, TopLimit, call[p].now, call[p].included)
  <2>1. /\ call[p].op = "top" /\ ReadReturns(p, [op |-> "top", items |-> list])
        /\ reply' = [op |-> "top", items |-> list]
    BY <1>6 DEF Top, ReadReturns
  <2>2. Promise!IsTop(list, call[p].now, call[p].included)
    BY <2>1, TopRight
  <2> HIDE DEF list
  <2>3. reply'.op = "top" /\ reply'.items = list
    BY <2>1
  <2>4. Promise!Top(p)
    BY <2>1, <2>2, <2>3, SameCalls DEF Promise!Top
  <2> QED BY <2>4 DEF Promise!Next
<1>7. ASSUME NEW p \in Proc, UniqueQueries(p) \/ ActorCounters(p) \/ WindowEvents(p)
      PROVE  Promise!Next
  <2> DEFINE live == Promise!Live(call[p].now)
  <2>1. /\ UniqueQueriesAt(win, call[p].now) = Cardinality(Promise!Distinct(live))
        /\ ActorCountersAt(win, call[p].now) = Cardinality(Promise!ActorKeys(live))
        /\ WindowEventsAt(win, call[p].now) = Cardinality(live)
    BY <1>4, <1>7, FoundCounts
       DEF UniqueQueries, ActorCounters, WindowEvents, UniqueQueriesAt, ActorCountersAt, WindowEventsAt
  <2>2. Promise!Gauge(p)
    BY <1>7, <2>1, SameCalls, SameSize
       DEF UniqueQueries, ActorCounters, WindowEvents, Promise!Gauge
  <2> QED BY <2>2 DEF Promise!Next
<1>8. CASE UNCHANGED vars
  BY <1>8 DEF vars, Promise!callVars
<1> QED BY <1>1, <1>2, <1>3, <1>5, <1>6, <1>7, <1>8 DEF Next, Locked

\* README.md's exact window: whatever the configuration, as long as no call
\* waits across a bucket boundary, each answer of a shard is the one computed
\* afresh from all accepted events whose bucket is in the window.
THEOREM ShardIsExact ==
  ASSUME Timely PROVE Spec => Exact
<1>1. Init => Promise!CallsInit
  BY SameCalls DEF Init
<1>2. Init => MirrorInv
  BY InitMirrors
<1>3. Inv /\ BucketInv /\ MirrorInv /\ [Next]_vars => MirrorInv'
  BY NextMirrors
<1>4. Inv /\ MirrorInv /\ [Next]_vars => [Promise!Next]_(Promise!callVars)
  BY PromiseStep
<1> QED
  BY <1>1, <1>2, <1>3, <1>4, SpecInv, SpecBucketInv, PTL DEF Spec, Exact, Promise!Spec

-----------------------------------------------------------------------------
(* The README's two sentences on the window, where they are true *)

\* What has left the window at the present time is at most subtracted.
LEMMA MirroredShows ==
  ASSUME Timely, Inv, MirrorInv
  PROVE  NoLoss
<1> DEFINE m == minBucketID(clock)
           e == ExpireAt(win, clock)
<1>1. clock \in StartClock..MaxClock /\ clock \in Int
  BY CallsAssumption DEF MirrorInv, Known
<1>2. m \in Int
  BY <1>1, PresentTime DEF Timely
<1>3. IsLog(log) /\ win \in WindowType /\ Sound(win)
  BY DEF Inv, CallsTyped, IsLog, Sound
<1>4. Mirrors(win, log, m, bucketID(clock))
  BY DEF MirrorInv
<1>5. e \in WindowType /\ Balanced(e)
  BY <1>1, <1>3, ExpireAtSound DEF Sound
<1>6. Mirrors(e, log, m, bucketID(clock)) /\ Swept(e, m)
  BY <1>1, <1>2, <1>3, <1>4, ExpireMirrors
<1>7. \A q \in Query : e.totals[q] <= win.totals[q]
  <2>1. SUFFICES ASSUME NEW q \in Query PROVE e.totals[q] <= win.totals[q]
    OBVIOUS
  <2> DEFINE S == {i \in Slots : win.buckets[i].id < m}
             held == HeldIn(win, S, q)
  <2>2. held \in Nat /\ win.totals[q] \in Nat
    BY <1>3, HeldType DEF WindowType
  <2>3. e.totals[q] = Monus(win.totals[q], held)
    BY DEF ExpireAt, Drop
  <2> QED BY <2>2, <2>3, MonusType
<1> HIDE DEF e
<1>8. ASSUME NEW q \in Query
      PROVE  win.totals[q] >= Cardinality({r \in log : r.query = q /\ r.bucket >= m})
  <2>1. {r \in log : r.query = q /\ r.bucket >= m} = OfQuery(Recent(log, m), q)
    BY DEF OfQuery, Recent
  <2>2. e.totals[q] = Cardinality(OfQuery(Recent(log, m), q))
    BY <1>2, <1>3, <1>5, <1>6, MirrorTotals
  <2>3. e.totals[q] \in Nat /\ win.totals[q] \in Nat
    BY <1>3, <1>5 DEF WindowType
  <2> QED BY <1>7, <2>1, <2>2, <2>3
<1> QED BY <1>8 DEF NoLoss

\* README.md says that the window is exact.  A caller that waits across a
\* bucket boundary can lose accepted events (the run ShardStale); when none
\* does, every accepted event of the window is in the totals.
THEOREM NothingIsLost ==
  ASSUME Timely PROVE Spec => []NoLoss
<1>1. Init => MirrorInv
  BY InitMirrors
<1>2. Inv /\ BucketInv /\ MirrorInv /\ [Next]_vars => MirrorInv'
  BY NextMirrors
<1>3. Inv /\ MirrorInv => NoLoss
  BY MirroredShows
<1> QED BY <1>1, <1>2, <1>3, SpecInv, SpecBucketInv, PTL DEF Spec

\* The oldest instant whose bucket the window shows is less than a bucket
\* older than the window.
LEMMA AncientIsOut ==
  ASSUME NEW now \in Nat, now < Int64Half, WindowSize + BucketSize <= now,
         NEW ts \in Int, -Int64Half <= ts, ts < now - WindowSize - BucketSize
  PROVE  bucketID(ts) < minBucketID(now)
<1> DEFINE B == BucketSize
           a == now - WindowSize - B
<1>1. B \in Nat \ {0} /\ WindowSize \in Nat \ {0} /\ Int64Half \in Nat \ {0}
  BY ConfigAssumption
<1>2. a \in Nat /\ a < Int64Half /\ ts <= a /\ a + B = now - WindowSize
      /\ a + B \in Nat /\ a + B < Int64Half
  BY <1>1
<1>3. /\ bucketID(ts) <= bucketID(a) /\ bucketID(a) = a \div B
      /\ minBucketID(now) = (a + B) \div B
  BY <1>2, BucketMonotone, BucketOfInstant DEF minBucketID
<1> HIDE DEF B, a
<1> DEFINE x == a \div B
           y == (a + B) \div B
<1>4. /\ x \in Int /\ y \in Int
      /\ B * x <= a /\ a < B * x + B
      /\ B * y <= a + B /\ a + B < B * y + B
  BY <1>1, <1>2, DivParts
<1>5. x < y
  <2> HIDE DEF x, y
  <2> SUFFICES ASSUME y <= x PROVE FALSE
    BY <1>4
  <2>1. B * y <= B * x
    BY <1>1, <1>4
  <2> QED BY <1>1, <1>2, <1>4, <2>1
<1>6. bucketID(ts) \in Int
  BY BucketIDType
<1> QED BY <1>3, <1>4, <1>5, <1>6

\* README.md says that events older than the window are rejected.  bucketID
\* wraps around for dates UnixNano cannot represent and accepts them (the run
\* ShardAncient); within its range, and at a clock at least a window and a
\* bucket after the epoch, no interleaving accepts one that is older by a
\* bucket or more.
THEOREM AncientIsRejected ==
  ASSUME InRange, WindowSize + BucketSize <= StartClock PROVE Spec => RejectsAncient
<1>1. ASSUME Inv, Known, NEW p \in Proc, Accepts(p)
      PROVE  call[p].event.occurredAt >= call[p].now - WindowSize - BucketSize
  <2> DEFINE now == call[p].now
             event == call[p].event
  <2>1. call[p].op = "add" /\ AddReturns(p, AddAt(win, event, now).reason) /\ log' # log
    BY <1>1 DEF Accepts, Add
  <2>2. AddAt(win, event, now).reason = "none"
    BY <2>1 DEF AddReturns
  <2>3. /\ event \in Event /\ now \in StartClock..MaxClock /\ call[p] # Idle
        /\ Target(event, now) \in Int
    BY <1>1, <2>1, AddKnown
  <2>4. now \in Nat /\ now < Int64Half /\ now \in Int /\ WindowSize + BucketSize <= now
    BY <2>3, PresentTime, ConfigAssumption, CallsAssumption
  <2>5. event.occurredAt \in Int /\ -Int64Half <= event.occurredAt
    BY <1>1, <2>1, <2>3 DEF Known, CallKnown, Event
  <2>6. win \in WindowType
    BY <1>1 DEF Inv, Sound
  <2> HIDE DEF now, event
  <2>7. Target(event, now) >= minBucketID(now)
    BY <2>2, <2>3, <2>4, <2>6, AddAtCases
  <2>8. SUFFICES ASSUME event.occurredAt < now - WindowSize - BucketSize PROVE FALSE
    BY <2>4, <2>5, ConfigAssumption DEF now, event
  <2>9. event.occurredAt <= now
    BY <2>4, <2>5, <2>8, ConfigAssumption
  <2>10. Target(event, now) = bucketID(event.occurredAt)
    BY <2>4, <2>5, <2>9 DEF Target, EventTime
  <2>11. bucketID(event.occurredAt) < minBucketID(now)
    BY <2>4, <2>5, <2>8, AncientIsOut
  <2>12. minBucketID(now) \in Int
    BY <2>4, ConfigAssumption, BucketIDType DEF minBucketID
  <2> QED BY <2>3, <2>7, <2>10, <2>11, <2>12
<1>2. Init => Known
  BY InitKnown
<1>3. Inv /\ Known /\ [Next]_vars => Known'
  BY NextKnown
<1>4. Inv /\ Known => \A p \in Proc :
        Accepts(p) => call[p].event.occurredAt >= call[p].now - WindowSize - BucketSize
  BY <1>1
<1> QED BY <1>2, <1>3, <1>4, SpecInv, PTL DEF Spec, RejectsAncient
=============================================================================
