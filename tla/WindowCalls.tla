---------------------------- MODULE WindowCalls ----------------------------
(***************************************************************************)
(* How goroutines call one shard.  A caller reads the clock before it has  *)
(* the shard's mutex (Processor.Process, the ticker of refreshSnapshots),  *)
(* and waits; by the time it has the mutex the clock, and other callers    *)
(* with a later clock, may have moved on.  SlidingWindow and Shard say     *)
(* what happens under the mutex.                                           *)
(***************************************************************************)
EXTENDS WindowConfig

CONSTANTS
  Proc,        \* the goroutines
  TopLimit,    \* the limit of a top request
  Offset,      \* distances of an event's time from the clock of its caller
  StartClock, MaxClock,
  MaxEvents,   \* bound: accepted events and adds in flight
  MaxLag       \* bound: buckets the clock moves while a call waits

ASSUME CallsAssumption ==
  /\ IsFiniteSet(Proc)
  /\ TopLimit \in Nat \ {0}
  /\ Offset \subseteq Int
  /\ StartClock \in Int /\ MaxClock \in Int
  /\ MaxEvents \in Nat /\ MaxLag \in Nat

VARIABLES
  clock,  \* time.Now()
  call,   \* call[p]: what p waits to do on the shard, with the now it read
  reply,  \* what the last call to hold the mutex returned
  log     \* history: every accepted event, with the bucket it was counted in

callVars == <<clock, call, reply, log>>

Idle == [op |-> "idle"]

\* Events a caller may present at the instant now.
Arrival(now) == [query : Query \cup {NoQuery},
                 actor : Actor \cup {NoActor},
                 occurredAt : {now + d : d \in Offset}]

CallType ==
  {Idle}
    \cup [op : {"add"}, event : Event, now : Int]
    \cup [op : {"count"}, query : Query, now : Int]
    \cup [op : {"top"}, included : SUBSET Query, now : Int]
    \cup [op : {"unique", "actors", "events"}, now : Int]

LogType == [n : Nat, query : Query, actor : Actor \cup {NoActor}, bucket : Int]

CallsInit ==
  /\ clock = StartClock
  /\ call = [p \in Proc |-> Idle]
  /\ reply = [op |-> "none"]
  /\ log = {}

\* Time passes, at most MaxLag buckets past the now of a waiting call.
Tick ==
  /\ clock < MaxClock
  /\ \A p \in Proc :
       call[p] # Idle => bucketID(clock + 1) - bucketID(call[p].now) <= MaxLag
  /\ clock' = clock + 1
  /\ UNCHANGED <<call, reply, log>>

\* Room for one more accepted event under the bound.
Room == Cardinality(log) + Cardinality({p \in Proc : call[p].op = "add"}) < MaxEvents

\* Processor.Process reads the clock and goes on to aggregator.AddAt.
BeginAdd(p) ==
  /\ call[p] = Idle
  /\ Room
  /\ \E event \in Arrival(clock) :
       call' = [call EXCEPT ![p] = [op |-> "add", event |-> event, now |-> clock]]
  /\ UNCHANGED <<clock, reply, log>>

\* The refresher, at its tick: a top list, later the three gauges.
BeginTop(p) ==
  /\ call[p] = Idle
  /\ \E included \in SUBSET Query :
       call' = [call EXCEPT ![p] = [op |-> "top", included |-> included, now |-> clock]]
  /\ UNCHANGED <<clock, reply, log>>

BeginGauge(p) ==
  /\ call[p] = Idle
  /\ \E op \in {"unique", "actors", "events"} :
       call' = [call EXCEPT ![p] = [op |-> op, now |-> clock]]
  /\ UNCHANGED <<clock, reply, log>>

Begin(p) == BeginAdd(p) \/ BeginTop(p) \/ BeginGauge(p)

\* One more accepted event; n tells apart those alike in all the rest.
Logged(event, id) ==
  LET alike == {r \in log : /\ r.query = event.query
                            /\ r.actor = event.actor
                            /\ r.bucket = id}
  IN  log \cup {[n |-> Cardinality(alike) + 1,
                 query |-> event.query, actor |-> event.actor, bucket |-> id]}

\* The mutex is released: an accepted event is logged, and its caller goes
\* on to count the query at the same now (Processor.ProcessAt).
AddReturns(p, reason) ==
  LET c == call[p] IN
  /\ reply' = [op |-> "add", reason |-> reason]
  /\ IF reason = "none"
     THEN /\ log' = Logged(c.event, bucketID(EventTime(c.event, c.now)))
          /\ call' = [call EXCEPT ![p] =
                        [op |-> "count", query |-> c.event.query, now |-> c.now]]
     ELSE /\ call' = [call EXCEPT ![p] = Idle]
          /\ UNCHANGED log
  /\ UNCHANGED clock

ReadReturns(p, answer) ==
  /\ reply' = answer
  /\ call' = [call EXCEPT ![p] = Idle]
  /\ UNCHANGED <<clock, log>>
=============================================================================
