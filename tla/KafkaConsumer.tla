--------------------------- MODULE KafkaConsumer ---------------------------
(***************************************************************************)
(* kafka.Consumer.Run: poll a batch of records, hand each of them to the   *)
(* processor, commit the offsets of the whole batch, all in one goroutine. *)
(* The broker, the client library and the operator are the environment:    *)
(* fetches may report errors, commits may fail with or without effect, the *)
(* group may take a partition away and give it back, the process may crash *)
(* or be told to stop.                                                     *)
(***************************************************************************)
EXTENDS Integers

CONSTANTS
  Partition,     \* the partitions of the topic
  Malformed,     \* the records <<partition, offset>> that do not decode
  MixedFetches,  \* whether one fetch may carry records and an error at once
  MaxOffset,     \* bound: records produced to a partition
  MaxFaults      \* bound: errors, crashes, rebalances and stops together

ASSUME ConsumerAssumption ==
  /\ Malformed \subseteq Partition \X Nat
  /\ MixedFetches \in BOOLEAN
  /\ MaxOffset \in Nat /\ MaxFaults \in Nat

VARIABLES
  log,        \* log[p]: the number of records produced to p
  committed,  \* committed[p]: the group's offset at the broker
  position,   \* position[p]: the offset the client fetches next
  batch,      \* batch[p]: the records of p in recordsToCommit and their progress
  pc,         \* where Run stands
  cancelled,  \* whether the context is cancelled
  applied,    \* history: applied[p][o], how often Process was called
  rewinds,    \* history: how often the position went back to the committed offset
  faults      \* faults so far

vars == <<log, committed, position, batch, pc, cancelled, applied, rewinds, faults>>

Offset == 0 .. MaxOffset - 1

Records(first, next, last) == [first |-> first, next |-> next, last |-> last]

NoRecords == [p \in Partition |-> Records(0, 0, 0)]

Init ==
  /\ log = [p \in Partition |-> 0]
  /\ committed = [p \in Partition |-> 0]
  /\ position = committed
  /\ batch = NoRecords
  /\ pc = "poll"
  /\ cancelled = FALSE
  /\ applied = [p \in Partition |-> [o \in Offset |-> 0]]
  /\ rewinds = [p \in Partition |-> 0]
  /\ faults = 0

Fault == faults < MaxFaults /\ faults' = faults + 1

Produce(p) ==
  /\ log[p] < MaxOffset
  /\ log' = [log EXCEPT ![p] = @ + 1]
  /\ UNCHANGED <<committed, position, batch, pc, cancelled, applied, rewinds, faults>>

\* The positions a fetch of some records may end at.
Fetched ==
  {last \in [Partition -> 0 .. MaxOffset] :
     /\ \A p \in Partition : position[p] <= last[p] /\ last[p] <= log[p]
     /\ \E p \in Partition : position[p] < last[p]}

\* PollFetches returns records; the client moves on behind them.
PollFetches ==
  /\ pc = "poll" /\ ~ cancelled
  /\ \E last \in Fetched :
       /\ batch' = [p \in Partition |-> Records(position[p], position[p], last[p])]
       /\ position' = last
  /\ pc' = "batch"
  /\ UNCHANGED <<log, committed, cancelled, applied, rewinds, faults>>

\* PollFetches reports an error for some partition: Run logs it and polls
\* again, and the records of other partitions that came with it are dropped.
FetchError ==
  /\ pc = "poll" /\ ~ cancelled
  /\ Fault
  /\ \/ UNCHANGED position
     \/ /\ MixedFetches
        /\ \E last \in Fetched :
             /\ \E p \in Partition : last[p] = position[p]
             /\ position' = last
  /\ UNCHANGED <<log, committed, batch, pc, cancelled, applied, rewinds>>

\* Fault: a record that does not decode is not passed over.
handleRecordStrict(p) ==
  LET o == batch[p].next IN
  /\ pc = "batch" /\ o < batch[p].last /\ <<p, o>> \notin Malformed
  /\ applied' = [applied EXCEPT ![p][o] = @ + 1]
  /\ batch' = [batch EXCEPT ![p] = Records(@.first, o + 1, @.last)]
  /\ UNCHANGED <<log, committed, position, pc, cancelled, rewinds, faults>>

\* handleRecord: a record that decodes goes to the processor, another is
\* dropped; either way it is in recordsToCommit.
handleRecord(p) ==
  LET o == batch[p].next IN
  /\ pc = "batch" /\ o < batch[p].last
  /\ applied' = IF <<p, o>> \in Malformed THEN applied
                ELSE [applied EXCEPT ![p][o] = @ + 1]
  /\ batch' = [batch EXCEPT ![p] = Records(@.first, o + 1, @.last)]
  /\ UNCHANGED <<log, committed, position, pc, cancelled, rewinds, faults>>

AllHandled == \A p \in Partition : batch[p].next = batch[p].last

\* The offsets CommitRecords sends: of each partition with records in the
\* batch, the one behind the last of them.
CommitOffsets ==
  [p \in Partition |-> IF batch[p].first < batch[p].last THEN batch[p].last ELSE committed[p]]

\* Fault: the offsets are committed before the records are handled.
CommitEarly ==
  /\ pc = "batch"
  /\ committed' = CommitOffsets
  /\ pc' = IF AllHandled THEN "poll" ELSE pc
  /\ batch' = IF AllHandled THEN NoRecords ELSE batch
  /\ UNCHANGED <<log, position, cancelled, applied, rewinds, faults>>

Commit ==
  /\ pc = "batch" /\ AllHandled
  /\ committed' = CommitOffsets
  /\ pc' = "poll" /\ batch' = NoRecords
  /\ UNCHANGED <<log, position, cancelled, applied, rewinds, faults>>

\* Fault: the batch is handled again when its commit failed.
CommitErrorRetried ==
  /\ pc = "batch" /\ AllHandled
  /\ Fault
  /\ batch' = [p \in Partition |-> Records(batch[p].first, batch[p].first, batch[p].last)]
  /\ UNCHANGED <<log, committed, position, pc, cancelled, applied, rewinds>>

\* CommitRecords returns an error, which says nothing of its effect at the
\* broker.  A cancelled context ends Run, another error is logged, and the
\* records are neither handled nor committed again.
CommitError ==
  /\ pc = "batch" /\ AllHandled
  /\ IF cancelled THEN pc' = "stopped" /\ UNCHANGED faults
     ELSE pc' = "poll" /\ Fault
  /\ committed' \in {committed, CommitOffsets}
  /\ batch' = NoRecords
  /\ UNCHANGED <<log, position, cancelled, applied, rewinds>>

\* Fault: Run stops only once everything is read.
StopDrained ==
  /\ pc = "poll" /\ cancelled /\ Fetched = {}
  /\ pc' = "stopped"
  /\ UNCHANGED <<log, committed, position, batch, cancelled, applied, rewinds, faults>>

\* Run sees the cancelled context when PollFetches returns.
Stop ==
  /\ pc = "poll" /\ cancelled
  /\ pc' = "stopped"
  /\ UNCHANGED <<log, committed, position, batch, cancelled, applied, rewinds, faults>>

\* The service is told to stop, at any time.
Cancel ==
  /\ pc \in {"poll", "batch"} /\ ~ cancelled
  /\ Fault
  /\ cancelled' = TRUE
  /\ UNCHANGED <<log, committed, position, batch, pc, applied, rewinds>>

\* The group takes p away and gives it back, whatever Run is doing: the
\* client fetches from the committed offset again.
Rebalance(p) ==
  /\ pc \in {"poll", "batch"}
  /\ Fault
  /\ position' = [position EXCEPT ![p] = committed[p]]
  /\ rewinds' = [rewinds EXCEPT ![p] = @ + 1]
  /\ UNCHANGED <<log, committed, batch, pc, cancelled, applied>>

Crash ==
  /\ pc \in {"poll", "batch"}
  /\ Fault
  /\ pc' = "down"
  /\ batch' = NoRecords
  /\ UNCHANGED <<log, committed, position, cancelled, applied, rewinds>>

\* A new process joins the group.
Restart ==
  /\ pc \in {"down", "stopped"}
  /\ pc' = "poll" /\ cancelled' = FALSE
  /\ position' = committed
  /\ rewinds' = [p \in Partition |-> rewinds[p] + 1]
  /\ UNCHANGED <<log, committed, batch, applied, faults>>

Next ==
  \/ \E p \in Partition : Produce(p) \/ handleRecord(p) \/ Rebalance(p)
  \/ PollFetches \/ FetchError \/ Commit \/ CommitError \/ Stop
  \/ Cancel \/ Crash \/ Restart

Spec == Init /\ [][Next]_vars

\* The goroutine of Run runs; a fetch with records, and an answer to a
\* commit, come in the end.  Nothing restarts a process that is down.
Fairness ==
  /\ WF_vars(PollFetches) /\ WF_vars(Commit \/ CommitError) /\ WF_vars(Stop)
  /\ \A p \in Partition : WF_vars(handleRecord(p))

FairSpec == Spec /\ Fairness

-----------------------------------------------------------------------------
BatchType == [first : 0 .. MaxOffset, next : 0 .. MaxOffset, last : 0 .. MaxOffset]

\* Types; nothing is fetched or committed that was not produced.
TypeOK ==
  /\ log \in [Partition -> 0 .. MaxOffset]
  /\ committed \in [Partition -> 0 .. MaxOffset]
  /\ position \in [Partition -> 0 .. MaxOffset]
  /\ batch \in [Partition -> BatchType]
  /\ pc \in {"poll", "batch", "stopped", "down"}
  /\ cancelled \in BOOLEAN
  /\ applied \in [Partition -> [Offset -> Nat]]
  /\ rewinds \in [Partition -> Nat]
  /\ faults \in 0 .. MaxFaults
  /\ \A p \in Partition :
       committed[p] <= log[p] /\ position[p] <= log[p] /\ batch[p].last <= log[p]

\* A record behind the committed offset was given to the processor, unless it
\* does not decode: whatever fails, no record is passed over (README, "At
\* least once").
AtLeastOnce ==
  \A p \in Partition, o \in Offset :
    o < committed[p] /\ <<p, o>> \notin Malformed => applied[p][o] > 0

\* Records are handled again only after a crash, a stop or a rebalance, once
\* for each: failed commits and fetch errors never repeat one.
RedeliveredByRewindsOnly ==
  \A p \in Partition, o \in Offset : applied[p][o] <= 1 + rewinds[p]

\* A record produced is processed in the end, unless the process ends first:
\* malformed records, errors and rebalances do not block it.
EventuallyApplied ==
  \A p \in Partition, o \in Offset :
    <<p, o>> \notin Malformed =>
      (o < log[p] ~> applied[p][o] > 0 \/ pc \in {"stopped", "down"})

\* A service told to stop stops.
StopsWhenCancelled == cancelled ~> ~ cancelled \/ pc \in {"stopped", "down"}
=============================================================================
