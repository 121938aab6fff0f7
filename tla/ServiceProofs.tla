---------------------------- MODULE ServiceProofs ----------------------------
(***************************************************************************)
(* Proofs about the consumer, what its records become and the answers, for *)
(* any partitions, record counts, limits and faults.  Of the consumer:     *)
(* what is still to come for a record is counted, once from the batch in   *)
(* hand, once from the fetches behind the position; a rebalance in the     *)
(* middle of a batch makes it two.  Ingestion and Service only add to its  *)
(* steps, so its invariants hold there too.                                *)
(***************************************************************************)
EXTENDS Service, CountingProofs, SequenceTheorems

InBatch(p, o) == batch[p].next <= o /\ o < batch[p].last

Pending(p, o) ==
  (IF position[p] <= o THEN 1 ELSE 0) + (IF InBatch(p, o) THEN 1 ELSE 0)

Running == pc \in {"poll", "batch"}

\* A batch is in hand between its poll and its commit only.
Progress ==
  \A p \in Partition :
    /\ batch[p].first <= batch[p].next /\ batch[p].next <= batch[p].last
    /\ pc # "batch" => batch[p].first = 0 /\ batch[p].last = 0

\* While the process runs, what was applied and what is pending of a record
\* is at most one more than the rewinds.
Accounted ==
  \A p \in Partition, o \in Offset :
    applied[p][o] + (IF Running THEN Pending(p, o) ELSE 0) <= 1 + rewinds[p]

Handled(p, o) == <<p, o>> \notin Malformed => applied[p][o] > 0

\* No record is left out of done: not below the committed offset, not in the
\* part of the batch that is done, not below the position.
CoveredBy(done) ==
  \A p \in Partition, o \in Offset :
    /\ o < committed[p] => <<p, o>> \in done
    /\ o < batch[p].next => <<p, o>> \in done
    /\ Running /\ Pending(p, o) = 0 => <<p, o>> \in done

HandledRecords == {r \in Record : Handled(r[1], r[2])}

Covered == CoveredBy(HandledRecords)

-----------------------------------------------------------------------------
LEMMA BatchRecords ==
  \A f, n, l \in 0 .. MaxOffset :
    /\ Records(f, n, l) \in BatchType
    /\ Records(f, n, l).first = f /\ Records(f, n, l).next = n /\ Records(f, n, l).last = l
BY DEF Records, BatchType

LEMMA NothingInHand ==
  /\ NoRecords \in [Partition -> BatchType]
  /\ \A p \in Partition : NoRecords[p].first = 0 /\ NoRecords[p].next = 0 /\ NoRecords[p].last = 0
<1>1. 0 \in 0 .. MaxOffset
  BY ConsumerAssumption
<1> DEFINE r == Records(0, 0, 0)
<1>2. r \in BatchType /\ r.first = 0 /\ r.next = 0 /\ r.last = 0
  BY <1>1, BatchRecords
<1>3. NoRecords = [p \in Partition |-> r]
  BY DEF NoRecords
<1> HIDE DEF r
<1> QED
  BY <1>2, <1>3

LEMMA InitType == Init => TypeOK /\ Progress /\ Accounted /\ Covered
<1> SUFFICES ASSUME Init PROVE TypeOK /\ Progress /\ Accounted /\ Covered
  OBVIOUS
<1>1. /\ batch \in [Partition -> BatchType]
      /\ \A p \in Partition : batch[p].first = 0 /\ batch[p].next = 0 /\ batch[p].last = 0
  BY NothingInHand DEF Init
<1>2. TypeOK
  <2>1. MaxOffset \in Nat /\ MaxFaults \in Nat
    BY ConsumerAssumption
  <2>2. [p \in Partition |-> 0] \in [Partition -> 0 .. MaxOffset]
    BY <2>1
  <2>3. applied \in [Partition -> [Offset -> Nat]] /\ rewinds \in [Partition -> Nat]
    BY DEF Init
  <2>4. \A p \in Partition : committed[p] = 0 /\ position[p] = 0 /\ log[p] = 0
    BY DEF Init
  <2>5. /\ log \in [Partition -> 0 .. MaxOffset] /\ committed \in [Partition -> 0 .. MaxOffset]
        /\ position \in [Partition -> 0 .. MaxOffset]
    BY <2>2 DEF Init
  <2>6. faults \in 0 .. MaxFaults
    BY <2>1 DEF Init
  <2>7. \A p \in Partition :
          committed[p] <= log[p] /\ position[p] <= log[p] /\ batch[p].last <= log[p]
    <3>1. 0 <= 0
      OBVIOUS
    <3> QED
      BY <1>1, <2>4, <3>1, Zenon
  <2>8. pc \in {"poll", "batch", "stopped", "down"}
    BY DEF Init
  <2>9. cancelled \in BOOLEAN
    BY Zenon DEF Init
  <2> QED
    BY <1>1, <2>3, <2>5, <2>6, <2>7, <2>8, <2>9, Zenon DEF TypeOK
<1>o. \A p \in Partition, o \in Offset :
        /\ o \in Int /\ 0 <= o /\ ~ InBatch(p, o) /\ Pending(p, o) = 1
        /\ applied[p][o] = 0 /\ rewinds[p] = 0 /\ committed[p] = 0
  BY <1>1, ConsumerAssumption DEF Init, Pending, InBatch, Offset
<1>3. Progress /\ Covered
  BY <1>1, <1>o DEF Progress, Covered, CoveredBy
<1>4. Accounted
  BY <1>o DEF Accounted
<1> QED
  BY <1>2, <1>3, <1>4

\* What handleRecord does to the history and to the batch.
LEMMA HandleEffect ==
  ASSUME TypeOK, NEW p \in Partition, handleRecord(p)
  PROVE  /\ batch[p].next \in Offset
         /\ \A q \in Partition, u \in Offset :
              applied'[q][u] = IF q = p /\ u = batch[p].next /\ <<p, u>> \notin Malformed
                               THEN applied[q][u] + 1 ELSE applied[q][u]
         /\ applied' \in [Partition -> [Offset -> Nat]]
         /\ \A q \in Partition : /\ batch'[q].first = batch[q].first
                                 /\ batch'[q].last = batch[q].last
                                 /\ batch'[q].next = IF q = p THEN batch[p].next + 1 ELSE batch[q].next
         /\ batch' \in [Partition -> BatchType]
<1> DEFINE o == batch[p].next
<1>1. /\ batch[p].first \in 0 .. MaxOffset /\ o \in 0 .. MaxOffset /\ batch[p].last \in 0 .. MaxOffset
      /\ o < batch[p].last
  BY DEF TypeOK, handleRecord, BatchType
<1>2. o \in Offset /\ o + 1 \in 0 .. MaxOffset
  BY <1>1, ConsumerAssumption DEF Offset
<1> DEFINE r == Records(batch[p].first, o + 1, batch[p].last)
<1>4. /\ r \in BatchType
      /\ r.first = batch[p].first /\ r.next = o + 1 /\ r.last = batch[p].last
  BY <1>1, <1>2, BatchRecords
<1>3. batch' = [batch EXCEPT ![p] = r]
  BY DEF handleRecord
<1>5. /\ \A q \in Partition : /\ batch'[q].first = batch[q].first
                              /\ batch'[q].last = batch[q].last
                              /\ batch'[q].next = IF q = p THEN batch[p].next + 1 ELSE batch[q].next
      /\ batch' \in [Partition -> BatchType]
  <2> HIDE DEF r
  <2> QED
    BY <1>3, <1>4 DEF TypeOK
<1>6. CASE <<p, o>> \in Malformed
  <2>1. applied' = applied
    BY <1>6 DEF handleRecord
  <2> QED
    BY <1>2, <1>5, <1>6, <2>1 DEF TypeOK
<1>7. CASE <<p, o>> \notin Malformed
  <2>1. applied' = [applied EXCEPT ![p] = [applied[p] EXCEPT ![o] = applied[p][o] + 1]]
    BY <1>7 DEF handleRecord
  <2>2. applied[p] \in [Offset -> Nat]
    BY DEF TypeOK
  <2>3. [applied[p] EXCEPT ![o] = applied[p][o] + 1] \in [Offset -> Nat]
    BY <1>2, <2>2
  <2>4. applied' \in [Partition -> [Offset -> Nat]]
    BY <2>1, <2>3 DEF TypeOK
  <2>5. \A q \in Partition, u \in Offset :
              applied'[q][u] = IF q = p /\ u = o THEN applied[q][u] + 1 ELSE applied[q][u]
    BY <1>2, <2>1, <2>2 DEF TypeOK
  <2> QED
    BY <1>2, <1>5, <1>7, <2>4, <2>5
<1> QED
  BY <1>6, <1>7

\* Every step keeps the counters in range, a batch in order.
LEMMA TypeStep ==
  ASSUME TypeOK, Progress, [Next]_vars
  PROVE  TypeOK' /\ Progress'
<1>a. MaxOffset \in Nat /\ MaxFaults \in Nat
  BY ConsumerAssumption
<1>n. /\ NoRecords \in [Partition -> BatchType]
      /\ \A p \in Partition : /\ NoRecords[p].first = 0 /\ NoRecords[p].next = 0
                              /\ NoRecords[p].last = 0
  BY NothingInHand
<1>b. \A p \in Partition :
        batch[p].first \in Int /\ batch[p].next \in Int /\ batch[p].last \in 0 .. MaxOffset
  BY <1>a DEF TypeOK, BatchType
<1>f. Fault => faults' \in 0 .. MaxFaults
  BY <1>a DEF Fault, TypeOK
<1>c. /\ CommitOffsets \in [Partition -> 0 .. MaxOffset]
      /\ \A p \in Partition : CommitOffsets[p] <= log[p]
  BY <1>b DEF CommitOffsets, TypeOK
<1>1. ASSUME NEW p \in Partition, Produce(p) PROVE TypeOK' /\ Progress'
  <2>1. log' \in [Partition -> 0 .. MaxOffset] /\ \A q \in Partition : log[q] <= log'[q]
    BY <1>1, <1>a DEF Produce, TypeOK
  <2>2. \A q \in Partition :
          committed[q] <= log'[q] /\ position[q] <= log'[q] /\ batch[q].last <= log'[q]
    BY <1>a, <1>b, <2>1 DEF TypeOK
  <2>3. UNCHANGED <<committed, position, batch, pc, cancelled, applied, rewinds, faults>>
    BY <1>1 DEF Produce
  <2>4. TypeOK'
    BY <2>1, <2>2, <2>3 DEF TypeOK
  <2>5. Progress'
    BY <2>3 DEF Progress
  <2> QED
    BY <2>4, <2>5
<1>2. ASSUME NEW p \in Partition, handleRecord(p) PROVE TypeOK' /\ Progress'
  <2>1. batch[p].next < batch[p].last /\ pc = "batch"
    BY <1>2 DEF handleRecord
  <2>2. Progress'
    <3>1. \A q \in Partition : /\ batch'[q].first = batch[q].first
                              /\ batch'[q].last = batch[q].last
                              /\ batch'[q].next = IF q = p THEN batch[p].next + 1 ELSE batch[q].next
      BY <1>2, HandleEffect
    <3>2. pc' = "batch"
      BY <1>2 DEF handleRecord
    <3> QED
      BY <1>b, <2>1, <3>1, <3>2 DEF Progress
  <2>3. TypeOK'
    BY <1>2, HandleEffect DEF handleRecord, TypeOK
  <2> QED
    BY <2>2, <2>3
<1>3. ASSUME NEW p \in Partition, Rebalance(p) PROVE TypeOK' /\ Progress'
  BY <1>3, <1>f DEF Rebalance, TypeOK, Progress
<1>4. CASE PollFetches
  <2>1. PICK last \in [Partition -> 0 .. MaxOffset] :
          /\ \A p \in Partition : position[p] <= last[p] /\ last[p] <= log[p]
          /\ batch' = [p \in Partition |-> Records(position[p], position[p], last[p])]
          /\ position' = last
    BY <1>4 DEF PollFetches, Fetched
  <2>2. \A p \in Partition :
          /\ batch'[p] = Records(position[p], position[p], last[p])
          /\ batch'[p] \in BatchType
          /\ batch'[p].first = position[p] /\ batch'[p].next = position[p]
          /\ batch'[p].last = last[p]
    BY <2>1, BatchRecords DEF TypeOK
  <2>3. batch' \in [Partition -> BatchType]
    BY <2>1, <2>2
  <2>4. Progress'
    BY <1>4, <2>1, <2>2 DEF PollFetches, Progress, TypeOK
  <2> QED
    BY <1>4, <2>1, <2>2, <2>3, <2>4 DEF PollFetches, TypeOK
<1>5. CASE FetchError
  <2>1. position' \in [Partition -> 0 .. MaxOffset] /\ \A p \in Partition : position'[p] <= log[p]
    BY <1>5 DEF FetchError, Fetched, TypeOK
  <2> QED
    BY <1>5, <1>f, <2>1 DEF FetchError, TypeOK, Progress
<1>6. CASE Commit
  BY <1>6, <1>n, <1>a, <1>c DEF Commit, TypeOK, Progress
<1>7. CASE CommitError
  <2>1. faults' \in 0 .. MaxFaults /\ pc' \in {"poll", "stopped"}
    BY <1>7, <1>f DEF CommitError, TypeOK
  <2>2. /\ committed' \in [Partition -> 0 .. MaxOffset]
        /\ \A p \in Partition : committed'[p] <= log[p]
    BY <1>7, <1>c DEF CommitError, TypeOK
  <2>3. /\ batch' = NoRecords
        /\ UNCHANGED <<log, position, cancelled, applied, rewinds>>
    BY <1>7 DEF CommitError
  <2>4. Progress'
    BY <1>n, <2>3 DEF Progress
  <2>5. TypeOK'
    BY <1>n, <1>a, <2>1, <2>2, <2>3 DEF TypeOK
  <2> QED
    BY <2>4, <2>5
<1>8. CASE Stop
  BY <1>8 DEF Stop, TypeOK, Progress
<1>9. CASE Cancel
  BY <1>9, <1>f DEF Cancel, TypeOK, Progress
<1>10. CASE Crash
  BY <1>10, <1>f, <1>n, <1>a DEF Crash, TypeOK, Progress
<1>11. CASE Restart
  <2>1. rewinds' \in [Partition -> Nat]
    BY <1>11 DEF Restart, TypeOK
  <2>2. Progress'
    BY <1>11 DEF Restart, Progress
  <2> QED
    BY <1>11, <2>1, <2>2 DEF Restart, TypeOK
<1>12. CASE UNCHANGED vars
  BY <1>12 DEF vars, TypeOK, Progress
<1> QED
  BY <1>1, <1>2, <1>3, <1>4, <1>5, <1>6, <1>7, <1>8, <1>9, <1>10, <1>11, <1>12 DEF Next

\* The types of what the counting is about, as facts about integers.
LEMMA Numbers ==
  ASSUME TypeOK
  PROVE  /\ \A q \in Partition :
              /\ position[q] \in Int /\ committed[q] \in Int /\ rewinds[q] \in Nat
              /\ batch[q].first \in Int /\ batch[q].next \in Int /\ batch[q].last \in Int
         /\ \A u \in Offset : u \in Int /\ 0 <= u
         /\ \A q \in Partition, u \in Offset : applied[q][u] \in Nat
BY ConsumerAssumption DEF TypeOK, BatchType, Offset

LEMMA AccountedStep ==
  ASSUME TypeOK, Progress, Accounted, [Next]_vars
  PROVE  Accounted'
<1>i. TypeOK' /\ Progress'
  BY TypeStep
<1>n. /\ \A q \in Partition :
           /\ position[q] \in Int /\ committed[q] \in Int /\ rewinds[q] \in Nat
           /\ batch[q].first \in Int /\ batch[q].next \in Int /\ batch[q].last \in Int
      /\ \A u \in Offset : u \in Int /\ 0 <= u
      /\ \A q \in Partition, u \in Offset : applied[q][u] \in Nat
  BY Numbers
<1>e. \A q \in Partition : NoRecords[q].next = 0 /\ NoRecords[q].last = 0
  BY NothingInHand
<1>p. \A q \in Partition, u \in Offset : Pending(q, u) \in 0 .. 2
  BY DEF Pending
<1>s. ASSUME UNCHANGED <<position, batch, pc, applied, rewinds>> PROVE Accounted'
  BY <1>s DEF Accounted, Pending, InBatch, Running
<1>d. ASSUME UNCHANGED <<applied, rewinds>>, ~ Running' PROVE Accounted'
  BY <1>d, <1>n, <1>p DEF Accounted
<1>1. ASSUME NEW p \in Partition, Produce(p) PROVE Accounted'
  BY <1>1, <1>s DEF Produce
<1>2. ASSUME NEW p \in Partition, handleRecord(p) PROVE Accounted'
  <2>1. pc = "batch" /\ batch[p].next < batch[p].last
        /\ UNCHANGED <<position, pc, rewinds>>
    BY <1>2 DEF handleRecord
  <2>h. /\ batch[p].next \in Offset
        /\ \A q \in Partition, u \in Offset :
             applied'[q][u] = IF q = p /\ u = batch[p].next /\ <<p, u>> \notin Malformed
                              THEN applied[q][u] + 1 ELSE applied[q][u]
        /\ \A q \in Partition : /\ batch'[q].last = batch[q].last
                                /\ batch'[q].next = IF q = p THEN batch[p].next + 1 ELSE batch[q].next
    BY <1>2, HandleEffect
  <2>2. ASSUME NEW q \in Partition, NEW u \in Offset
        PROVE  Pending(q, u)' = IF q = p /\ u = batch[p].next THEN Pending(q, u) - 1
                                ELSE Pending(q, u)
    <3>1. CASE q = p /\ u = batch[p].next
      <4>1. InBatch(q, u)
        BY <1>n, <2>1, <3>1 DEF InBatch
      <4>2. ~ InBatch(q, u)'
        BY <1>n, <2>h, <3>1 DEF InBatch
      <4>3. position'[q] = position[q]
        BY <2>1
      <4> QED
        BY <3>1, <4>1, <4>2, <4>3 DEF Pending
    <3>2. CASE ~ (q = p /\ u = batch[p].next)
      <4>1. InBatch(q, u)' <=> InBatch(q, u)
        BY <1>n, <2>h, <3>2 DEF InBatch
      <4>3. position'[q] = position[q]
        BY <2>1
      <4> QED
        BY <3>2, <4>1, <4>3 DEF Pending
    <3> QED
      BY <3>1, <3>2
  <2>3. ASSUME NEW q \in Partition, NEW u \in Offset
        PROVE  /\ applied'[q][u] \in Nat
               /\ applied'[q][u] <= IF q = p /\ u = batch[p].next THEN applied[q][u] + 1
                                    ELSE applied[q][u]
    <3>1. applied[q][u] \in Nat
      BY <1>n
    <3>2. applied'[q][u] = applied[q][u] + 1 \/ applied'[q][u] = applied[q][u]
      BY <2>h
    <3>3. ~ (q = p /\ u = batch[p].next) => applied'[q][u] = applied[q][u]
      BY <2>h
    <3> HIDE <2>h
    <3> QED
      BY <3>1, <3>2, <3>3
  <2>4. \A q \in Partition, u \in Offset : Pending(q, u)' \in Int
    BY <1>p, <2>2
  <2> QED
    BY <1>n, <1>p, <2>1, <2>2, <2>3, <2>4 DEF Accounted, Running
<1>3. ASSUME NEW p \in Partition, Rebalance(p) PROVE Accounted'
  <2>1. \A q \in Partition : rewinds'[q] = IF q = p THEN rewinds[q] + 1 ELSE rewinds[q]
    BY <1>3 DEF Rebalance, TypeOK
  <2>2. \A q \in Partition : /\ q # p => position'[q] = position[q]
                           /\ position'[q] \in Int
    BY <1>3, <1>n DEF Rebalance, TypeOK
  <2>3. UNCHANGED <<batch, pc, applied>>
    BY <1>3 DEF Rebalance
  <2>4. \A q \in Partition, u \in Offset :
          Pending(q, u)' \in 0 .. 2 /\ Pending(q, u)' <= Pending(q, u) + (rewinds'[q] - rewinds[q])
    <3> SUFFICES ASSUME NEW q \in Partition, NEW u \in Offset
                 PROVE  Pending(q, u)' \in 0 .. 2
                        /\ Pending(q, u)' <= Pending(q, u) + (rewinds'[q] - rewinds[q])
      OBVIOUS
    <3>1. InBatch(q, u)' = InBatch(q, u)
      BY <2>3 DEF InBatch
    <3>2. CASE q = p
      BY <1>n, <2>1, <2>2, <3>1, <3>2 DEF Pending
    <3>3. CASE q # p
      BY <1>n, <2>1, <2>2, <3>1, <3>3 DEF Pending
    <3> QED
      BY <3>2, <3>3
  <2> QED
    BY <1>n, <1>p, <2>1, <2>3, <2>4 DEF Accounted, Running
<1>4. CASE PollFetches
  <2>1. PICK last \in [Partition -> 0 .. MaxOffset] :
          /\ \A q \in Partition : position[q] <= last[q]
          /\ batch' = [q \in Partition |-> Records(position[q], position[q], last[q])]
          /\ position' = last
    BY <1>4 DEF PollFetches, Fetched
  <2>2. /\ pc = "poll" /\ pc' = "batch" /\ UNCHANGED <<applied, rewinds>>
        /\ \A q \in Partition : batch[q].next = batch[q].last
    <3>1. pc = "poll" /\ pc' = "batch" /\ UNCHANGED <<applied, rewinds>>
      BY <1>4 DEF PollFetches
    <3> QED
      BY <1>n, <3>1 DEF Progress
  <2>3. \A q \in Partition : batch'[q].next = position[q] /\ batch'[q].last = position'[q]
    BY <2>1 DEF Records
  <2>4. \A q \in Partition : position[q] <= position'[q] /\ position'[q] \in Int
    BY <2>1, ConsumerAssumption
  <2>5. \A q \in Partition, u \in Offset : Pending(q, u)' = Pending(q, u)
    BY <1>n, <2>2, <2>3, <2>4 DEF Pending, InBatch
  <2> QED
    BY <2>2, <2>5 DEF Accounted, Running
<1>5. CASE FetchError
  <2>1. \A q \in Partition : position'[q] \in Int /\ position[q] <= position'[q]
    BY <1>5, <1>n, ConsumerAssumption DEF FetchError, Fetched
  <2>2. UNCHANGED <<batch, pc, applied, rewinds>>
    BY <1>5 DEF FetchError
  <2>3. \A q \in Partition, u \in Offset :
          Pending(q, u)' \in 0 .. 2 /\ Pending(q, u)' <= Pending(q, u)
    BY <1>n, <2>1, <2>2 DEF Pending, InBatch
  <2> QED
    BY <1>n, <1>p, <2>2, <2>3 DEF Accounted, Running
<1>6. ASSUME batch' = NoRecords, UNCHANGED <<position, applied, rewinds>>, pc = "batch" PROVE Accounted'
  <2>1. \A q \in Partition, u \in Offset :
          Pending(q, u)' \in 0 .. 2 /\ Pending(q, u)' <= Pending(q, u)
    BY <1>n, <1>e, <1>6 DEF Pending, InBatch
  <2> QED
    BY <1>n, <1>p, <1>6, <2>1 DEF Accounted, Running
<1>7. CASE Commit
  BY <1>6, <1>7 DEF Commit
<1>8. CASE CommitError
  BY <1>6, <1>8 DEF CommitError
<1>9. CASE Stop
  BY <1>9, <1>d DEF Stop, Running
<1>10. CASE Cancel
  BY <1>10, <1>s DEF Cancel
<1>11. CASE Crash
  BY <1>11, <1>d DEF Crash, Running
<1>12. CASE Restart
  <2>1. /\ \A q \in Partition : rewinds'[q] = rewinds[q] + 1
        /\ UNCHANGED <<batch, applied>>
    BY <1>12 DEF Restart, TypeOK
  <2>2. \A q \in Partition : batch[q].next = batch[q].last
    BY <1>12, <1>n DEF Restart, Progress
  <2>3. \A q \in Partition, u \in Offset : Pending(q, u)' \in 0 .. 1
    BY <1>n, <2>1, <2>2 DEF Pending, InBatch
  <2>4. ~ Running
    BY <1>12 DEF Restart, Running
  <2> QED
    BY <1>n, <2>1, <2>3, <2>4 DEF Accounted
<1>13. CASE UNCHANGED vars
  BY <1>13, <1>s DEF vars
<1> QED
  BY <1>1, <1>2, <1>3, <1>4, <1>5, <1>7, <1>8, <1>9, <1>10, <1>11, <1>12, <1>13 DEF Next

\* Whatever set of records is meant, it goes on to cover the consumer's progress
\* if no record leaves it and a record that is handled joins it.
LEMMA CoveredStep ==
  ASSUME MixedFetches = FALSE, TypeOK, Progress, [Next]_vars,
         NEW done, NEW more, done \subseteq more, CoveredBy(done),
         \A p \in Partition : handleRecord(p) => <<p, batch[p].next>> \in more
  PROVE  CoveredBy(more)'
<1>n. /\ \A q \in Partition :
           /\ position[q] \in Int /\ committed[q] \in Int
           /\ batch[q].first \in Int /\ batch[q].next \in Int /\ batch[q].last \in Int
      /\ \A u \in Offset : u \in Int /\ 0 <= u
  BY Numbers
<1>e. \A q \in Partition : NoRecords[q].next = 0 /\ NoRecords[q].last = 0
  BY NothingInHand
<1>h. \A q \in Partition, u \in Offset : <<q, u>> \in done => <<q, u>> \in more
  OBVIOUS
<1>s. ASSUME UNCHANGED <<position, committed, batch, applied>>, Running' => Running PROVE CoveredBy(more)'
  BY <1>s DEF CoveredBy, Pending, InBatch
<1>1. ASSUME NEW p \in Partition, Produce(p) PROVE CoveredBy(more)'
  BY <1>1, <1>s DEF Produce, Running
<1>2. ASSUME NEW p \in Partition, handleRecord(p) PROVE CoveredBy(more)'
  <2>1. pc = "batch" /\ batch[p].next < batch[p].last
        /\ UNCHANGED <<position, committed, pc>>
    BY <1>2 DEF handleRecord
  <2>2. /\ batch[p].next \in Offset
        /\ \A q \in Partition, u \in Offset :
             applied'[q][u] = IF q = p /\ u = batch[p].next /\ <<p, u>> \notin Malformed
                              THEN applied[q][u] + 1 ELSE applied[q][u]
        /\ \A q \in Partition : /\ batch'[q].last = batch[q].last
                                /\ batch'[q].next = IF q = p THEN batch[p].next + 1 ELSE batch[q].next
    BY <1>2, HandleEffect
  <2> SUFFICES ASSUME NEW q \in Partition, NEW u \in Offset
               PROVE  /\ u < committed'[q] => <<q, u>> \in more
                      /\ u < batch'[q].next => <<q, u>> \in more
                      /\ Running' /\ Pending(q, u)' = 0 => <<q, u>> \in more
    BY DEF CoveredBy
  <2>3. CASE q = p /\ u = batch[p].next
    <3>1. <<q, u>> \in more
      BY <1>2, <2>3
    <3> QED
      BY <3>1
  <2>4. CASE ~ (q = p /\ u = batch[p].next)
    <3>2. <<q, u>> \in done => <<q, u>> \in more
      BY <1>h
    <3>3. InBatch(q, u)' <=> InBatch(q, u)
      BY <1>n, <2>2, <2>4 DEF InBatch
    <3>4. u < batch'[q].next => u < batch[q].next
      BY <1>n, <2>2, <2>4
    <3>5. Pending(q, u)' = Pending(q, u)
      BY <2>1, <3>3 DEF Pending
    <3> QED
      BY <2>1, <3>2, <3>4, <3>5 DEF CoveredBy, Running
  <2> QED
    BY <2>3, <2>4
<1>3. ASSUME NEW p \in Partition, Rebalance(p) PROVE CoveredBy(more)'
  <2>1. UNCHANGED <<committed, batch, pc, applied>>
    BY <1>3 DEF Rebalance
  <2>2. \A q \in Partition : position'[q] = IF q = p THEN committed[p] ELSE position[q]
    BY <1>3 DEF Rebalance, TypeOK
  <2>3. \A q \in Partition, u \in Offset : Running' /\ Pending(q, u)' = 0 => <<q, u>> \in more
    <3> SUFFICES ASSUME NEW q \in Partition, NEW u \in Offset, Running', Pending(q, u)' = 0
                 PROVE  <<q, u>> \in done
      BY <1>h, <2>1
    <3>1. u < position'[q] /\ ~ InBatch(q, u)'
      BY <1>n, <2>2 DEF Pending
    <3>2. CASE q = p
      BY <2>2, <3>1, <3>2 DEF CoveredBy
    <3>3. CASE q # p
      <4>1. Pending(q, u) = 0
        BY <1>n, <2>1, <2>2, <3>1, <3>3 DEF Pending, InBatch
      <4> QED
        BY <2>1, <4>1 DEF CoveredBy, Running
    <3> QED
      BY <3>2, <3>3
  <2> QED
    BY <1>h, <2>1, <2>3 DEF CoveredBy
<1>4. CASE PollFetches
  <2>1. PICK last \in [Partition -> 0 .. MaxOffset] :
          /\ \A q \in Partition : position[q] <= last[q]
          /\ batch' = [q \in Partition |-> Records(position[q], position[q], last[q])]
          /\ position' = last
    BY <1>4 DEF PollFetches, Fetched
  <2>2. /\ pc = "poll" /\ UNCHANGED <<committed, applied>>
    BY <1>4 DEF PollFetches
  <2>3. \A q \in Partition : batch[q].next = batch[q].last
    BY <1>n, <2>2 DEF Progress
  <2>4. \A q \in Partition : batch'[q].next = position[q] /\ batch'[q].last = position'[q]
    BY <2>1 DEF Records
  <2>5. \A q \in Partition : position[q] <= position'[q] /\ position'[q] \in Int
    BY <2>1, ConsumerAssumption
  <2>6. \A q \in Partition, u \in Offset : u < position[q] => <<q, u>> \in done
    <3>1. \A q \in Partition, u \in Offset : u < position[q] => Pending(q, u) = 0
      BY <1>n, <2>3 DEF Pending, InBatch
    <3> QED
      BY <2>2, <3>1 DEF CoveredBy, Running
  <2>7. \A q \in Partition, u \in Offset : Pending(q, u)' = 0 => u < position[q]
    BY <1>n, <2>4, <2>5 DEF Pending, InBatch
  <2> QED
    BY <1>h, <2>2, <2>4, <2>6, <2>7 DEF CoveredBy
<1>5. CASE FetchError
  BY <1>5, <1>s DEF FetchError, Running
<1>6. ASSUME batch' = NoRecords, UNCHANGED <<position, applied>>, pc = "batch", AllHandled,
             committed' \in {committed, CommitOffsets}
      PROVE CoveredBy(more)'
  <2>1. \A q \in Partition : batch[q].next = batch[q].last
    BY <1>6 DEF AllHandled
  <2>2. \A q \in Partition, u \in Offset : u < committed'[q] => <<q, u>> \in done
    BY <1>6, <2>1 DEF CoveredBy, CommitOffsets
  <2>3. \A q \in Partition, u \in Offset : Pending(q, u)' = 0 => Pending(q, u) = 0
    BY <1>6, <1>n, <2>1 DEF Pending, InBatch
  <2>4. \A q \in Partition, u \in Offset : ~ (u < batch'[q].next)
    BY <1>6, <1>e, <1>n
  <2> QED
    BY <1>6, <1>h, <2>2, <2>3, <2>4 DEF CoveredBy, Running
<1>7. CASE Commit
  BY <1>6, <1>7 DEF Commit
<1>8. CASE CommitError
  BY <1>6, <1>8 DEF CommitError
<1>9. CASE Stop
  BY <1>9, <1>s DEF Stop, Running
<1>10. CASE Cancel
  BY <1>10, <1>s DEF Cancel, Running
<1>11. CASE Crash
  <2>1. batch' = NoRecords /\ UNCHANGED <<committed, applied>> /\ ~ Running'
    BY <1>11 DEF Crash, Running
  <2>2. \A q \in Partition, u \in Offset : ~ (u < batch'[q].next)
    BY <1>e, <1>n, <2>1
  <2> QED
    BY <1>h, <2>1, <2>2 DEF CoveredBy
<1>12. CASE Restart
  <2>1. UNCHANGED <<committed, batch, applied>> /\ position' = committed
    BY <1>12 DEF Restart
  <2>2. \A q \in Partition, u \in Offset : Pending(q, u)' = 0 => u < committed[q]
    BY <1>n, <2>1 DEF Pending, InBatch
  <2> QED
    BY <1>h, <2>1, <2>2 DEF CoveredBy
<1>13. CASE UNCHANGED vars
  BY <1>13, <1>s DEF vars, Running
<1> QED
  BY <1>1, <1>2, <1>3, <1>4, <1>5, <1>7, <1>8, <1>9, <1>10, <1>11, <1>12, <1>13 DEF Next

-----------------------------------------------------------------------------
\* Nothing is fetched or committed that was not produced.
THEOREM TypeCorrect == Spec => []TypeOK
BY InitType, TypeStep, PTL DEF Spec

\* Only a crash, a stop or a rebalance makes the consumer handle a record
\* again, once each, for any partitions and faults.
THEOREM FewRedeliveries == Spec => []RedeliveredByRewindsOnly
<1>1. TypeOK /\ Accounted => RedeliveredByRewindsOnly
  <2> SUFFICES ASSUME TypeOK, Accounted, NEW p \in Partition, NEW o \in Offset
               PROVE  applied[p][o] <= 1 + rewinds[p]
    BY DEF RedeliveredByRewindsOnly
  <2>1. Pending(p, o) \in 0 .. 2 /\ applied[p][o] \in Nat /\ rewinds[p] \in Nat
    BY Numbers DEF Pending
  <2> QED
    BY <2>1 DEF Accounted
<1> QED
  BY <1>1, InitType, TypeStep, AccountedStep, PTL DEF Spec

\* As long as no fetch carries records and an error at once, the consumer
\* passes over no record, whatever else fails.
THEOREM NoRecordPassedOver ==
  ASSUME MixedFetches = FALSE PROVE Spec => []AtLeastOnce
<1>1. Covered => AtLeastOnce
  <2>1. \A p \in Partition, o \in Offset : <<p, o>> \in HandledRecords <=> Handled(p, o)
    BY DEF HandledRecords, Record
  <2> QED
    BY <2>1 DEF Covered, CoveredBy, AtLeastOnce, Handled
<1>2. ASSUME TypeOK, Progress, Covered, [Next]_vars PROVE Covered'
  <2>d. PICK done : done = HandledRecords
    OBVIOUS
  <2>m. PICK more : more = HandledRecords'
    OBVIOUS
  <2>1. ASSUME NEW p \in Partition, handleRecord(p)
        PROVE  /\ <<p, batch[p].next>> \in more
               /\ \A q \in Partition, u \in Offset : Handled(q, u) => Handled(q, u)'
    <3>1. /\ batch[p].next \in Offset
          /\ \A q \in Partition, u \in Offset :
               applied'[q][u] = IF q = p /\ u = batch[p].next /\ <<p, u>> \notin Malformed
                                THEN applied[q][u] + 1 ELSE applied[q][u]
      BY <1>2, <2>1, HandleEffect
    <3>2. ASSUME NEW q \in Partition, NEW u \in Offset
          PROVE  /\ Handled(q, u) => Handled(q, u)'
                 /\ q = p /\ u = batch[p].next => Handled(q, u)'
      <4>1. applied[q][u] \in Nat
        BY <1>2, Numbers
      <4>2. CASE q = p /\ u = batch[p].next
        BY <3>1, <4>1, <4>2 DEF Handled
      <4>3. CASE ~ (q = p /\ u = batch[p].next)
        <5>1. applied'[q][u] = applied[q][u]
          BY <3>1, <4>3
        <5> QED
          BY <4>3, <5>1 DEF Handled
      <4> QED
        BY <4>2, <4>3
    <3>3. \A u \in Offset : u = batch[p].next => Handled(p, u)'
      BY <3>1, <3>2
    <3> QED
      BY <2>m, <3>1, <3>2, <3>3 DEF HandledRecords, Record
  <2>2. ASSUME ~ \E p \in Partition : handleRecord(p) PROVE applied' = applied
    BY <1>2, <2>2 DEF Next, vars, Produce, Rebalance, PollFetches, FetchError, Commit, CommitError,
                      Stop, Cancel, Crash, Restart
  <2>3. \A q \in Partition, u \in Offset : Handled(q, u) => Handled(q, u)'
    BY <2>1, <2>2 DEF Handled
  <2>4. done \subseteq more
    BY <2>d, <2>m, <2>3 DEF HandledRecords, Record
  <2>5. CoveredBy(done)
    BY <1>2, <2>d DEF Covered
  <2>6. CoveredBy(more)'
    BY <1>2, <2>1, <2>4, <2>5, CoveredStep
  <2> QED
    BY <2>m, <2>6 DEF Covered, CoveredBy
<1> QED
  BY <1>1, <1>2, InitType, TypeStep, PTL DEF Spec

-----------------------------------------------------------------------------
(* Ingestion: what is in the window, and what the metrics say of it. *)

\* Why a record need not be counted any more.
Taken(r) ==
  \/ r \notin SearchEvent \ (Rejected \cup Old)
  \/ counted[r] > 0 \/ KeptOut(r) \/ r \in evicted

\* The records this process need not count, or has counted.
TakenRecords == {r \in Record : started[r[1]] <= r[2] => Taken(r)}

\* MetricsAddUp while a batch may be in hand: it is polled before it is
\* committed.
Sums ==
  /\ metrics.accepted + Cardinality(UnobservedHits) = Hits(taken, SearchEvent)
  /\ metrics.accepted + metrics.dropped + metrics.decodeErrors + Cardinality(Unobserved)
       = metrics.polled + posts + (IF observed THEN 0 ELSE InHand)
  /\ metrics.committed + (IF observed THEN InHand ELSE 0) <= metrics.polled

MetricsType ==
  [accepted : Nat, dropped : Nat, decodeErrors : Nat, polled : Nat, committed : Nat]

\* The window has nothing that was not taken, and what was taken stays in it
\* until its time is over or its bucket is cleared.
WindowType ==
  /\ minBucketID \in Int
  /\ counted \in [SearchEvent -> Nat] /\ taken \in [SearchEvent -> Nat]
  /\ \A e \in SearchEvent :
       /\ counted[e] <= taken[e]
       /\ taken[e] > 0 => /\ BucketOf[e] < minBucketID + Slots
                          /\ counted[e] > 0 \/ BucketOf[e] < minBucketID \/ e \in evicted

\* A call never looks at a window that is not there yet.
CallType ==
  /\ call = [c \in Caller |-> call[c]]
  /\ \A c \in Caller :
       call[c].result = "accepted" => call[c].now \in Int /\ call[c].now <= minBucketID

IngestionType ==
  /\ WindowType /\ CallType
  /\ posts \in Nat
  /\ metrics \in MetricsType
  /\ started \in [Partition -> Int]
  /\ observed \in BOOLEAN
  /\ observed => pc = "batch" /\ AllHandled

IngestionInv == TypeOK /\ Progress /\ IngestionType /\ (pc # "down" => Sums)

\* A step of ingestion, or a look of the refresher at the window.
Moves == [IngestionNext \/ ReadWindow]_ingestionVars

\* What a living process does to its window.
WindowMoves ==
  /\ minBucketID' \in Int /\ minBucketID <= minBucketID'
  /\ counted' \in [SearchEvent -> Nat] /\ taken' \in [SearchEvent -> Nat]
  /\ evicted \subseteq evicted'
  /\ \A e \in SearchEvent :
       /\ taken[e] <= taken'[e] /\ counted'[e] <= taken'[e]
       /\ taken[e] = taken'[e] \/ (BucketOf[e] < minBucketID + Slots /\ counted'[e] > 0)
       /\ counted[e] > 0 => counted'[e] > 0 \/ BucketOf[e] < minBucketID' \/ e \in evicted'

LEMMA EventsFinite ==
  IsFiniteSet(Record) /\ IsFiniteSet(SearchEvent)
<1>1. IsFiniteSet(Partition) /\ IsFiniteSet(Posted)
  BY IngestionAssumption
<1>2. IsFiniteSet(Offset)
  <2>1. 0 \in Int /\ MaxOffset - 1 \in Int
    BY ConsumerAssumption
  <2> QED
    BY <2>1, FS_Interval, Zenon DEF Offset
<1>3. IsFiniteSet(Record)
  BY <1>1, <1>2, FS_Product DEF Record
<1>4. IsFiniteSet(Record \ Malformed)
  BY <1>3, FS_Difference
<1> QED
  BY <1>1, <1>3, <1>4, FS_Union DEF SearchEvent

\* Ingestion does nothing to the consumer that the consumer does not do.
LEMMA ConsumerSteps == Moves => [Next]_vars
<1> SUFFICES ASSUME Moves PROVE [Next]_vars
  OBVIOUS
<1>1. ASSUME NEW p \in Partition, Handle(p) \/ ProduceDated(p) PROVE Next
  BY <1>1 DEF Handle, ProduceDated, Next
<1>2. CASE Poll \/ Disturb
  BY <1>2 DEF Poll, Disturb, Next
<1>3. CASE ObserveCommit \/ CrashEmpties \/ RestartEmpty
  BY <1>3 DEF ObserveCommit, CrashEmpties, RestartEmpty, Next
<1>4. ASSUME NEW c \in Caller, AddEvent(c) \/ Observe(c) PROVE UNCHANGED vars
  BY <1>4 DEF AddEvent, Observe
<1>5. CASE ObservePolled \/ Tick \/ ReadWindow
  BY <1>5 DEF ObservePolled, Tick, ReadWindow
<1>6. CASE UNCHANGED ingestionVars
  BY <1>6 DEF ingestionVars
<1> QED
  BY <1>1, <1>2, <1>3, <1>4, <1>5, <1>6 DEF Moves, IngestionNext, Consume, Caller

\* A sum over the events that count is the whole sum.
LEMMA TotalOfSome ==
  ASSUME NEW I, IsFiniteSet(I), NEW A \in SUBSET I, NEW c, \A i \in I : c[i] \in Nat,
         \A i \in I \ A : c[i] = 0
  PROVE  Total(c, I) = Total(c, A)
<1>1. Total(c, I) = Total(c, A) + Total(c, I \ A)
  BY TotalSplit
<1>2. Total(c, I \ A) = 0
  BY TotalZero
<1>3. Total(c, A) \in Nat
  <2>1. IsFiniteSet(A) /\ \A i \in A : c[i] \in Nat
    BY FS_Subset
  <2> QED BY <2>1, UnitsFinite
<1> QED BY <1>1, <1>2, <1>3

\* Queries are found where there are hits, and are finitely many.
LEMMA QueriesOf ==
  ASSUME NEW window, NEW events \in SUBSET SearchEvent
  PROVE  /\ IsFiniteSet(Queries(window, events))
         /\ \A q : q \in Queries(window, events)
                     <=> \E e \in events : window[e] > 0 /\ QueryOf[e] = q
<1> DEFINE hit == {f \in events : window[f] > 0}
<1>1. IsFiniteSet(hit)
  BY EventsFinite, FS_Subset
<1>2. Queries(window, events) = {QueryOf[e] : e \in hit}
  BY DEF Queries
<1>3. IsFiniteSet({QueryOf[e] : e \in hit})
  <2> DEFINE f == [e \in hit |-> QueryOf[e]]
             image == {QueryOf[e] : e \in hit}
  <2>1. f \in Surjection(hit, image)
    BY DEF Surjection
  <2> HIDE DEF f, image, hit
  <2>2. IsFiniteSet(image)
    BY <1>1, <2>1, FS_Surjection
  <2> QED BY <2>2 DEF image
<1> QED BY <1>2, <1>3

\* What ExpireAt leaves, at any time that is not ahead of the clock.
LEMMA ExpiredEffect ==
  ASSUME WindowType, NEW events, NEW now \in Int, now <= minBucketID
  PROVE  /\ Expired(events, now) \in [SearchEvent -> Nat]
         /\ \A f \in SearchEvent :
              /\ Expired(events, now)[f] <= counted[f]
              /\ counted[f] > 0 => Expired(events, now)[f] > 0 \/ BucketOf[f] < minBucketID
              /\ Expired(events, now)[f] > 0 /\ f \in events => BucketOf[f] >= now
<1>1. \A f \in SearchEvent : counted[f] \in Nat /\ BucketOf[f] \in Int
  BY IngestionAssumption DEF WindowType
<1>2. minBucketID \in Int
  BY DEF WindowType
<1> QED BY <1>1, <1>2 DEF Expired

LEMMA OnlyExpires ==
  ASSUME WindowType, NEW events, NEW now \in Int, now <= minBucketID,
         counted' = Expired(events, now), UNCHANGED <<minBucketID, taken, evicted>>
  PROVE  WindowMoves
<1> PICK window : window = Expired(events, now)
  OBVIOUS
<1>1. /\ window \in [SearchEvent -> Nat]
      /\ \A f \in SearchEvent :
           /\ window[f] <= counted[f]
           /\ counted[f] > 0 => window[f] > 0 \/ BucketOf[f] < minBucketID
  BY ExpiredEffect
<1>2. \A f \in SearchEvent : counted[f] \in Nat /\ taken[f] \in Nat /\ window[f] \in Nat
  BY <1>1 DEF WindowType
<1>3. \A f \in SearchEvent : window[f] <= taken[f] /\ taken[f] <= taken[f]
  BY <1>1, <1>2 DEF WindowType
<1> QED BY <1>1, <1>3 DEF WindowType, WindowMoves

\* What leaves the window alone.
LEMMA Unmoved ==
  ASSUME WindowType, UNCHANGED windowVars,
         minBucketID' = minBucketID \/ minBucketID' = minBucketID + 1
  PROVE  WindowMoves
<1>1. \A f \in SearchEvent : counted[f] \in Nat /\ taken[f] \in Nat
  BY DEF WindowType
<1>2. \A f \in SearchEvent : taken[f] <= taken[f] /\ counted[f] <= taken[f]
  BY <1>1 DEF WindowType
<1> QED BY <1>2 DEF WindowType, WindowMoves, windowVars

LEMMA WindowStep == WindowType /\ WindowMoves => WindowType'
<1> SUFFICES ASSUME WindowType, WindowMoves PROVE WindowType'
  OBVIOUS
<1>1. Slots \in Int /\ minBucketID \in Int /\ minBucketID' \in Int /\ minBucketID <= minBucketID'
  BY IngestionAssumption DEF WindowType, WindowMoves
<1>2. ASSUME NEW e \in SearchEvent, taken'[e] > 0
      PROVE  /\ BucketOf[e] < minBucketID' + Slots
             /\ counted'[e] > 0 \/ BucketOf[e] < minBucketID' \/ e \in evicted'
  <2>1. BucketOf[e] \in Int /\ taken[e] \in Nat /\ taken'[e] \in Nat
    BY IngestionAssumption DEF WindowType, WindowMoves
  <2>2. CASE taken[e] = taken'[e]
    <3>1. BucketOf[e] < minBucketID + Slots
          /\ (counted[e] > 0 \/ BucketOf[e] < minBucketID \/ e \in evicted)
      BY <1>2, <2>2 DEF WindowType
    <3> QED BY <1>1, <2>1, <3>1 DEF WindowMoves
  <2>3. CASE BucketOf[e] < minBucketID + Slots /\ counted'[e] > 0
    BY <1>1, <2>1, <2>3
  <2> QED BY <2>2, <2>3 DEF WindowMoves
<1> QED BY <1>2 DEF WindowType, WindowMoves

\* A limit that keeps an event out is not raised by what comes later.
LEMMA LimitsStay ==
  ASSUME WindowType, WindowMoves, NEW e \in SearchEvent, KeptOut(e), taken'[e] = 0
  PROVE  KeptOut(e)'
<1>1. \A f \in SearchEvent : taken[f] \in Nat /\ taken'[f] \in Nat /\ taken[f] <= taken'[f]
  BY DEF WindowType, WindowMoves
<1>2. /\ PerActorQueryLimit \in Nat /\ MaxUniqueQueries \in Nat
      /\ MaxUniqueQueriesPerBucket \in Nat
  BY IngestionAssumption
<1>3. CASE ActorOf[e] # NoActor /\ Hits(taken, Same(e) \cap Beside(e)) >= PerActorQueryLimit
  <2> PICK events : events = Same(e) \cap Beside(e)
    OBVIOUS
  <2>1. events \in SUBSET SearchEvent /\ IsFiniteSet(events)
    BY EventsFinite, FS_Subset DEF Same
  <2>2. \A f \in events : taken[f] \in Nat /\ taken'[f] \in Nat /\ taken[f] <= taken'[f]
    BY <1>1, <2>1
  <2>3. Total(taken, events) <= Total(taken', events)
    BY <2>1, <2>2, TotalGrows
  <2>4. Total(taken, events) \in Nat /\ Total(taken', events) \in Nat
    BY <2>1, <2>2, UnitsFinite
  <2>5. Total(taken', events) >= PerActorQueryLimit
    BY <1>2, <1>3, <2>3, <2>4 DEF Hits
  <2> QED BY <1>3, <2>5 DEF KeptOut, Hits, Same, Beside, Shard
<1>4. ASSUME NEW events \in SUBSET SearchEvent, NEW limit \in Nat,
             Cardinality(Queries(taken, events) \ {QueryOf[e]}) >= limit
      PROVE  Cardinality(Queries(taken', events) \ {QueryOf[e]}) >= limit
  <2> DEFINE before == Queries(taken, events) \ {QueryOf[e]}
             after == Queries(taken', events) \ {QueryOf[e]}
  <2>1. IsFiniteSet(Queries(taken', events)) /\ IsFiniteSet(Queries(taken, events))
    BY QueriesOf
  <2>2. Queries(taken, events) \subseteq Queries(taken', events)
    <3>1. \A f \in events : taken[f] > 0 => taken'[f] > 0
      BY <1>1
    <3> QED BY <3>1, QueriesOf
  <2>3. before \subseteq after /\ IsFiniteSet(after)
    BY <2>1, <2>2, FS_Difference
  <2>4. IsFiniteSet(before)
    BY <2>3, FS_Subset
  <2> HIDE DEF before, after
  <2>5. Cardinality(before) <= Cardinality(after)
    BY <2>3, FS_Subset
  <2>6. Cardinality(before) \in Nat /\ Cardinality(after) \in Nat
    BY <2>3, <2>4, FS_CardinalityType
  <2>7. Cardinality(before) >= limit
    BY <1>4 DEF before
  <2>8. Cardinality(after) >= limit
    BY <2>5, <2>6, <2>7
  <2> QED BY <2>8 DEF after
<1>5. Beside(e) \in SUBSET SearchEvent /\ Bucket(e) \in SUBSET SearchEvent
  BY DEF Beside, Bucket, Shard
<1>6. CASE Cardinality(Queries(taken, Beside(e)) \ {QueryOf[e]}) >= MaxUniqueQueries
  <2>1. Cardinality(Queries(taken', Beside(e)) \ {QueryOf[e]}) >= MaxUniqueQueries
    BY <1>2, <1>4, <1>5, <1>6
  <2> QED BY <2>1 DEF KeptOut, Queries, Beside, Shard
<1>7. CASE Cardinality(Queries(taken, Bucket(e)) \ {QueryOf[e]}) >= MaxUniqueQueriesPerBucket
  <2>1. Cardinality(Queries(taken', Bucket(e)) \ {QueryOf[e]}) >= MaxUniqueQueriesPerBucket
    BY <1>2, <1>4, <1>5, <1>7
  <2> QED BY <2>1 DEF KeptOut, Queries, Bucket, Shard
<1> QED BY <1>3, <1>6, <1>7 DEF KeptOut

\* As long as the process lives, what it need not count stays so.
LEMMA StaysTaken ==
  ASSUME WindowType, WindowMoves, NEW r \in Record \cup SearchEvent, Taken(r)
  PROVE  Taken(r)'
<1>1. CASE r \notin SearchEvent \ (Rejected \cup Old)
  <2>1. \A e \in SearchEvent : BucketOf[e] < minBucketID => BucketOf[e] < minBucketID'
    BY IngestionAssumption DEF WindowType, WindowMoves
  <2>2. r \in Old => r \in Old'
    BY <2>1 DEF Old, SearchEvent, Record, Offset
  <2> QED BY <1>1, <2>2 DEF Taken, SearchEvent, Record, Offset
<1>2. CASE r \in SearchEvent \ (Rejected \cup Old)
  <2>1. ASSUME BucketOf[r] < minBucketID' PROVE Taken(r)'
    <3>1. r \in Old'
      BY <1>2, <2>1 DEF Old, SearchEvent, Record, Offset
    <3> QED BY <3>1 DEF Taken
  <2>2. CASE counted[r] > 0
    BY <1>2, <2>1, <2>2 DEF WindowMoves, Taken
  <2>3. CASE r \in evicted
    BY <2>3 DEF WindowMoves, Taken
  <2>4. CASE KeptOut(r)
    <3>1. CASE taken'[r] = 0
      BY <1>2, <2>4, <3>1, LimitsStay DEF Taken
    <3>2. CASE taken'[r] # 0
      <4>1. counted'[r] > 0
        BY <1>2, <2>4, <3>2 DEF KeptOut, WindowMoves
      <4> QED BY <4>1 DEF Taken
    <3> QED BY <3>1, <3>2
  <2> QED BY <1>2, <2>2, <2>3, <2>4 DEF Taken
<1> QED BY <1>1, <1>2

\* What AddAt rejects need not be counted: it is too old, or others of the
\* events this process took used up a limit, or it is in the window already.
LEMMA Refused ==
  ASSUME WindowType, NEW e \in SearchEvent, NEW now \in Clocks(e),
         ~ Accepts(Expired(Shard(e), now), e, now)
  PROVE  Taken(e)
<1>0. /\ now \in Int /\ minBucketID \in Int /\ Slots \in Int /\ MaxLag \in Int
      /\ now <= minBucketID /\ minBucketID <= now + MaxLag
      /\ BucketOf[e] \in Int /\ BucketOf[e] < now + Slots
  BY IngestionAssumption DEF Clocks, WindowType
<1>1. SUFFICES ASSUME BucketOf[e] >= now, taken[e] = 0 PROVE Taken(e)
  <2>1. CASE ~ BucketOf[e] >= now
    <3>1. BucketOf[e] < minBucketID
      BY <1>0, <2>1
    <3> QED BY <3>1 DEF Taken, Old
  <2>2. CASE taken[e] # 0
    <3>1. taken[e] > 0
      BY <2>2 DEF WindowType
    <3> QED BY <3>1 DEF WindowType, Taken, Old
  <2> QED BY <1>1, <2>1, <2>2
<1> PICK window : window = Expired(Shard(e), now)
  OBVIOUS
<1>2. /\ window \in [SearchEvent -> Nat]
      /\ \A f \in SearchEvent :
           /\ window[f] <= counted[f]
           /\ window[f] > 0 /\ f \in Shard(e) => BucketOf[f] >= now
  BY <1>0, ExpiredEffect
<1>3. \A f \in SearchEvent :
        window[f] \in Nat /\ taken[f] \in Nat /\ window[f] <= taken[f] /\ BucketOf[f] \in Int
  <2>1. \A f \in SearchEvent : counted[f] \in Nat /\ taken[f] \in Nat /\ counted[f] <= taken[f]
    BY DEF WindowType
  <2> QED BY <1>2, <2>1, IngestionAssumption
<1>4. ASSUME NEW f \in Shard(e), window[f] > 0 PROVE f \in Beside(e) /\ taken[f] > 0
  <2>1. f \in SearchEvent /\ taken[f] > 0 /\ BucketOf[f] >= now
    BY <1>2, <1>3, <1>4 DEF Shard
  <2>2. BucketOf[f] < minBucketID + Slots
    BY <2>1 DEF WindowType
  <2>3. BucketOf[e] - Slots < BucketOf[f]
    BY <1>0, <1>3, <2>1
  <2>4. BucketOf[f] < BucketOf[e] + Slots + MaxLag
    BY <1>0, <1>1, <1>3, <2>1, <2>2
  <2> QED BY <1>4, <2>1, <2>3, <2>4 DEF Beside
<1>5. Same(e) \subseteq Shard(e) /\ Bucket(e) \subseteq Shard(e) /\ Shard(e) \subseteq SearchEvent
  BY DEF Same, Bucket, Shard
<1>6. CASE OverActorLimit(window, e)
  <2> DEFINE all == Same(e)
             some == Same(e) \cap Beside(e)
  <2>1. IsFiniteSet(all) /\ IsFiniteSet(some) /\ some \in SUBSET all
    <3>1. all \subseteq SearchEvent
      BY <1>5
    <3>2. some \subseteq SearchEvent
      BY <1>5
    <3> QED BY <3>1, <3>2, EventsFinite, FS_Subset
  <2>2. \A f \in all : window[f] \in Nat
    BY <1>3, <1>5
  <2>3. \A f \in all \ some : window[f] = 0
    <3>1. \A f \in all : window[f] > 0 => f \in some
      BY <1>4, <1>5
    <3> QED BY <2>2, <3>1
  <2>4. \A f \in some : window[f] \in Nat /\ taken[f] \in Nat /\ window[f] <= taken[f]
    BY <1>3, <1>5
  <2> HIDE DEF all, some
  <2>5. Total(window, all) = Total(window, some)
    BY <2>1, <2>2, <2>3, TotalOfSome
  <2>6. Total(window, some) <= Total(taken, some)
    BY <2>1, <2>4, TotalGrows
  <2>7. Total(window, some) \in Nat /\ Total(taken, some) \in Nat
    BY <2>1, <2>4, UnitsFinite
  <2>8. Total(window, all) >= PerActorQueryLimit /\ ActorOf[e] # NoActor
    BY <1>6 DEF OverActorLimit, Hits, all
  <2>9. Total(taken, some) >= PerActorQueryLimit
    BY <2>5, <2>6, <2>7, <2>8, IngestionAssumption
  <2> QED BY <1>1, <2>8, <2>9 DEF Taken, KeptOut, Hits, some
<1>7. ASSUME NEW from \in SUBSET Shard(e), NEW events \in SUBSET SearchEvent, NEW limit \in Nat,
             \A f \in from : window[f] > 0 => f \in events,
             NoRoom(window, from, e, limit)
      PROVE  Cardinality(Queries(taken, events) \ {QueryOf[e]}) >= limit
  <2> DEFINE seen == Queries(window, from)
             others == Queries(taken, events) \ {QueryOf[e]}
  <2>1. from \in SUBSET SearchEvent
    BY <1>5
  <2>2. IsFiniteSet(seen) /\ IsFiniteSet(others)
    BY <2>1, QueriesOf, FS_Difference
  <2>3. \A f \in from : window[f] > 0 => f \in events /\ taken[f] > 0
    BY <1>4, <1>7
  <2>4. seen \subseteq Queries(taken, events)
    BY <2>1, <2>3, QueriesOf
  <2>5. seen \subseteq others /\ Cardinality(seen) >= limit
    BY <1>7, <2>4 DEF NoRoom
  <2> HIDE DEF seen, others
  <2>6. Cardinality(seen) <= Cardinality(others)
    BY <2>2, <2>5, FS_Subset
  <2>7. Cardinality(seen) \in Nat /\ Cardinality(others) \in Nat
    BY <2>2, FS_CardinalityType
  <2>8. Cardinality(others) >= limit
    BY <2>5, <2>6, <2>7
  <2> QED BY <2>8 DEF others
<1>l. MaxUniqueQueries \in Nat /\ MaxUniqueQueriesPerBucket \in Nat
  BY IngestionAssumption
<1>8. CASE NoRoom(window, Shard(e), e, MaxUniqueQueries)
  <2>1. Beside(e) \in SUBSET SearchEvent
    BY <1>5 DEF Beside
  <2>2. Cardinality(Queries(taken, Beside(e)) \ {QueryOf[e]}) >= MaxUniqueQueries
    BY <1>l, <1>4, <1>7, <1>8, <2>1
  <2> QED BY <1>1, <2>2 DEF Taken, KeptOut
<1>9. CASE NoRoom(window, Bucket(e), e, MaxUniqueQueriesPerBucket)
  <2>1. Bucket(e) \in SUBSET SearchEvent
    BY <1>5
  <2>2. Cardinality(Queries(taken, Bucket(e)) \ {QueryOf[e]}) >= MaxUniqueQueriesPerBucket
    BY <1>l, <1>5, <1>7, <1>9, <2>1
  <2> QED BY <1>1, <2>2 DEF Taken, KeptOut
<1> QED BY <1>1, <1>6, <1>8, <1>9 DEF Accepts

\* What the processor makes of an event until AddAt returns.
LEMMA Processed ==
  ASSUME WindowType, NEW c \in Caller, NEW e \in SearchEvent, Process(c, e),
         UNCHANGED minBucketID
  PROVE  /\ WindowMoves /\ Taken(e)'
         /\ Hits(taken, SearchEvent) \in Nat
         /\ call[c] = NoCall
         /\ \E r : /\ call' = [call EXCEPT ![c] = r]
                   /\ r # NoCall
                   /\ r.result = "accepted" => r.now \in Int /\ r.now <= minBucketID
                   /\ Hits(taken, SearchEvent)'
                        = Hits(taken, SearchEvent) + (IF r.result = "accepted" THEN 1 ELSE 0)
<1>0. /\ IsFiniteSet(SearchEvent) /\ minBucketID \in Int /\ Slots \in Int /\ MaxLag \in Int
      /\ \A f \in SearchEvent :
           BucketOf[f] \in Int /\ counted[f] \in Nat /\ taken[f] \in Nat /\ counted[f] <= taken[f]
  BY EventsFinite, IngestionAssumption DEF WindowType
<1>1. Hits(taken, SearchEvent) \in Nat
  BY <1>0, UnitsFinite DEF Hits
<1>2. call[c] = NoCall
  BY DEF Process
<1>3. Dropped # NoCall /\ Dropped.result = "dropped"
  BY DEF Dropped, NoCall
<1>s. ASSUME UNCHANGED taken PROVE Hits(taken, SearchEvent)' = Hits(taken, SearchEvent)
  BY <1>s DEF Hits, SearchEvent, Record, Offset
<1>d. ASSUME call' = [call EXCEPT ![c] = Dropped],
             Hits(taken, SearchEvent)' = Hits(taken, SearchEvent)
      PROVE  \E r : /\ call' = [call EXCEPT ![c] = r]
                    /\ r # NoCall
                    /\ r.result = "accepted" => r.now \in Int /\ r.now <= minBucketID
                    /\ Hits(taken, SearchEvent)'
                         = Hits(taken, SearchEvent) + (IF r.result = "accepted" THEN 1 ELSE 0)
  <2>1. Hits(taken, SearchEvent)'
          = Hits(taken, SearchEvent) + (IF Dropped.result = "accepted" THEN 1 ELSE 0)
    BY <1>1, <1>3, <1>d
  <2>2. ~ Dropped.result = "accepted"
    BY <1>3
  <2> WITNESS Dropped
  <2> QED BY <1>3, <1>d, <2>1, <2>2
<1>4. CASE Drop(c, e)
  <2>1. e \in Rejected /\ call' = [call EXCEPT ![c] = Dropped] /\ UNCHANGED windowVars
    BY <1>4 DEF Drop, Returns
  <2>2. WindowMoves
    BY <2>1, Unmoved
  <2>3. Taken(e)'
    BY <2>1 DEF Taken
  <2>4. Hits(taken, SearchEvent)' = Hits(taken, SearchEvent)
    BY <1>s, <2>1 DEF windowVars
  <2> QED BY <1>1, <1>2, <1>d, <2>1, <2>2, <2>3, <2>4
<1>5. CASE AddAt(c, e)
  <2>1. PICK now \in Clocks(e) :
          LET window == Expired(Shard(e), now)
          IN  IF Accepts(window, e, now)
              THEN /\ counted' = Added(window, e)
                   /\ taken' = [taken EXCEPT ![e] = taken[e] + 1]
                   /\ evicted' = evicted \cup {f \in Replaced(e) : window[f] > 0}
                   /\ Returns(c, Accepted(e, now))
              ELSE /\ counted' = window
                   /\ Returns(c, Dropped)
                   /\ UNCHANGED <<taken, evicted>>
    BY <1>5 DEF AddAt
  <2>2. now \in Int /\ now <= minBucketID /\ BucketOf[e] < now + Slots
    BY <1>0 DEF Clocks
  <2>w. PICK window : window = Expired(Shard(e), now)
    OBVIOUS
  <2>3. /\ window \in [SearchEvent -> Nat]
        /\ \A f \in SearchEvent :
             /\ window[f] <= counted[f]
             /\ counted[f] > 0 => window[f] > 0 \/ BucketOf[f] < minBucketID
    BY <2>2, <2>w, ExpiredEffect
  <2>4. CASE Accepts(window, e, now)
    <3>1. /\ counted' = Added(window, e)
          /\ taken' = [taken EXCEPT ![e] = taken[e] + 1]
          /\ evicted' = evicted \cup {f \in Replaced(e) : window[f] > 0}
          /\ call' = [call EXCEPT ![c] = Accepted(e, now)]
      BY <2>1, <2>4, <2>w DEF Returns
    <3>2. e \notin Replaced(e)
      BY DEF Replaced
    <3>3. \A f \in SearchEvent : window[f] \in Nat
      BY <2>3
    <3>4. /\ counted' \in [SearchEvent -> Nat]
          /\ counted'[e] = window[e] + 1
          /\ \A f \in SearchEvent \ {e} :
               counted'[f] = IF f \in Replaced(e) THEN 0 ELSE window[f]
      BY <3>1, <3>2, <3>3 DEF Added
    <3>5. /\ taken' \in [SearchEvent -> Nat] /\ taken'[e] = taken[e] + 1
          /\ \A f \in SearchEvent \ {e} : taken'[f] = taken[f]
      BY <1>0, <3>1 DEF WindowType
    <3>6. WindowMoves
      <4>1. ASSUME NEW f \in SearchEvent
            PROVE  /\ taken[f] <= taken'[f] /\ counted'[f] <= taken'[f]
                   /\ taken[f] = taken'[f]
                      \/ (BucketOf[f] < minBucketID + Slots /\ counted'[f] > 0)
                   /\ counted[f] > 0
                        => counted'[f] > 0 \/ BucketOf[f] < minBucketID' \/ f \in evicted'
        <5>1. /\ window[f] <= counted[f] /\ window[f] \in Nat
              /\ counted[f] > 0 => window[f] > 0 \/ BucketOf[f] < minBucketID
          BY <2>3, <3>3
        <5>2. /\ counted[f] \in Nat /\ taken[f] \in Nat /\ counted[f] <= taken[f]
              /\ BucketOf[f] \in Int
          BY <1>0
        <5>3. CASE f = e
          BY <1>0, <2>2, <3>4, <3>5, <5>1, <5>2, <5>3
        <5>4. CASE f # e
          <6>1. taken'[f] = taken[f]
            BY <3>5, <5>4
          <6>2. CASE f \in Replaced(e)
            <7>1. counted'[f] = 0
              BY <3>4, <5>4, <6>2
            <7>2. window[f] > 0 => f \in evicted'
              BY <3>1, <6>2
            <7> QED BY <5>1, <5>2, <6>1, <7>1, <7>2
          <6>3. CASE f \notin Replaced(e)
            <7>1. counted'[f] = window[f]
              BY <3>4, <5>4, <6>3
            <7> QED BY <5>1, <5>2, <6>1, <7>1
          <6> QED BY <6>2, <6>3
        <5> QED BY <5>3, <5>4
      <4>2. evicted \subseteq evicted' /\ minBucketID' \in Int /\ minBucketID <= minBucketID'
        BY <1>0, <3>1
      <4> QED BY <3>4, <3>5, <4>1, <4>2 DEF WindowMoves
    <3>7. Taken(e)'
      <4>1. counted'[e] > 0
        BY <3>3, <3>4
      <4> QED BY <4>1 DEF Taken
    <3>8. Hits(taken, SearchEvent)' = Hits(taken, SearchEvent) + 1
      <4>1. Total(taken', SearchEvent) = Total(taken, SearchEvent) + 1
        BY <1>0, <3>5, TotalHit
      <4> QED BY <4>1 DEF Hits, SearchEvent, Record, Offset
    <3>9. /\ Accepted(e, now) # NoCall /\ Accepted(e, now).result = "accepted"
          /\ Accepted(e, now).now = now
      BY DEF Accepted, NoCall
    <3> QED BY <1>1, <1>2, <2>2, <3>1, <3>6, <3>7, <3>8, <3>9
  <2>5. CASE ~ Accepts(window, e, now)
    <3>1. /\ counted' = Expired(Shard(e), now) /\ UNCHANGED <<taken, evicted>>
          /\ call' = [call EXCEPT ![c] = Dropped]
      BY <2>1, <2>5, <2>w DEF Returns
    <3>2. WindowMoves
      BY <2>2, <3>1, OnlyExpires
    <3>3. Taken(e)
      BY <2>5, <2>w, Refused
    <3>4. Taken(e)'
      BY <3>2, <3>3, StaysTaken
    <3>5. Hits(taken, SearchEvent)' = Hits(taken, SearchEvent)
      BY <1>s, <3>1
    <3> QED BY <1>1, <1>2, <1>d, <3>1, <3>2, <3>4, <3>5
  <2> QED BY <2>4, <2>5
<1> QED BY <1>4, <1>5 DEF Process

\* The rest of Process takes from the window what is expired.
LEMMA Counts ==
  ASSUME WindowType, CallType, NEW c \in Caller, Observe(c)
  PROVE  WindowMoves
<1>1. UNCHANGED <<minBucketID, taken, evicted>> /\ CountAt(c)
  BY DEF Observe
<1>2. CASE call[c].result = "accepted"
  <2>1. counted' = Expired(Shard(call[c].event), call[c].now)
    BY <1>1, <1>2 DEF CountAt
  <2>2. call[c].now \in Int /\ call[c].now <= minBucketID
    BY <1>2 DEF CallType
  <2> QED BY <1>1, <2>1, <2>2, OnlyExpires
<1>3. CASE call[c].result # "accepted"
  <2>1. UNCHANGED windowVars /\ minBucketID' = minBucketID
    BY <1>1, <1>3 DEF CountAt, windowVars
  <2> QED BY <2>1, Unmoved
<1> QED BY <1>2, <1>3

\* What a call that returns, and the metrics that see it, do to the numbers
\* of those between the two.
LEMMA CallsCount ==
  ASSUME CallType
  PROVE  /\ IsFiniteSet(Unobserved) /\ IsFiniteSet(UnobservedHits)
         /\ Cardinality(Unobserved) \in Nat /\ Cardinality(UnobservedHits) \in Nat
<1>1. IsFiniteSet(Caller)
  <2>1. IsFiniteSet({Consumer})
    BY FS_Singleton
  <2> QED BY <2>1, IngestionAssumption, FS_Union DEF Caller
<1>2. Unobserved \subseteq Caller /\ UnobservedHits \subseteq Caller
  BY DEF Unobserved, UnobservedHits
<1>3. IsFiniteSet(Unobserved) /\ IsFiniteSet(UnobservedHits)
  BY <1>1, <1>2, FS_Subset
<1> QED BY <1>3, FS_CardinalityType

LEMMA CallReturns ==
  ASSUME CallType, NEW c \in Caller, call[c] = NoCall, NEW r, r # NoCall,
         call' = [call EXCEPT ![c] = r]
  PROVE  /\ Cardinality(Unobserved)' = Cardinality(Unobserved) + 1
         /\ Cardinality(UnobservedHits)'
              = Cardinality(UnobservedHits) + (IF r.result = "accepted" THEN 1 ELSE 0)
<1>1. /\ call'[c] = r /\ \A d \in Caller \ {c} : call'[d] = call[d]
  BY DEF CallType
<1>2. call[c].result = "none"
  BY DEF NoCall
<1>3. /\ Unobserved' = {d \in Caller : call'[d] # NoCall}
      /\ UnobservedHits' = {d \in Caller : call'[d].result = "accepted"}
  BY DEF Unobserved, UnobservedHits, Caller, NoCall
<1>4. Unobserved' = Unobserved \cup {c} /\ c \notin Unobserved
  BY <1>1, <1>3 DEF Unobserved
<1>5. c \notin UnobservedHits
  BY <1>2 DEF UnobservedHits
<1>6. CASE r.result = "accepted"
  <2>1. UnobservedHits' = UnobservedHits \cup {c}
    BY <1>1, <1>3, <1>6 DEF UnobservedHits
  <2>2. Cardinality(UnobservedHits \cup {c}) = Cardinality(UnobservedHits) + 1
    BY <1>5, CallsCount, FS_AddElement
  <2>3. Cardinality(Unobserved \cup {c}) = Cardinality(Unobserved) + 1
    BY <1>4, CallsCount, FS_AddElement
  <2> QED BY <1>4, <1>6, <2>1, <2>2, <2>3
<1>7. CASE r.result # "accepted"
  <2>1. UnobservedHits' = UnobservedHits
    BY <1>1, <1>3, <1>5, <1>7 DEF UnobservedHits
  <2>2. Cardinality(UnobservedHits) \in Nat
    BY CallsCount
  <2>3. Cardinality(Unobserved \cup {c}) = Cardinality(Unobserved) + 1
    BY <1>4, CallsCount, FS_AddElement
  <2> QED BY <1>4, <1>7, <2>1, <2>2, <2>3
<1> QED BY <1>6, <1>7

LEMMA CallObserved ==
  ASSUME CallType, NEW c \in Caller, call[c] # NoCall, call' = [call EXCEPT ![c] = NoCall]
  PROVE  /\ Cardinality(Unobserved) = Cardinality(Unobserved)' + 1
         /\ Cardinality(Unobserved)' \in Nat /\ Cardinality(UnobservedHits)' \in Nat
         /\ Cardinality(UnobservedHits)
              = Cardinality(UnobservedHits)' + (IF call[c].result = "accepted" THEN 1 ELSE 0)
<1>1. /\ call'[c] = NoCall /\ \A d \in Caller \ {c} : call'[d] = call[d]
  BY DEF CallType
<1>2. NoCall.result = "none"
  BY DEF NoCall
<1>3. /\ Unobserved' = {d \in Caller : call'[d] # NoCall}
      /\ UnobservedHits' = {d \in Caller : call'[d].result = "accepted"}
  BY DEF Unobserved, UnobservedHits, Caller, NoCall
<1>4. c \notin Unobserved' /\ Unobserved = Unobserved' \cup {c}
  BY <1>1, <1>3 DEF Unobserved
<1>5. c \notin UnobservedHits'
  BY <1>1, <1>2, <1>3
<1>6. IsFiniteSet(Unobserved') /\ IsFiniteSet(UnobservedHits')
  <2>1. Unobserved' \subseteq Unobserved
    BY <1>4
  <2>2. UnobservedHits' \subseteq UnobservedHits
    BY <1>1, <1>3, <1>5 DEF UnobservedHits
  <2> QED BY <2>1, <2>2, CallsCount, FS_Subset
<1>7. Cardinality(Unobserved') \in Nat /\ Cardinality(UnobservedHits') \in Nat
  BY <1>6, FS_CardinalityType
<1>8. Cardinality(Unobserved' \cup {c}) = Cardinality(Unobserved') + 1
  BY <1>4, <1>6, FS_AddElement
<1>9. CASE call[c].result = "accepted"
  <2>1. UnobservedHits = UnobservedHits' \cup {c}
    BY <1>1, <1>3, <1>5, <1>9 DEF UnobservedHits
  <2>2. Cardinality(UnobservedHits' \cup {c}) = Cardinality(UnobservedHits') + 1
    BY <1>5, <1>6, FS_AddElement
  <2> QED BY <1>4, <1>7, <1>8, <1>9, <2>1, <2>2
<1>10. CASE call[c].result # "accepted"
  <2>1. UnobservedHits = UnobservedHits'
    BY <1>1, <1>3, <1>5, <1>10 DEF UnobservedHits
  <2> QED BY <1>4, <1>7, <1>8, <1>10, <2>1
<1> QED BY <1>9, <1>10

\* The part of the batch in hand grows by the record that is handled.
LEMMA InHandGrows ==
  ASSUME TypeOK, Progress
  PROVE  /\ InHand \in Nat
         /\ \A p \in Partition : handleRecord(p) => InHand' = InHand + 1
         /\ (\A p \in Partition : batch[p].first = batch[p].next) => InHand = 0
<1> DEFINE part == {r \in Record : batch[r[1]].first <= r[2] /\ r[2] < batch[r[1]].next}
<1>1. IsFiniteSet(part)
  BY EventsFinite, FS_Subset
<1>2. InHand = Cardinality(part) /\ InHand \in Nat
  BY <1>1, FS_CardinalityType DEF InHand
<1>n. /\ \A q \in Partition :
           batch[q].first \in Int /\ batch[q].next \in Int /\ batch[q].last \in Int
      /\ \A r \in Record : r = <<r[1], r[2]>> /\ r[1] \in Partition /\ r[2] \in Int
  BY Numbers DEF Record
<1>3. ASSUME NEW p \in Partition, handleRecord(p) PROVE InHand' = InHand + 1
  <2> DEFINE o == batch[p].next
             grown == {r \in Record : batch'[r[1]].first <= r[2] /\ r[2] < batch'[r[1]].next}
  <2>1. /\ o \in Offset /\ batch[p].first <= o
        /\ \A q \in Partition : /\ batch'[q].first = batch[q].first
                                /\ batch'[q].next = IF q = p THEN o + 1 ELSE batch[q].next
    BY <1>3, HandleEffect DEF Progress
  <2>2. <<p, o>> \in Record /\ <<p, o>> \notin part
    BY <1>n, <2>1 DEF Record
  <2>3. ASSUME NEW r \in Record PROVE r \in grown <=> r \in part \/ r = <<p, o>>
    <3>1. r = <<r[1], r[2]>> /\ r[1] \in Partition /\ r[2] \in Int
      BY <1>n
    <3>2. CASE r[1] = p
      <4>1. r \in grown <=> batch[p].first <= r[2] /\ r[2] < o + 1
        BY <2>1, <3>2
      <4>2. r \in part <=> batch[p].first <= r[2] /\ r[2] < o
        BY <3>2
      <4>3. r = <<p, o>> <=> r[2] = o
        BY <3>1, <3>2
      <4> HIDE DEF grown, part
      <4> QED
        BY <1>n, <2>1, <3>1, <4>1, <4>2, <4>3
    <3>3. CASE r[1] # p
      <4>1. batch'[r[1]].first = batch[r[1]].first /\ batch'[r[1]].next = batch[r[1]].next
        BY <2>1, <3>1, <3>3
      <4>2. r # <<p, o>>
        BY <3>1, <3>3
      <4> QED
        BY <4>1, <4>2
    <3> QED
      BY <3>2, <3>3
  <2>4. grown = part \cup {<<p, o>>}
    BY <2>2, <2>3
  <2>5. InHand' = Cardinality(grown)
    BY DEF InHand, Record, Offset
  <2> HIDE DEF part, grown, o
  <2>6. Cardinality(part \cup {<<p, o>>}) = Cardinality(part) + 1
    BY <1>1, <2>2, FS_AddElement
  <2> QED
    BY <1>2, <2>4, <2>5, <2>6
<1>4. ASSUME \A p \in Partition : batch[p].first = batch[p].next PROVE InHand = 0
  <2>1. part = {}
    BY <1>n, <1>4
  <2> HIDE DEF part
  <2> QED
    BY <1>2, <2>1, FS_EmptySet
<1> QED
  BY <1>2, <1>3, <1>4

\* Nothing is in hand where no record is done.
LEMMA NoneDone ==
  ASSUME NEW b, \A p \in Partition : b[p].first \in Int /\ b[p].first = b[p].next
  PROVE  Cardinality({r \in Record : b[r[1]].first <= r[2] /\ r[2] < b[r[1]].next}) = 0
<1>1. {r \in Record : b[r[1]].first <= r[2] /\ r[2] < b[r[1]].next} = {}
  <2>1. \A r \in Record : r[1] \in Partition /\ r[2] \in Int
    BY ConsumerAssumption DEF Record, Offset
  <2> QED
    BY <2>1
<1> QED
  BY <1>1, FS_EmptySet

\* Between two batches nothing is in hand.
LEMMA BetweenBatches ==
  ASSUME NEW b \in [Partition -> BatchType],
         \A p \in Partition : /\ b[p].first <= b[p].next /\ b[p].next <= b[p].last
                             /\ b[p].first = 0 /\ b[p].last = 0
  PROVE  /\ \A p \in Partition : b[p].next = b[p].last
         /\ Cardinality({r \in Record : b[r[1]].first <= r[2] /\ r[2] < b[r[1]].next}) = 0
<1>1. ASSUME NEW p \in Partition
      PROVE  /\ b[p].first \in Int /\ b[p].next \in Int /\ b[p].last \in Int
             /\ b[p].first = b[p].next /\ b[p].next = b[p].last
  <2>1. b[p] \in BatchType
    OBVIOUS
  <2>2. b[p].first \in Int /\ b[p].next \in Int /\ b[p].last \in Int
    BY <2>1, ConsumerAssumption DEF BatchType
  <2>3. b[p].first <= b[p].next /\ b[p].next <= b[p].last /\ b[p].first = 0 /\ b[p].last = 0
    OBVIOUS
  <2> QED
    BY <2>2, <2>3
<1> QED
  BY <1>1, NoneDone

LEMMA NothingLeft ==
  ASSUME TypeOK, Progress
  PROVE  pc # "batch" => AllHandled /\ InHand = 0
BY BetweenBatches DEF TypeOK, Progress, AllHandled, InHand

LEMMA NothingLeftNext ==
  ASSUME TypeOK', Progress'
  PROVE  pc' # "batch" => AllHandled' /\ InHand' = 0
BY BetweenBatches DEF TypeOK, Progress, AllHandled, InHand, Record, Offset, BatchType

\* Nothing calls the processor in a process that starts.
LEMMA NoCallsYet ==
  /\ NoCalls = [c \in Caller |-> NoCalls[c]]
  /\ \A c \in Caller : NoCalls[c] = NoCall /\ NoCalls[c].result = "none"
BY DEF NoCalls, NoCall

\* A window that holds nothing, and counters that have counted nothing.
LEMMA EmptyAddsUp ==
  /\ Nothing \in [SearchEvent -> Nat] /\ \A e \in SearchEvent : Nothing[e] = 0
  /\ Hits(Nothing, SearchEvent) = 0
  /\ NoMetrics \in MetricsType
  /\ NoMetrics.accepted = 0 /\ NoMetrics.dropped = 0 /\ NoMetrics.decodeErrors = 0
  /\ NoMetrics.polled = 0 /\ NoMetrics.committed = 0
  /\ \A c \in Caller : NoCalls[c] = NoCall
  /\ {c \in Caller : NoCalls[c] # NoCall} = {} /\ {c \in Caller : NoCalls[c].result = "accepted"} = {}
  /\ Cardinality({}) = 0
<1>1. \A e \in SearchEvent : Nothing[e] = 0
  BY DEF Nothing
<1>2. Hits(Nothing, SearchEvent) = 0
  BY <1>1, TotalZero DEF Hits
<1>3. Nothing \in [SearchEvent -> Nat]
  BY DEF Nothing
<1>4. /\ NoMetrics \in MetricsType
      /\ NoMetrics.accepted = 0 /\ NoMetrics.dropped = 0 /\ NoMetrics.decodeErrors = 0
      /\ NoMetrics.polled = 0 /\ NoMetrics.committed = 0
  BY DEF NoMetrics, MetricsType
<1>5. /\ {c \in Caller : NoCalls[c] # NoCall} = {}
      /\ {c \in Caller : NoCalls[c].result = "accepted"} = {}
  BY NoCallsYet
<1> QED BY <1>1, <1>2, <1>3, <1>4, <1>5, NoCallsYet, FS_EmptySet

LEMMA StartsAtNothing ==
  ASSUME Init
  PROVE  \A p \in Partition :
           /\ committed[p] = 0 /\ position[p] = 0
           /\ batch[p].first = 0 /\ batch[p].next = 0 /\ batch[p].last = 0
<1>1. \A p \in Partition : committed[p] = 0 /\ position[p] = 0
  BY DEF Init
<1>2. batch = NoRecords
  BY DEF Init
<1> QED BY <1>1, <1>2, NothingInHand

LEMMA InitIngested == IngestionInit => IngestionInv /\ CoveredBy(TakenRecords)
<1> SUFFICES ASSUME IngestionInit PROVE IngestionInv /\ CoveredBy(TakenRecords)
  OBVIOUS
<1>0. Init
  BY DEF IngestionInit
<1>1. TypeOK /\ Progress
  BY <1>0, InitType
<1>2. IngestionType
  <2>1. committed \in [Partition -> Int]
    BY DEF IngestionInit, Init
  <2>2. metrics \in MetricsType
    BY EmptyAddsUp DEF IngestionInit
  <2>3. WindowType
    BY EmptyAddsUp DEF IngestionInit, WindowType
  <2>4. CallType
    BY NoCallsYet DEF IngestionInit, CallType
  <2> QED
    BY <2>1, <2>2, <2>3, <2>4 DEF IngestionInit, IngestionType
<1>3. CoveredBy(TakenRecords)
  <2>1. \A p \in Partition : committed[p] = 0 /\ position[p] = 0 /\ batch[p].next = 0
    BY <1>0, StartsAtNothing
  <2>2. \A o \in Offset : o \in Int /\ 0 <= o
    BY ConsumerAssumption DEF Offset
  <2> QED
    BY <2>1, <2>2 DEF CoveredBy, Pending
<1>4. Sums
  <2>1. Hits(taken, SearchEvent) = 0
    BY EmptyAddsUp DEF IngestionInit
  <2>2. \A p \in Partition : batch[p].first = batch[p].next /\ batch[p].next = batch[p].last
    BY <1>0, StartsAtNothing
  <2>3. InHand = 0
    BY <1>1, <2>2, InHandGrows
  <2>4. Cardinality(Unobserved) = 0 /\ Cardinality(UnobservedHits) = 0
    BY EmptyAddsUp DEF IngestionInit, Unobserved, UnobservedHits
  <2>5. /\ metrics.accepted = 0 /\ metrics.dropped = 0 /\ metrics.decodeErrors = 0
        /\ metrics.polled = 0 /\ metrics.committed = 0 /\ posts = 0 /\ observed = FALSE
    BY EmptyAddsUp DEF IngestionInit
  <2> QED
    BY <2>1, <2>3, <2>4, <2>5 DEF Sums
<1> QED
  BY <1>1, <1>2, <1>3, <1>4 DEF IngestionInv

\* No time passes for a call, and a call that does not change stays legal.
LEMMA CallsStay ==
  ASSUME WindowType, CallType, UNCHANGED call,
         minBucketID' = minBucketID \/ minBucketID' = minBucketID + 1
  PROVE  CallType'
<1>1. minBucketID \in Int
  BY DEF WindowType
<1>2. \A c \in Caller : call[c].result = "accepted" => call[c].now <= minBucketID'
  BY <1>1 DEF CallType
<1> QED BY <1>2 DEF CallType, Caller

LEMMA CallTypeReturns ==
  ASSUME CallType, UNCHANGED minBucketID, NEW c \in Caller, NEW r,
         r.result = "accepted" => r.now \in Int /\ r.now <= minBucketID,
         call' = [call EXCEPT ![c] = r]
  PROVE  CallType'
<1>1. /\ call'[c] = r /\ \A d \in Caller \ {c} : call'[d] = call[d]
      /\ call' = [d \in Caller |-> call'[d]]
  BY DEF CallType
<1>2. ASSUME NEW d \in Caller
      PROVE  call'[d].result = "accepted" => call'[d].now \in Int /\ call'[d].now <= minBucketID
  BY <1>1 DEF CallType
<1> QED BY <1>1, <1>2 DEF CallType, Caller

\* What a step of a living process does to the window, and to the calls.
LEMMA LivingStep ==
  ASSUME TypeOK, IngestionType, Moves, ~ CrashEmpties, ~ RestartEmpty
  PROVE  WindowMoves /\ CallType'
<1>t. WindowType /\ CallType
  BY DEF IngestionType
<1>1. ASSUME NEW c \in Caller, NEW e \in SearchEvent, Process(c, e), UNCHANGED minBucketID
      PROVE  WindowMoves /\ CallType'
  <2>1. WindowMoves
    BY <1>1, <1>t, Processed
  <2>2. PICK r : /\ call' = [call EXCEPT ![c] = r]
                 /\ r.result = "accepted" => r.now \in Int /\ r.now <= minBucketID
    BY <1>1, <1>t, Processed
  <2>3. CallType'
    BY <1>1, <1>t, <2>2, CallTypeReturns
  <2> QED BY <2>1, <2>3
<1>2. ASSUME UNCHANGED <<counted, taken, evicted, call>>,
             minBucketID' = minBucketID \/ minBucketID' = minBucketID + 1
      PROVE  WindowMoves /\ CallType'
  <2>1. UNCHANGED windowVars
    BY <1>2 DEF windowVars
  <2> QED BY <1>2, <1>t, <2>1, Unmoved, CallsStay
<1>3. ASSUME NEW c \in Caller, Observe(c) PROVE WindowMoves /\ CallType'
  <2>1. NoCall.result = "none"
    BY DEF NoCall
  <2>2. call' = [call EXCEPT ![c] = NoCall] /\ UNCHANGED minBucketID
    BY <1>3 DEF Observe
  <2>3. CallType'
    BY <1>t, <2>1, <2>2, CallTypeReturns
  <2> QED BY <1>3, <1>t, <2>3, Counts
<1>4. ASSUME NEW c \in Poster, AddEvent(c) PROVE WindowMoves /\ CallType'
  <2>1. PICK e \in Posted : Process(c, e)
    BY <1>4 DEF AddEvent
  <2>2. c \in Caller /\ e \in SearchEvent /\ UNCHANGED minBucketID
    BY <1>4 DEF AddEvent, Caller, SearchEvent
  <2> QED BY <1>1, <2>1, <2>2
<1>5. ASSUME NEW p \in Partition, Handle(p) PROVE WindowMoves /\ CallType'
  <2>1. PICK r : r = <<p, batch[p].next>>
    OBVIOUS
  <2>2. r \in Record /\ UNCHANGED minBucketID /\ Consumer \in Caller
    BY <1>5, <2>1, HandleEffect DEF Handle, Record, Caller
  <2>3. CASE r \in Malformed
    BY <1>2, <1>5, <2>1, <2>2, <2>3 DEF Handle, windowVars
  <2>4. CASE r \notin Malformed
    <3>1. Process(Consumer, r) /\ r \in SearchEvent
      BY <1>5, <2>1, <2>2, <2>4 DEF Handle, SearchEvent
    <3> QED BY <1>1, <2>2, <3>1
  <2> QED BY <2>3, <2>4
<1>6. CASE ReadWindow
  <2>1. PICK now \in minBucketID - MaxLag .. minBucketID : counted' = Expired(SearchEvent, now)
    BY <1>6 DEF ReadWindow
  <2>2. now \in Int /\ now <= minBucketID
    BY <1>t, IngestionAssumption DEF WindowType
  <2>3. UNCHANGED <<minBucketID, taken, evicted, call>>
    BY <1>6 DEF ReadWindow
  <2>4. WindowMoves
    BY <1>t, <2>1, <2>2, <2>3, OnlyExpires
  <2>5. CallType'
    BY <1>t, <2>3, CallsStay
  <2> QED BY <2>4, <2>5
<1>7. CASE Poll \/ Disturb \/ ObservePolled \/ ObserveCommit
  BY <1>2, <1>7 DEF Poll, Disturb, ObservePolled, ObserveCommit, processVars, windowVars
<1>8. ASSUME NEW p \in Partition, ProduceDated(p) PROVE WindowMoves /\ CallType'
  BY <1>2, <1>8 DEF ProduceDated, processVars, windowVars
<1>9. CASE Tick
  BY <1>2, <1>9 DEF Tick, processVars, windowVars
<1>10. CASE UNCHANGED ingestionVars
  BY <1>2, <1>10 DEF ingestionVars, processVars, windowVars
<1> QED
  BY <1>3, <1>4, <1>5, <1>6, <1>7, <1>8, <1>9, <1>10 DEF Moves, IngestionNext, Consume, Caller

\* The batch is not touched between its count and its commit.
LEMMA ObservedStep ==
  ASSUME TypeOK, Progress, IngestionType, Moves
  PROVE  observed' \in BOOLEAN /\ (observed' => pc' = "batch" /\ AllHandled')
<1>0. observed \in BOOLEAN /\ (observed => pc = "batch" /\ AllHandled)
  BY DEF IngestionType
<1>1. ASSUME UNCHANGED <<observed, batch, pc>>
      PROVE  observed' \in BOOLEAN /\ (observed' => pc' = "batch" /\ AllHandled')
  BY <1>0, <1>1 DEF AllHandled
<1>2. ASSUME observed' = FALSE
      PROVE  observed' \in BOOLEAN /\ (observed' => pc' = "batch" /\ AllHandled')
  BY <1>2
<1>3. ASSUME NEW p \in Partition, Handle(p)
      PROVE  observed' \in BOOLEAN /\ (observed' => pc' = "batch" /\ AllHandled')
  <2>1. batch[p].next < batch[p].last /\ batch[p].next \in Int /\ batch[p].last \in Int
    BY <1>3, Numbers DEF Handle, handleRecord
  <2>2. ~ AllHandled
    BY <2>1 DEF AllHandled
  <2> QED BY <1>0, <1>2, <1>3, <2>2 DEF Handle
<1>4. CASE ObservePolled
  BY <1>4 DEF ObservePolled, vars, AllHandled
<1>5. CASE ObserveCommit \/ CrashEmpties \/ RestartEmpty
  BY <1>2, <1>5 DEF ObserveCommit, CrashEmpties, RestartEmpty, Empties
<1>6. CASE Poll
  <2>1. pc = "poll"
    BY <1>6 DEF Poll, PollFetches, Stop
  <2>2. observed' = FALSE
    BY <1>0, <1>6, <2>1 DEF Poll, processVars
  <2> QED BY <1>2, <2>2
<1>7. ASSUME NEW p \in Partition, ProduceDated(p) \/ (Rebalance(p) /\ UNCHANGED processVars)
      PROVE  observed' \in BOOLEAN /\ (observed' => pc' = "batch" /\ AllHandled')
  BY <1>1, <1>7 DEF ProduceDated, Produce, Rebalance, processVars
<1>8. CASE Disturb
  BY <1>1, <1>7, <1>8 DEF Disturb, FetchError, Cancel, processVars
<1>9. ASSUME NEW c \in Caller, AddEvent(c) \/ Observe(c)
      PROVE  observed' \in BOOLEAN /\ (observed' => pc' = "batch" /\ AllHandled')
  BY <1>1, <1>9 DEF AddEvent, Observe, vars
<1>10. CASE Tick \/ ReadWindow
  BY <1>1, <1>10 DEF Tick, ReadWindow, processVars, vars
<1>11. CASE UNCHANGED ingestionVars
  BY <1>1, <1>11 DEF ingestionVars, processVars, vars
<1> QED
  BY <1>3, <1>4, <1>5, <1>6, <1>7, <1>8, <1>9, <1>10, <1>11
     DEF Moves, IngestionNext, Consume, Caller

LEMMA CountersStep ==
  ASSUME TypeOK, Progress, IngestionType, Moves
  PROVE  posts' \in Nat /\ metrics' \in MetricsType /\ started' \in [Partition -> Int]
<1>0. posts \in Nat /\ metrics \in MetricsType /\ started \in [Partition -> Int] /\ InHand \in Nat
  BY InHandGrows DEF IngestionType
<1>m. /\ [metrics EXCEPT !.accepted = @ + 1] \in MetricsType
      /\ [metrics EXCEPT !.dropped = @ + 1] \in MetricsType
      /\ [metrics EXCEPT !.decodeErrors = @ + 1] \in MetricsType
      /\ [metrics EXCEPT !.polled = @ + InHand] \in MetricsType
      /\ [metrics EXCEPT !.committed = @ + InHand] \in MetricsType
  BY <1>0 DEF MetricsType
<1>1. ASSUME NEW p \in Partition, Handle(p)
      PROVE  metrics' \in MetricsType /\ posts' \in Nat /\ started' \in [Partition -> Int]
  BY <1>0, <1>1, <1>m DEF Handle
<1>2. ASSUME NEW c \in Caller, Observe(c)
      PROVE  metrics' \in MetricsType /\ posts' \in Nat /\ started' \in [Partition -> Int]
  BY <1>0, <1>2, <1>m DEF Observe
<1>3. ASSUME NEW c \in Poster, AddEvent(c)
      PROVE  metrics' \in MetricsType /\ posts' \in Nat /\ started' \in [Partition -> Int]
  BY <1>0, <1>3 DEF AddEvent
<1>4. CASE ObservePolled \/ ObserveCommit
  BY <1>0, <1>4, <1>m DEF ObservePolled, ObserveCommit
<1>5. CASE CrashEmpties
  BY <1>0, <1>5, EmptyAddsUp DEF CrashEmpties, Empties
<1>6. CASE RestartEmpty
  <2>1. started' \in [Partition -> Int]
    BY <1>6, ConsumerAssumption DEF RestartEmpty, TypeOK
  <2> QED BY <1>6, <2>1, EmptyAddsUp DEF RestartEmpty, Empties
<1>7. ASSUME UNCHANGED <<posts, metrics, started>>
      PROVE  metrics' \in MetricsType /\ posts' \in Nat /\ started' \in [Partition -> Int]
  BY <1>0, <1>7
<1>8. CASE Poll \/ Disturb \/ Tick \/ ReadWindow \/ UNCHANGED ingestionVars
  BY <1>7, <1>8 DEF Poll, Disturb, Tick, ReadWindow, ingestionVars, processVars
<1>9. ASSUME NEW p \in Partition, ProduceDated(p) PROVE UNCHANGED <<posts, metrics, started>>
  BY <1>9 DEF ProduceDated, processVars
<1> QED
  BY <1>1, <1>2, <1>3, <1>4, <1>5, <1>6, <1>7, <1>8, <1>9 DEF Moves, IngestionNext, Consume, Caller

LEMMA IngestionTypeStep ==
  ASSUME TypeOK, Progress, IngestionType, Moves
  PROVE  IngestionType'
<1>1. WindowType' /\ CallType'
  <2>1. CASE ~ CrashEmpties /\ ~ RestartEmpty
    BY <2>1, LivingStep, WindowStep DEF IngestionType
  <2>2. CASE CrashEmpties \/ RestartEmpty
    <3>1. /\ counted' = Nothing /\ taken' = Nothing /\ call' = NoCalls
          /\ minBucketID' = minBucketID
      BY <2>2 DEF CrashEmpties, RestartEmpty, Empties
    <3>2. WindowType'
      <4>1. /\ counted' \in [SearchEvent -> Nat] /\ taken' \in [SearchEvent -> Nat]
            /\ \A e \in SearchEvent : counted'[e] = 0 /\ taken'[e] = 0
        BY <3>1, EmptyAddsUp
      <4> QED BY <3>1, <4>1 DEF WindowType, IngestionType
    <3>3. CallType'
      BY <3>1, NoCallsYet DEF CallType, Caller
    <3> QED BY <3>2, <3>3
  <2> QED BY <2>1, <2>2
<1> QED
  BY <1>1, ObservedStep, CountersStep DEF IngestionType

LEMMA SumsStep ==
  ASSUME TypeOK, Progress, IngestionType, pc # "down" => Sums, Moves
  PROVE  pc' # "down" => Sums'
<1> SUFFICES ASSUME pc' # "down" PROVE Sums'
  OBVIOUS
<1>h. TypeOK' /\ Progress' /\ IngestionType'
  BY ConsumerSteps, TypeStep, IngestionTypeStep
<1>t. WindowType /\ CallType /\ observed \in BOOLEAN /\ (observed => pc = "batch")
  BY DEF IngestionType
<1>i. /\ InHand \in Nat /\ posts \in Nat
      /\ metrics.accepted \in Nat /\ metrics.dropped \in Nat /\ metrics.decodeErrors \in Nat
      /\ metrics.polled \in Nat /\ metrics.committed \in Nat
      /\ Cardinality(Unobserved) \in Nat /\ Cardinality(UnobservedHits) \in Nat
      /\ Hits(taken, SearchEvent) \in Nat
  <2>1. Hits(taken, SearchEvent) \in Nat
    BY EventsFinite, UnitsFinite DEF IngestionType, WindowType, Hits
  <2>2. posts \in Nat /\ metrics \in MetricsType
    BY DEF IngestionType
  <2> QED BY <1>t, <2>1, <2>2, InHandGrows, CallsCount DEF MetricsType
<1>c. ASSUME UNCHANGED call
      PROVE  /\ Cardinality(Unobserved)' = Cardinality(Unobserved)
             /\ Cardinality(UnobservedHits)' = Cardinality(UnobservedHits)
  BY <1>c DEF Unobserved, UnobservedHits, Caller, NoCall
<1>k. ASSUME UNCHANGED taken PROVE Hits(taken, SearchEvent)' = Hits(taken, SearchEvent)
  BY <1>k DEF Hits, SearchEvent, Record, Offset
<1>b. ASSUME UNCHANGED batch PROVE InHand' = InHand
  BY <1>b DEF InHand, Record, Offset
<1>s. ASSUME pc # "down", UNCHANGED <<batch, taken, call, posts, observed, metrics>> PROVE Sums'
  BY <1>s, <1>c, <1>k, <1>b DEF Sums
<1>1. ASSUME NEW p \in Partition, Handle(p) PROVE Sums'
  <2>1. PICK r : r = <<p, batch[p].next>>
    OBVIOUS
  <2>2. /\ r \in Record /\ UNCHANGED <<minBucketID, posts, observed>> /\ pc = "batch"
        /\ Consumer \in Caller /\ InHand' = InHand + 1 /\ call[Consumer] = NoCall
    BY <1>1, <2>1, HandleEffect, InHandGrows DEF Handle, handleRecord, Record, Caller
  <2>3. observed = FALSE
    <3>1. batch[p].next < batch[p].last /\ batch[p].next \in Int /\ batch[p].last \in Int
      BY <1>1, Numbers DEF Handle, handleRecord
    <3>2. ~ AllHandled
      BY <3>1 DEF AllHandled
    <3> QED BY <1>t, <3>2 DEF IngestionType
  <2>4. Sums
    BY <2>2
  <2>5. CASE r \in Malformed
    <3>1. UNCHANGED <<taken, call>> /\ metrics' = [metrics EXCEPT !.decodeErrors = @ + 1]
      BY <1>1, <2>1, <2>5 DEF Handle, windowVars
    <3>2. /\ metrics'.accepted = metrics.accepted /\ metrics'.dropped = metrics.dropped
          /\ metrics'.decodeErrors = metrics.decodeErrors + 1
          /\ metrics'.polled = metrics.polled /\ metrics'.committed = metrics.committed
      BY <3>1 DEF IngestionType, MetricsType
    <3>3. /\ metrics.accepted + Cardinality(UnobservedHits) = Hits(taken, SearchEvent)
          /\ metrics.accepted + metrics.dropped + metrics.decodeErrors + Cardinality(Unobserved)
               = metrics.polled + posts + InHand
          /\ metrics.committed <= metrics.polled
      BY <1>i, <2>3, <2>4 DEF Sums
    <3>4. metrics'.accepted + Cardinality(UnobservedHits)' = Hits(taken, SearchEvent)'
      BY <1>c, <1>k, <3>1, <3>2, <3>3
    <3>5. metrics'.accepted + metrics'.dropped + metrics'.decodeErrors + Cardinality(Unobserved)'
            = metrics'.polled + posts' + InHand'
      BY <1>c, <1>i, <2>2, <3>1, <3>2, <3>3
    <3>6. observed' = FALSE /\ metrics'.committed + 0 <= metrics'.polled
      BY <1>i, <2>2, <2>3, <3>2, <3>3
    <3> QED BY <3>4, <3>5, <3>6 DEF Sums
  <2>6. CASE r \notin Malformed
    <3>1. Process(Consumer, r) /\ r \in SearchEvent /\ UNCHANGED metrics
      BY <1>1, <2>1, <2>2, <2>6 DEF Handle, SearchEvent
    <3>2. PICK a : /\ call' = [call EXCEPT ![Consumer] = a]
                   /\ a # NoCall
                   /\ Hits(taken, SearchEvent)'
                        = Hits(taken, SearchEvent) + (IF a.result = "accepted" THEN 1 ELSE 0)
      BY <1>t, <2>2, <3>1, Processed
    <3>3. /\ Cardinality(Unobserved)' = Cardinality(Unobserved) + 1
          /\ Cardinality(UnobservedHits)'
               = Cardinality(UnobservedHits) + (IF a.result = "accepted" THEN 1 ELSE 0)
      BY <1>t, <2>2, <3>2, CallReturns
    <3>4. /\ metrics.accepted + Cardinality(UnobservedHits) = Hits(taken, SearchEvent)
          /\ metrics.accepted + metrics.dropped + metrics.decodeErrors + Cardinality(Unobserved)
               = metrics.polled + posts + InHand
          /\ metrics.committed + 0 <= metrics.polled
      BY <2>3, <2>4 DEF Sums
    <3>5. metrics.accepted + Cardinality(UnobservedHits)' = Hits(taken, SearchEvent)'
      BY <1>i, <3>2, <3>3, <3>4
    <3>6. metrics.accepted + metrics.dropped + metrics.decodeErrors + Cardinality(Unobserved)'
            = metrics.polled + posts + InHand'
      <4>1. Cardinality(Unobserved)' = Cardinality(Unobserved) + 1 /\ InHand' = InHand + 1
        BY <2>2, <3>3
      <4>2. PICK t \in Nat : t = metrics.accepted + metrics.dropped + metrics.decodeErrors
        BY <1>i
      <4>3. PICK s \in Nat : s = metrics.polled + posts
        BY <1>i
      <4>4. PICK n \in Nat, h \in Nat : n = Cardinality(Unobserved) /\ h = InHand
        BY <1>i
      <4>5. t + n = s + h
        BY <3>4, <4>2, <4>3, <4>4
      <4>6. t + (n + 1) = s + (h + 1)
        BY <4>5
      <4>7. Cardinality(Unobserved)' = n + 1 /\ InHand' = h + 1
        BY <4>1, <4>4
      <4> QED BY <4>2, <4>3, <4>6, <4>7
    <3> QED BY <2>2, <2>3, <3>1, <3>4, <3>5, <3>6 DEF Sums
  <2> QED BY <2>5, <2>6
<1>2. ASSUME NEW c \in Caller, Observe(c) PROVE Sums'
  <2>1. /\ call[c] # NoCall /\ call' = [call EXCEPT ![c] = NoCall]
        /\ UNCHANGED <<batch, pc, taken, posts, observed>>
        /\ metrics' = IF call[c].result = "accepted" THEN [metrics EXCEPT !.accepted = @ + 1]
                      ELSE [metrics EXCEPT !.dropped = @ + 1]
    BY <1>2 DEF Observe, vars
  <2>2. Sums /\ InHand' = InHand /\ Hits(taken, SearchEvent)' = Hits(taken, SearchEvent)
    BY <1>b, <1>k, <2>1
  <2>3. /\ Cardinality(Unobserved) = Cardinality(Unobserved)' + 1
        /\ Cardinality(Unobserved)' \in Nat /\ Cardinality(UnobservedHits)' \in Nat
        /\ Cardinality(UnobservedHits)
             = Cardinality(UnobservedHits)' + (IF call[c].result = "accepted" THEN 1 ELSE 0)
    BY <1>t, <2>1, CallObserved
  <2>4. /\ metrics'.accepted = metrics.accepted + (IF call[c].result = "accepted" THEN 1 ELSE 0)
        /\ metrics'.dropped = metrics.dropped + (IF call[c].result = "accepted" THEN 0 ELSE 1)
        /\ metrics'.decodeErrors = metrics.decodeErrors
        /\ metrics'.polled = metrics.polled /\ metrics'.committed = metrics.committed
    <3>1. metrics \in MetricsType
      BY DEF IngestionType
    <3>2. CASE call[c].result = "accepted"
      BY <1>i, <2>1, <3>1, <3>2 DEF MetricsType
    <3>3. CASE call[c].result # "accepted"
      BY <1>i, <2>1, <3>1, <3>3 DEF MetricsType
    <3> QED BY <3>2, <3>3
  <2>5. metrics'.accepted + Cardinality(UnobservedHits)' = Hits(taken, SearchEvent)'
    BY <1>i, <2>2, <2>3, <2>4 DEF Sums
  <2>6. metrics'.accepted + metrics'.dropped = metrics.accepted + metrics.dropped + 1
    BY <1>i, <2>4
  <2>7. metrics.accepted + metrics.dropped + metrics.decodeErrors + Cardinality(Unobserved)
          = metrics'.accepted + metrics'.dropped + metrics'.decodeErrors + Cardinality(Unobserved)'
    <3>1. metrics'.accepted \in Nat /\ metrics'.dropped \in Nat
      BY <1>i, <2>4
    <3> QED BY <1>i, <2>3, <2>4, <2>6, <3>1
  <2>8. metrics.accepted + metrics.dropped + metrics.decodeErrors + Cardinality(Unobserved)
          = metrics.polled + posts + (IF observed THEN 0 ELSE InHand)
    BY <2>2 DEF Sums
  <2>9. metrics'.accepted + metrics'.dropped + metrics'.decodeErrors + Cardinality(Unobserved)'
          = metrics'.polled + posts' + (IF observed' THEN 0 ELSE InHand')
    BY <2>1, <2>2, <2>4, <2>7, <2>8
  <2>10. metrics'.committed + (IF observed' THEN InHand' ELSE 0) <= metrics'.polled
    BY <2>1, <2>2, <2>4 DEF Sums
  <2> QED BY <2>5, <2>9, <2>10 DEF Sums
<1>3. ASSUME NEW c \in Poster, AddEvent(c) PROVE Sums'
  <2>1. PICK e \in Posted : Process(c, e)
    BY <1>3 DEF AddEvent
  <2>2. /\ c \in Caller /\ e \in SearchEvent /\ posts' = posts + 1
        /\ UNCHANGED <<minBucketID, batch, pc, observed, metrics>>
    BY <1>3 DEF AddEvent, Caller, SearchEvent, vars
  <2>3. PICK a : /\ call[c] = NoCall /\ call' = [call EXCEPT ![c] = a]
                 /\ a # NoCall
                 /\ Hits(taken, SearchEvent)'
                      = Hits(taken, SearchEvent) + (IF a.result = "accepted" THEN 1 ELSE 0)
    BY <1>t, <2>1, <2>2, Processed
  <2>4. /\ Cardinality(Unobserved)' = Cardinality(Unobserved) + 1
        /\ Cardinality(UnobservedHits)'
             = Cardinality(UnobservedHits) + (IF a.result = "accepted" THEN 1 ELSE 0)
    BY <1>t, <2>2, <2>3, CallReturns
  <2>5. Sums /\ InHand' = InHand
    BY <1>b, <2>2
  <2>6. metrics.accepted + Cardinality(UnobservedHits)' = Hits(taken, SearchEvent)'
    BY <1>i, <2>3, <2>4, <2>5 DEF Sums
  <2>7. metrics.accepted + metrics.dropped + metrics.decodeErrors + Cardinality(Unobserved)'
          = metrics.polled + (posts + 1) + (IF observed THEN 0 ELSE InHand)
    <3>1. PICK hand \in Nat : hand = IF observed THEN 0 ELSE InHand
      BY <1>i
    <3>2. Cardinality(Unobserved)' = Cardinality(Unobserved) + 1
      BY <2>4
    <3>3. metrics.accepted + metrics.dropped + metrics.decodeErrors + Cardinality(Unobserved)
            = metrics.polled + posts + hand
      BY <2>5, <3>1 DEF Sums
    <3>4. metrics.accepted + metrics.dropped + metrics.decodeErrors + Cardinality(Unobserved)'
            = metrics.polled + (posts + 1) + hand
      <4>1. PICK t \in Nat : t = metrics.accepted + metrics.dropped + metrics.decodeErrors
        BY <1>i
      <4>2. PICK n \in Nat, m \in Nat, k \in Nat :
              n = Cardinality(Unobserved) /\ m = metrics.polled /\ k = posts
        BY <1>i
      <4>3. t + n = m + k + hand
        BY <3>3, <4>1, <4>2
      <4>4. hand \in Nat
        BY <3>1
      <4>5. t + (n + 1) = m + (k + 1) + hand
        BY <4>3, <4>4
      <4> QED BY <3>2, <4>1, <4>2, <4>5
    <3> QED BY <3>1, <3>4
  <2> QED BY <2>2, <2>5, <2>6, <2>7 DEF Sums
<1>4. CASE ObservePolled
  <2>1. /\ pc = "batch" /\ observed = FALSE /\ observed' = TRUE
        /\ UNCHANGED <<batch, taken, call, posts>>
        /\ metrics' = [metrics EXCEPT !.polled = @ + InHand]
    BY <1>4, <1>t DEF ObservePolled, vars, windowVars
  <2>2. Sums /\ InHand' = InHand
    BY <1>b, <2>1
  <2>3. /\ metrics'.accepted = metrics.accepted /\ metrics'.dropped = metrics.dropped
        /\ metrics'.decodeErrors = metrics.decodeErrors
        /\ metrics'.polled = metrics.polled + InHand /\ metrics'.committed = metrics.committed
    BY <1>i, <2>1 DEF IngestionType, MetricsType
  <2>4. /\ metrics.accepted + Cardinality(UnobservedHits) = Hits(taken, SearchEvent)
        /\ metrics.accepted + metrics.dropped + metrics.decodeErrors + Cardinality(Unobserved)
             = metrics.polled + posts + InHand
        /\ metrics.committed + 0 <= metrics.polled
    BY <2>1, <2>2 DEF Sums
  <2>5. metrics'.accepted + Cardinality(UnobservedHits)' = Hits(taken, SearchEvent)'
    BY <1>c, <1>k, <2>1, <2>3, <2>4
  <2>6. metrics'.accepted + metrics'.dropped + metrics'.decodeErrors + Cardinality(Unobserved)'
          = metrics'.polled + posts' + 0
    BY <1>c, <1>i, <2>1, <2>3, <2>4
  <2>7. metrics'.committed + InHand' <= metrics'.polled
    BY <1>i, <2>2, <2>3, <2>4
  <2> QED BY <2>1, <2>5, <2>6, <2>7 DEF Sums
<1>5. CASE ObserveCommit
  <2>1. /\ observed /\ observed' = FALSE /\ pc # "down" /\ pc' # "batch"
        /\ UNCHANGED <<taken, call, posts>>
    BY <1>5 DEF ObserveCommit, Commit, CommitError, windowVars
  <2>2. InHand' = 0
    BY <1>h, <2>1, NothingLeftNext
  <2>3. /\ metrics'.accepted = metrics.accepted /\ metrics'.dropped = metrics.dropped
        /\ metrics'.decodeErrors = metrics.decodeErrors /\ metrics'.polled = metrics.polled
        /\ metrics'.committed \in {metrics.committed, metrics.committed + InHand}
    BY <1>i, <1>5 DEF ObserveCommit, IngestionType, MetricsType
  <2>4. /\ metrics.accepted + Cardinality(UnobservedHits) = Hits(taken, SearchEvent)
        /\ metrics.accepted + metrics.dropped + metrics.decodeErrors + Cardinality(Unobserved)
             = metrics.polled + posts + 0
        /\ metrics.committed + InHand <= metrics.polled
    BY <2>1 DEF Sums
  <2>5. metrics'.accepted + Cardinality(UnobservedHits)' = Hits(taken, SearchEvent)'
    BY <1>c, <1>k, <2>1, <2>3, <2>4
  <2>6. metrics'.accepted + metrics'.dropped + metrics'.decodeErrors + Cardinality(Unobserved)'
          = metrics'.polled + posts' + InHand'
    BY <1>c, <1>i, <2>1, <2>2, <2>3, <2>4
  <2>7. metrics'.committed + 0 <= metrics'.polled
    BY <1>i, <2>3, <2>4
  <2> QED BY <2>1, <2>5, <2>6, <2>7 DEF Sums
<1>6. CASE Poll
  <2>1. /\ pc = "poll" /\ observed = FALSE /\ observed' = FALSE
        /\ UNCHANGED <<taken, call, posts, metrics>>
    BY <1>6, <1>t DEF Poll, PollFetches, Stop, processVars, windowVars
  <2>2. InHand = 0
    BY <2>1, NothingLeft
  <2>3. InHand' = 0
    <3>1. CASE PollFetches
      <4>1. batch' = [p \in Partition |-> batch'[p]]
            /\ \A p \in Partition : batch'[p].first = batch'[p].next
        BY <3>1 DEF PollFetches, Records
      <4>2. \A p \in Partition : batch'[p].first \in Int
        BY <1>h, ConsumerAssumption DEF TypeOK, BatchType
      <4> QED
        BY <4>1, <4>2, NoneDone DEF InHand, Record, Offset
    <3>2. CASE Stop
      BY <1>b, <2>2, <3>2 DEF Stop
    <3> QED BY <1>6, <3>1, <3>2 DEF Poll
  <2> QED BY <1>c, <1>k, <2>1, <2>2, <2>3 DEF Sums
<1>7. CASE RestartEmpty
  <2>1. /\ taken' = Nothing /\ call' = NoCalls /\ posts' = 0 /\ observed' = FALSE
        /\ metrics' = NoMetrics /\ pc' # "batch"
    BY <1>7 DEF RestartEmpty, Empties, Restart
  <2>2. InHand' = 0
    BY <1>h, <2>1, NothingLeftNext
  <2>3. Hits(taken, SearchEvent)' = 0
    <3>1. \A e \in SearchEvent : taken'[e] = 0
      BY <2>1, EmptyAddsUp
    <3>2. Total(taken', SearchEvent) = 0
      BY <3>1, TotalZero
    <3> QED BY <3>2 DEF Hits, SearchEvent, Record, Offset
  <2>4. Cardinality(Unobserved)' = 0 /\ Cardinality(UnobservedHits)' = 0
    BY <2>1, EmptyAddsUp DEF Unobserved, UnobservedHits, Caller, NoCall
  <2> QED BY <2>1, <2>2, <2>3, <2>4, EmptyAddsUp DEF Sums
<1>8. CASE CrashEmpties
  BY <1>8 DEF CrashEmpties, Crash
<1>9. ASSUME NEW p \in Partition, ProduceDated(p) PROVE Sums'
  BY <1>9, <1>s DEF ProduceDated, Produce, processVars, windowVars
<1>10. CASE Disturb
  BY <1>10, <1>s DEF Disturb, FetchError, Cancel, Rebalance, processVars, windowVars
<1>11. CASE Tick \/ ReadWindow \/ UNCHANGED ingestionVars
  BY <1>11, <1>s DEF Tick, ReadWindow, ingestionVars, processVars, windowVars, vars
<1> QED
  BY <1>1, <1>2, <1>3, <1>4, <1>5, <1>6, <1>7, <1>8, <1>9, <1>10, <1>11
     DEF Moves, IngestionNext, Consume, Caller

LEMMA TakenStep ==
  ASSUME MixedFetches = FALSE, TypeOK, Progress, IngestionType,
         pc # "down" => CoveredBy(TakenRecords), Moves
  PROVE  pc' # "down" => CoveredBy(TakenRecords)'
<1> SUFFICES ASSUME pc' # "down" PROVE CoveredBy(TakenRecords)'
  OBVIOUS
<1>h. TypeOK' /\ Progress' /\ IngestionType' /\ [Next]_vars
  BY ConsumerSteps, TypeStep, IngestionTypeStep
<1>r. \A p \in Partition, o \in Offset :
        <<p, o>> \in TakenRecords <=> (started[p] <= o => Taken(<<p, o>>))
  BY DEF TakenRecords, Record
<1>R. \A p \in Partition, o \in Offset :
        <<p, o>> \in TakenRecords' <=> (started'[p] <= o => Taken(<<p, o>>)')
  BY DEF TakenRecords, Record, Offset
\* A new process has nothing to answer for.
<1>1. CASE RestartEmpty
  <2>1. started' = committed /\ committed' = committed /\ position' = committed /\ pc' # "batch"
    BY <1>1 DEF RestartEmpty, Restart
  <2>2. \A p \in Partition : batch'[p].next = 0
    <3>1. \A p \in Partition : batch'[p].next \in Int
      BY <1>h, ConsumerAssumption DEF TypeOK, BatchType
    <3> QED
      BY <1>h, <2>1, <3>1 DEF Progress
  <2>3. \A p \in Partition, o \in Offset : /\ o \in Int /\ 0 <= o
                                          /\ committed[p] \in Int
    BY Numbers
  <2>4. \A p \in Partition, o \in Offset : o < committed[p] => <<p, o>> \in TakenRecords'
    BY <1>R, <2>1, <2>3
  <2>5. \A p \in Partition, o \in Offset : Pending(p, o)' = 0 => o < committed[p]
    BY <2>1, <2>3 DEF Pending
  <2>6. ASSUME NEW p \in Partition, NEW o \in Offset
        PROVE  /\ o < committed'[p] => <<p, o>> \in TakenRecords'
               /\ o < batch'[p].next => <<p, o>> \in TakenRecords'
               /\ Pending(p, o)' = 0 => <<p, o>> \in TakenRecords'
    BY <2>1, <2>2, <2>3, <2>4, <2>5
  <2> QED
    BY <2>6 DEF CoveredBy, Offset
<1>2. CASE ~ RestartEmpty
  <2>1. pc # "down" /\ started' = started /\ ~ CrashEmpties
    <3>1. ~ CrashEmpties
      BY DEF CrashEmpties, Crash
    <3>2. ASSUME NEW p \in Partition, Handle(p) \/ ProduceDated(p) PROVE pc' = pc /\ started' = started
      BY <3>2 DEF Handle, handleRecord, ProduceDated, Produce, processVars
    <3>3. ASSUME NEW c \in Caller, AddEvent(c) \/ Observe(c) PROVE pc' = pc /\ started' = started
      BY <3>3 DEF AddEvent, Observe, vars
    <3>4. CASE Poll \/ Disturb
      BY <3>1, <3>4 DEF Poll, Disturb, PollFetches, Stop, FetchError, Cancel, Rebalance, processVars
    <3>5. CASE ObservePolled \/ ObserveCommit
      BY <3>1, <3>5 DEF ObservePolled, ObserveCommit, Commit, CommitError
    <3>6. CASE Tick \/ ReadWindow \/ UNCHANGED ingestionVars
      BY <3>1, <3>6 DEF Tick, ReadWindow, ingestionVars, processVars, vars
    <3> QED
      BY <1>2, <3>1, <3>2, <3>3, <3>4, <3>5, <3>6 DEF Moves, IngestionNext, Consume, Caller
  <2>2. WindowMoves /\ WindowType
    BY <1>2, <2>1, LivingStep DEF IngestionType
  <2>4. ASSUME NEW p \in Partition, Handle(p)
        PROVE  \A r \in Record : r = <<p, batch[p].next>> => Taken(r)'
    <3>1. PICK r : r = <<p, batch[p].next>>
      OBVIOUS
    <3>2. r \in Record /\ UNCHANGED minBucketID /\ Consumer \in Caller
      BY <2>4, <3>1, HandleEffect DEF Handle, Record, Caller
    <3>3. CASE r \in Malformed
      <4>1. r \notin SearchEvent
        BY <3>2, <3>3, IngestionAssumption DEF SearchEvent
      <4>2. r \notin SearchEvent'
        BY <4>1 DEF SearchEvent, Record, Offset
      <4> QED BY <3>1, <4>2 DEF Taken
    <3>4. CASE r \notin Malformed
      <4>1. Process(Consumer, r) /\ r \in SearchEvent
        BY <2>4, <3>1, <3>2, <3>4 DEF Handle, SearchEvent
      <4>2. Taken(r)'
        BY <2>2, <3>2, <4>1, Processed
      <4> QED BY <3>1, <4>2
    <3> QED BY <3>3, <3>4
  <2>6. \A r \in Record : Taken(r) => Taken(r)'
    BY <2>2, StaysTaken
  <2>7. PICK done : done = TakenRecords
    OBVIOUS
  <2>8. PICK more : more = TakenRecords'
    OBVIOUS
  <2>9. done \subseteq more
    BY <2>1, <2>6, <2>7, <2>8 DEF TakenRecords, Record, Offset
  <2>10. ASSUME NEW p \in Partition, handleRecord(p) PROVE <<p, batch[p].next>> \in more
    <3>1. pc = "batch" /\ ~ AllHandled
      BY <2>10, Numbers DEF handleRecord, AllHandled
    <3>2. batch'[p].next = batch[p].next + 1 /\ batch[p].next \in Int
      BY <2>10, HandleEffect, Numbers
    <3>3. batch' # batch
      BY <3>2
    <3>4. PICK q \in Partition : Handle(q)
      <4>1. ~ Poll /\ ~ ObserveCommit
        BY <3>1, <2>10 DEF Poll, PollFetches, Stop, ObserveCommit, Commit, CommitError, handleRecord
      <4>2. ~ (ObservePolled \/ Disturb \/ Tick \/ ReadWindow \/ UNCHANGED ingestionVars)
        BY <3>3 DEF ObservePolled, Disturb, FetchError, Cancel, Rebalance, Tick, ReadWindow,
                    ingestionVars, vars
      <4>3. \A c \in Caller : ~ AddEvent(c) /\ ~ Observe(c)
        BY <3>3 DEF AddEvent, Observe, vars
      <4>4. \A p1 \in Partition : ~ ProduceDated(p1)
        BY <3>3 DEF ProduceDated, Produce
      <4> QED
        BY <1>2, <2>1, <4>1, <4>2, <4>3, <4>4 DEF Moves, IngestionNext, Consume, Caller
    <3>5. q = p
      <4>1. q # p => batch'[p].next = batch[p].next
        BY <3>4, HandleEffect DEF Handle
      <4> QED
        BY <3>2, <4>1
    <3>6. \A r \in Record : r = <<p, batch[p].next>> => r \in more
      BY <2>4, <2>8, <3>4, <3>5 DEF TakenRecords, Record, Offset
    <3> QED
      BY <2>10, <3>6, HandleEffect DEF Record
  <2>11. CoveredBy(done)
    BY <2>1, <2>7
  <2>12. CoveredBy(more)'
    BY <1>h, <2>9, <2>10, <2>11, CoveredStep
  <2> QED
    BY <2>8, <2>12 DEF CoveredBy
<1> QED
  BY <1>1, <1>2

LEMMA IngestionStep == IngestionInv /\ Moves => IngestionInv'
BY ConsumerSteps, TypeStep, IngestionTypeStep, SumsStep DEF IngestionInv

\* All the refresher does to ingestion is a look at the window, which takes
\* away what has expired.
LEMMA ServiceSteps == [ServiceNext]_serviceVars => Moves
BY DEF ServiceNext, serviceVars, Ingest, Build, Moves

\* The parts put together do to the consumer only what it does by itself, so
\* what is proved of KafkaConsumer holds of the whole service.
THEOREM ServiceRunsConsumer == ServiceSpec => Spec
<1>1. ServiceInit => Init
  BY DEF ServiceInit, IngestionInit
<1>2. [ServiceNext]_serviceVars => [Next]_vars
  BY ServiceSteps, ConsumerSteps
<1> QED
  BY <1>1, <1>2, PTL DEF ServiceSpec, Spec

\* As long as no fetch carries records and an error at once, whatever the
\* group's offset has passed since the process started is in its window, or
\* was dropped for a reason: the checks before the window, its age, one of
\* the three limits of AddAt, a bucket that was cleared for another.  For any
\* partitions, limits, clocks that lag, crashes, rebalances, failing commits
\* and posts in between.
THEOREM CommittedStaysCounted ==
  ASSUME MixedFetches = FALSE PROVE ServiceSpec => []CommittedIsCounted
<1> DEFINE Inv == IngestionInv /\ (pc # "down" => CoveredBy(TakenRecords))
<1>1. ServiceInit => Inv
  BY InitIngested DEF ServiceInit
<1>2. Inv /\ [ServiceNext]_serviceVars => Inv'
  BY ServiceSteps, IngestionStep, TakenStep DEF IngestionInv
<1>3. Inv => CommittedIsCounted
  <2> SUFFICES ASSUME Inv, NEW p \in Partition, NEW o \in Offset,
                      pc # "down", started[p] <= o, o < committed[p],
                      <<p, o>> \in SearchEvent \ (Rejected \cup Old)
               PROVE  counted[<<p, o>>] > 0 \/ KeptOut(<<p, o>>) \/ <<p, o>> \in evicted
    BY DEF CommittedIsCounted
  <2>1. <<p, o>> \in TakenRecords
    BY DEF CoveredBy
  <2>2. Taken(<<p, o>>)
    BY <2>1 DEF TakenRecords
  <2> QED
    BY <2>2 DEF Taken
<1> QED
  <2> HIDE DEF Inv
  <2> QED
    BY <1>1, <1>2, <1>3, PTL DEF ServiceSpec

\* The counters of /metrics account for every record and every post of the
\* process, whatever fails and whenever it is asked, up to the calls and the
\* part of a batch that are on their way to them.
THEOREM MetricsAlwaysAddUp == ServiceSpec => []MetricsAddUp
<1>1. ServiceInit => IngestionInv
  BY InitIngested DEF ServiceInit
<1>2. IngestionInv /\ [ServiceNext]_serviceVars => IngestionInv'
  BY ServiceSteps, IngestionStep
<1>3. IngestionInv => MetricsAddUp
  <2> SUFFICES ASSUME IngestionInv, pc # "down" PROVE MetricsAddUp
    BY DEF MetricsAddUp
  <2>1. Sums /\ InHand \in Nat /\ metrics.committed \in Nat /\ metrics.polled \in Nat
    BY InHandGrows DEF IngestionInv, IngestionType, MetricsType
  <2>2. metrics.committed <= metrics.polled
    BY <2>1 DEF Sums
  <2> QED
    BY <2>1, <2>2 DEF Sums, MetricsAddUp
<1> QED
  BY <1>1, <1>2, <1>3, PTL DEF ServiceSpec

-----------------------------------------------------------------------------
(* The answers to clients. *)

\* What Cut leaves of a list.
LEMMA CutShows ==
  ASSUME NEW S, NEW s \in Seq(S), NEW k \in Nat
  PROVE  LET n == IF k > Len(s) THEN Len(s) ELSE k IN
         /\ Cut(s, k) \in Seq(S) /\ Len(Cut(s, k)) = n
         /\ \A i \in 1..n : Cut(s, k)[i] = s[i]
<1> DEFINE n == IF k > Len(s) THEN Len(s) ELSE k
<1>1. Len(s) \in Nat /\ n \in Nat /\ n <= Len(s)
  OBVIOUS
<1>2. Cut(s, k) = SubSeq(s, 1, n)
  BY DEF Cut
<1>3. \A i \in 1..n : s[i] \in S
  BY <1>1
<1> HIDE DEF n
<1>4. /\ SubSeq(s, 1, n) \in Seq(S)
      /\ Len(SubSeq(s, 1, n)) = IF 1 <= n THEN n - 1 + 1 ELSE 0
      /\ \A i \in 1..(n - 1 + 1) : SubSeq(s, 1, n)[i] = s[1 + i - 1]
  BY <1>1, <1>3, SubSeqProperties
<1>5. n - 1 + 1 = n /\ \A i \in 1..n : 1 + i - 1 = i
  BY <1>1
<1>6. Len(SubSeq(s, 1, n)) = n /\ \A i \in 1..n : SubSeq(s, 1, n)[i] = s[i]
  BY <1>1, <1>4, <1>5
<1> QED BY <1>2, <1>4, <1>6 DEF n

\* Items as TopFilteredAt collects them: each query once.
Collected(items) ==
  /\ IsFiniteSet(items)
  /\ \A i \in items : i.query \in Int /\ i.count \in Int
  /\ \A i, j \in items : i.query = j.query => i = j

LEMMA PrecedesIsOrder ==
  ASSUME NEW items, Collected(items)
  PROVE  /\ \A i \in items : ~ Precedes(i, i)
         /\ \A i, j, k \in items : Precedes(i, j) /\ Precedes(j, k) => Precedes(i, k)
         /\ \A i, j \in items : i = j \/ Precedes(i, j) \/ Precedes(j, i)
BY DEF Collected, Precedes

\* sort.Slice finds an order: Sort chooses from something.
LEMMA SortSorts ==
  ASSUME NEW items, Collected(items)
  PROVE  Sort(items) \in [1..Cardinality(items) -> items] /\ Sorted(Sort(items))
<1> DEFINE size == Cardinality(items)
           R == {p \in items \X items : Precedes(p[1], p[2])}
           rank == [q \in items |-> 1 + Cardinality({r \in items : <<r, q>> \in R})]
           list == [n \in 1..size |-> CHOOSE q \in items : rank[q] = n]
<1>1. \A q, r \in items : <<q, r>> \in R <=> Precedes(q, r)
  OBVIOUS
<1> HIDE DEF R
<1>2. /\ \A q \in items : <<q, q>> \notin R
      /\ \A q, r, s \in items : <<q, r>> \in R /\ <<r, s>> \in R => <<q, s>> \in R
      /\ \A q, r \in items : q = r \/ <<q, r>> \in R \/ <<r, q>> \in R
  BY <1>1, PrecedesIsOrder
<1>3. rank \in [items -> Int]
  <2>1. ASSUME NEW q \in items PROVE 1 + Cardinality({r \in items : <<r, q>> \in R}) \in Int
    <3>1. IsFiniteSet({r \in items : <<r, q>> \in R})
      BY FS_Subset DEF Collected
    <3> QED BY <3>1, FS_CardinalityType
  <2> QED BY <2>1
<1>4. /\ IsFiniteSet(items)
      /\ \A q \in items : rank[q] = 1 + Cardinality({r \in items : <<r, q>> \in R})
  BY DEF Collected
<1> HIDE DEF rank
<1>5. /\ \A q, r \in items : <<q, r>> \in R <=> rank[q] < rank[r]
      /\ \A n \in 1..size : \E q \in items : rank[q] = n
  BY <1>2, <1>3, <1>4, RankIsPlace
<1>6. \A n \in 1..size : list[n] \in items /\ rank[list[n]] = n
  BY <1>5
<1>7. list \in [1..size -> items]
  BY <1>6
<1> HIDE DEF list, size
<1>8. Sorted(list)
  <2>1. ASSUME NEW i \in 1..size, NEW j \in 1..size, i < j PROVE Precedes(list[i], list[j])
    BY <1>1, <1>5, <1>6, <2>1
  <2> QED BY <1>7, <2>1 DEF Sorted
<1>9. \E l \in [1..size -> items] : Sorted(l)
  BY <1>7, <1>8
<1> QED BY <1>9, Zenon DEF Sort, size

\* A sorted list of all items: its first places are the top.
LEMMA SortedShowsTop ==
  ASSUME NEW items, Collected(items),
         NEW list \in [1..Cardinality(items) -> items], Sorted(list),
         NEW limit \in Nat
  PROVE  Top(items, limit) = {list[n] : n \in {k \in 1..Cardinality(items) : k <= limit}}
<1> DEFINE size == Cardinality(items)
<1>1. size \in Nat /\ IsFiniteSet(items)
  BY FS_CardinalityType DEF Collected
<1>2. \A n, k \in 1..size : n < k => Precedes(list[n], list[k])
  BY DEF Sorted
<1>3. \A n, k \in 1..size : list[n] = list[k] => n = k
  <2>1. ASSUME NEW n \in 1..size, NEW k \in 1..size, list[n] = list[k], n < k PROVE FALSE
    BY <1>2, <2>1, PrecedesIsOrder
  <2> QED BY <1>1, <2>1
<1>4. \A i \in items : \E n \in 1..size : list[n] = i
  <2>1. list \in Injection(1..size, items)
    BY <1>3 DEF Injection, IsInjective
  <2>2. Cardinality(1..size) = size
    BY <1>1, FS_Interval
  <2>3. list \in Surjection(1..size, items)
    BY <1>1, <2>1, <2>2, FS_Injection
  <2> QED BY <2>3 DEF Surjection
<1>5. ASSUME NEW n \in 1..size PROVE Cardinality({i \in items : Precedes(i, list[n])}) = n - 1
  <2> DEFINE before == {i \in items : Precedes(i, list[n])}
             head == [k \in 1..(n - 1) |-> list[k]]
  <2>1. n - 1 \in Nat /\ 1..(n - 1) \subseteq 1..size
    BY <1>1
  <2>2. \A k \in 1..(n - 1) : head[k] \in before
    BY <1>1, <1>2, <2>1
  <2>3. ASSUME NEW i \in before PROVE \E k \in 1..(n - 1) : head[k] = i
    <3>1. PICK k \in 1..size : list[k] = i
      BY <1>4
    <3>2. ~ (n < k) /\ n # k
      <4>1. Precedes(list[k], list[n]) /\ list[n] \in items /\ list[k] \in items
        BY <3>1
      <4>2. ~ Precedes(list[n], list[k])
        BY <4>1, PrecedesIsOrder
      <4> QED BY <1>2, <4>1, <4>2
    <3>3. k \in 1..(n - 1)
      BY <1>1, <3>2
    <3> QED BY <3>1, <3>3
  <2>4. head \in Bijection(1..(n - 1), before)
    <3>1. head \in [1..(n - 1) -> before]
      BY <2>2
    <3>2. IsInjective(head)
      BY <1>3, <2>1 DEF IsInjective
    <3> QED BY <2>3, <3>1, <3>2 DEF Bijection, Injection, Surjection
  <2> HIDE DEF before, head
  <2>5. ExistsBijection(1..(n - 1), before)
    BY <2>4 DEF ExistsBijection
  <2>6. Cardinality(before) = n - 1
    BY <2>1, <2>5, FS_CountingElements
  <2> QED BY <2>6 DEF before
<1>6. \A n \in 1..size : list[n] \in Top(items, limit) <=> n <= limit
  BY <1>1, <1>5 DEF Top
<1>7. \A j \in Top(items, limit) : j \in items
  BY DEF Top
<1> QED BY <1>4, <1>6, <1>7

\* The snapshot was made of these items.
MadeOf(snapshot, items) ==
  /\ Collected(items)
  /\ \E list \in [1..Cardinality(items) -> items] :
       Sorted(list) /\ snapshot = New(Cut(list, MaxLimit))

\* The two paths of the handler: a payload that was made with the snapshot,
\* and the list that is cut for the request.
LEMMA PathsAgree ==
  ASSUME NEW S, NEW list \in Seq(S), NEW limit \in 1..MaxLimit
  PROVE  LET snapshot == New(Cut(list, MaxLimit))
             n        == IF limit > Len(list) THEN Len(list) ELSE limit
             answer   == IF limit \in DOMAIN snapshot.jsonByLimit THEN snapshot.jsonByLimit[limit]
                         ELSE Response(snapshot, limit)
         IN  Len(answer) = n /\ answer \in Seq(S) /\ \A i \in 1..n : answer[i] = list[i]
<1> DEFINE once == Cut(list, MaxLimit)
           kept == Cut(once, MaxLimit)
           shown == Cut(kept, limit)
           snapshot == New(once)
           n == IF limit > Len(list) THEN Len(list) ELSE limit
           answer == IF limit \in DOMAIN snapshot.jsonByLimit THEN snapshot.jsonByLimit[limit]
                     ELSE Response(snapshot, limit)
<1>1. MaxLimit \in Nat /\ limit \in Nat /\ limit <= MaxLimit /\ Len(list) \in Nat
  BY SnapshotAssumption
<1>2. /\ snapshot.Items = kept
      /\ snapshot.jsonByLimit
           = [l \in {m \in PrecomputedLimits : ValidateLimit(m)} |-> Cut(kept, l)]
  BY DEF New
<1>3. answer = shown
  <2> HIDE DEF snapshot, kept
  <2> QED BY <1>2 DEF Response
<1>4. /\ once \in Seq(S) /\ Len(once) = IF MaxLimit > Len(list) THEN Len(list) ELSE MaxLimit
      /\ \A i \in 1..Len(once) : once[i] = list[i]
  BY <1>1, CutShows
<1> HIDE DEF once
<1>5. /\ kept \in Seq(S) /\ Len(kept) = IF MaxLimit > Len(once) THEN Len(once) ELSE MaxLimit
      /\ \A i \in 1..Len(kept) : kept[i] = once[i]
  BY <1>1, <1>4, CutShows
<1> HIDE DEF kept
<1>6. /\ shown \in Seq(S) /\ Len(shown) = IF limit > Len(kept) THEN Len(kept) ELSE limit
      /\ \A i \in 1..Len(shown) : shown[i] = kept[i]
  BY <1>1, <1>5, CutShows
<1> HIDE DEF shown
<1>7. Len(once) = Len(kept) /\ Len(shown) = n
  BY <1>1, <1>4, <1>5, <1>6
<1>8. \A i \in 1..n : shown[i] = list[i]
  <2>1. n \in Nat /\ n <= Len(kept) /\ Len(kept) \in Nat
    BY <1>1, <1>4, <1>5, <1>6, <1>7
  <2>2. \A i \in 1..n : i \in 1..Len(kept)
    BY <2>1
  <2> QED BY <1>4, <1>5, <1>6, <1>7, <2>2
<1> HIDE DEF answer
<1> QED BY <1>3, <1>6, <1>7, <1>8 DEF answer, snapshot, once

LEMMA NothingShown == MadeOf(Empty, {})
<1>1. Collected({}) /\ Cardinality({}) = 0
  BY FS_EmptySet DEF Collected
<1>2. << >> \in [1..0 -> {}] /\ Sorted(<< >>)
  BY DEF Sorted
<1>3. Cut(<< >>, MaxLimit) = << >>
  <2>1. << >> \in Seq(Int) /\ Len(<< >>) = 0 /\ MaxLimit \in Nat
    BY SnapshotAssumption
  <2>e. PICK none : none = << >>
    OBVIOUS
  <2>n. none \in Seq(Int) /\ Len(none) = 0
    BY <2>1, <2>e
  <2>c. Cut(none, MaxLimit) \in Seq(Int) /\ Len(Cut(none, MaxLimit)) = 0
    <3> DEFINE n == IF MaxLimit > Len(none) THEN Len(none) ELSE MaxLimit
    <3>1. Cut(none, MaxLimit) \in Seq(Int) /\ Len(Cut(none, MaxLimit)) = n
      BY <2>1, <2>n, CutShows
    <3>2. n = 0
      BY <2>1, <2>n
    <3> QED BY <3>1, <3>2
  <2>2. Cut(<< >>, MaxLimit) \in Seq(Int) /\ Len(Cut(<< >>, MaxLimit)) = 0
    BY <2>e, <2>c
  <2> QED BY <2>2, EmptySeq
<1> QED BY <1>1, <1>2, <1>3 DEF MadeOf, Empty

\* Build collects its items from finitely many events.
LEMMA ItemsCollected ==
  ASSUME NEW window \in [SearchEvent -> Nat]
  PROVE  Collected(Items(window))
<1>1. ASSUME NEW q PROVE Counted(window, q) \in Nat
  <2> DEFINE hits == {e \in SearchEvent : QueryOf[e] = q}
  <2>1. IsFiniteSet(hits) /\ \A e \in hits : window[e] \in Nat
    BY EventsFinite, FS_Subset
  <2> HIDE DEF hits
  <2>2. Total(window, hits) \in Nat
    BY <2>1, UnitsFinite
  <2> QED BY <2>2 DEF Counted, Hits, hits
<1>2. ASSUME NEW q, Counted(window, q) > 0 PROVE \E e \in SearchEvent : QueryOf[e] = q
  <2>1. SUFFICES ASSUME ~ \E e \in SearchEvent : QueryOf[e] = q PROVE FALSE
    OBVIOUS
  <2>2. {e \in SearchEvent : QueryOf[e] = q} = {}
    BY <2>1
  <2>3. Counted(window, q) = 0
    BY <2>2, TotalZero DEF Counted, Hits
  <2> QED BY <1>2, <2>3
<1> DEFINE item(q) == [query |-> q, count |-> Counted(window, q)]
           all == {item(QueryOf[e]) : e \in SearchEvent}
           made == [e \in SearchEvent |-> item(QueryOf[e])]
<1>3. IsFiniteSet(all)
  <2>1. made \in Surjection(SearchEvent, all)
    BY DEF Surjection
  <2> HIDE DEF all, made
  <2> QED BY <2>1, EventsFinite, FS_Surjection
<1>4. \A i \in Items(window) : \E q \in Query : i = item(q) /\ Counted(window, q) > 0
  BY DEF Items
<1>5. Items(window) \subseteq all
  BY <1>2, <1>4
<1>6. \A q \in Query : q \in Int
  BY ServiceAssumption
<1>7. IsFiniteSet(Items(window))
  BY <1>3, <1>5, FS_Subset
<1>8. \A i \in Items(window) : i.query \in Int /\ i.count \in Int /\ i = item(i.query)
  BY <1>1, <1>4, <1>6
<1> QED BY <1>7, <1>8 DEF Collected

LEMMA AnswersStep ==
  ASSUME TypeOK, Progress, IngestionType, MadeOf(current, built), [ServiceNext]_serviceVars
  PROVE  MadeOf(current, built)'
<1>1. CASE Ingest
  <2>1. CASE CrashEmpties \/ RestartEmpty
    <3>1. current' = Empty /\ built' = {}
      BY <1>1, <2>1 DEF Ingest
    <3> QED BY <3>1, NothingShown DEF MadeOf
  <2>2. CASE ~ (CrashEmpties \/ RestartEmpty)
    BY <1>1, <2>2 DEF Ingest, MadeOf
  <2> QED BY <2>1, <2>2
<1>2. CASE Build
  <2>1. PICK items : items = Items(counted')
    OBVIOUS
  <2>2. Collected(items)
    <3>1. IngestionType'
      BY ServiceSteps, IngestionTypeStep
    <3>2. counted' \in [SearchEvent -> Nat]
      BY <3>1 DEF IngestionType, WindowType, SearchEvent, Record, Offset
    <3> QED BY <2>1, <3>2, ItemsCollected
  <2>3. built' = items /\ current' = New(Cut(Sort(items), MaxLimit))
    BY <1>2, <2>1 DEF Build, ReadWindow
  <2>4. MadeOf(New(Cut(Sort(items), MaxLimit)), items)
    BY <2>2, SortSorts DEF MadeOf
  <2> QED BY <2>3, <2>4 DEF MadeOf
<1>3. CASE UNCHANGED serviceVars
  BY <1>3 DEF serviceVars, MadeOf
<1> QED
  BY <1>1, <1>2, <1>3 DEF ServiceNext

\* Whatever is asked of a snapshot that was made of items is answered by their
\* top, or with an error.
LEMMA AnswerIsTop ==
  ASSUME MadeOf(current, built),
         NEW raw \in {Absent, NotInteger} \cup {Number(n) : n \in -1 .. MaxLimit + 1}
  PROVE  LET answer == GetTrends(current, raw)
             limit == IF raw = Absent THEN DefaultLimit ELSE raw.value
         IN  IF raw # NotInteger /\ (raw = Absent \/ raw.value \in 1..MaxLimit)
             THEN /\ answer.code = "OK"
                  /\ {answer.items[i] : i \in DOMAIN answer.items} = Top(built, limit)
                  /\ Sorted(answer.items)
             ELSE answer.code = "BadRequest"
<1> DEFINE size == Cardinality(built)
<1>1. PICK list \in [1..size -> built] : Sorted(list) /\ current = New(Cut(list, MaxLimit))
  BY DEF MadeOf
<1>2. Collected(built) /\ size \in Nat
  BY FS_CardinalityType DEF MadeOf, Collected
<1>3. list \in Seq(built) /\ Len(list) = size
  BY <1>1, <1>2
<1>0. MaxLimit \in Nat \ {0} /\ DefaultLimit \in 1..MaxLimit
  BY SnapshotAssumption
<1>4. ASSUME NEW limit \in 1..MaxLimit, limit = parseLimit(raw)
      PROVE  LET answer == GetTrends(current, raw) IN
             /\ answer.code = "OK"
             /\ {answer.items[i] : i \in DOMAIN answer.items} = Top(built, limit)
             /\ Sorted(answer.items)
  <2> DEFINE answer == GetTrends(current, raw)
             n == IF limit > size THEN size ELSE limit
  <2>1. /\ answer.code = "OK"
        /\ answer.items = IF limit \in DOMAIN current.jsonByLimit THEN current.jsonByLimit[limit]
                          ELSE Response(current, limit)
    BY <1>4, Zenon DEF GetTrends, ValidateLimit
  <2>2. PICK items : items = answer.items
    OBVIOUS
  <2>3. Len(items) = n /\ items \in Seq(built) /\ \A i \in 1..n : items[i] = list[i]
    BY <1>1, <1>3, <2>1, <2>2, PathsAgree
  <2>4. DOMAIN items = 1..n
    BY <2>3
  <2>5. n \in Nat /\ n <= size /\ limit \in Nat
    BY <1>0, <1>2
  <2>6. {k \in 1..size : k <= limit} = 1..n
    BY <1>2, <2>5
  <2> HIDE DEF n, size, answer
  <2>7. {items[i] : i \in DOMAIN items} = {list[k] : k \in {j \in 1..size : j <= limit}}
    BY <2>3, <2>4, <2>6
  <2>8. Top(built, limit) = {list[k] : k \in {j \in 1..size : j <= limit}}
    BY <1>1, <1>2, <2>5, SortedShowsTop DEF size
  <2>9. Sorted(items)
    <3>1. \A i, j \in 1..size : i < j => Precedes(list[i], list[j])
      BY <1>1 DEF Sorted
    <3>2. \A i \in 1..n : i \in 1..size
      BY <1>2, <2>5
    <3> QED BY <2>3, <2>4, <3>1, <3>2 DEF Sorted
  <2> QED BY <2>1, <2>2, <2>7, <2>8, <2>9 DEF answer
<1>5. ASSUME ~ ValidateLimit(parseLimit(raw)) PROVE GetTrends(current, raw).code = "BadRequest"
  BY <1>5, Zenon DEF GetTrends
<1>6. CASE raw = Absent
  <2>1. parseLimit(raw) = DefaultLimit /\ raw # NotInteger
    BY <1>6 DEF parseLimit, Absent, NotInteger
  <2> QED BY <1>0, <1>4, <1>6, <2>1
<1>7. CASE raw = NotInteger
  <2>1. parseLimit(raw) = 0
    BY <1>7 DEF parseLimit, NotInteger
  <2>2. ~ ValidateLimit(parseLimit(raw))
    BY <1>0, <2>1 DEF ValidateLimit
  <2> QED BY <1>5, <1>7, <2>2
<1>8. ASSUME NEW m \in -1 .. MaxLimit + 1, raw = Number(m)
      PROVE  /\ parseLimit(raw) = raw.value /\ raw # Absent /\ raw # NotInteger
             /\ raw.value = m
  BY <1>8 DEF parseLimit, Number, Absent, NotInteger
<1>9. CASE \E m \in -1 .. MaxLimit + 1 : raw = Number(m)
  <2>1. parseLimit(raw) = raw.value /\ raw # Absent /\ raw # NotInteger
    BY <1>8, <1>9
  <2>2. CASE raw.value \in 1..MaxLimit
    BY <1>4, <2>1, <2>2
  <2>3. CASE raw.value \notin 1..MaxLimit
    BY <1>5, <2>1, <2>3 DEF ValidateLimit
  <2> QED BY <2>2, <2>3
<1> QED BY <1>6, <1>7, <1>9

\* Every client gets the top of the limit it asks for, in order, and the
\* payloads made with a snapshot never say anything else than its list.
THEOREM AnswersAlwaysAgree == ServiceSpec => []AnswersAgree
<1> DEFINE Inv == IngestionInv /\ MadeOf(current, built)
<1>1. ServiceInit => Inv
  BY InitIngested, NothingShown DEF ServiceInit, MadeOf
<1>2. Inv /\ [ServiceNext]_serviceVars => Inv'
  BY ServiceSteps, IngestionStep, AnswersStep DEF IngestionInv
<1>3. Inv => AnswersAgree
  BY AnswerIsTop, Zenon DEF AnswersAgree
<1> QED
  <2> HIDE DEF Inv
  <2> QED
    BY <1>1, <1>2, <1>3, PTL DEF ServiceSpec
=============================================================================
