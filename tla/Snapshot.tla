------------------------------ MODULE Snapshot ------------------------------
(***************************************************************************)
(* snapshot.Snapshot and the handler of GET /v1/trends: a list of items is *)
(* cut to MaxLimit, answers for some limits are precomputed, and the       *)
(* handler takes the precomputed one or cuts the list itself.  A payload   *)
(* is the list in it; generated_at and window_seconds go with every list   *)
(* of a snapshot and are left out.                                         *)
(***************************************************************************)
EXTENDS Integers, Sequences

CONSTANTS
  MaxLimit,
  DefaultLimit,       \* for a request that names no limit
  PrecomputedLimits   \* DefaultOptions().PrecomputedLimits

ASSUME SnapshotAssumption ==
  /\ MaxLimit \in Nat \ {0}
  /\ DefaultLimit \in 1..MaxLimit
  /\ PrecomputedLimits \subseteq Int

\* Go's items[:limit], with the limit lowered to the length first.
Cut(items, limit) == SubSeq(items, 1, IF limit > Len(items) THEN Len(items) ELSE limit)

ValidateLimit(limit) == limit \in 1..MaxLimit

\* Response, by way of itemsForLimit, for a valid limit.
Response(snapshot, limit) == Cut(snapshot.Items, limit)

\* New: the items in excess of MaxLimit are cut off, the payloads made.
New(items) ==
  LET kept == Cut(items, MaxLimit) IN
  [Items       |-> kept,
   jsonByLimit |-> [limit \in {l \in PrecomputedLimits : ValidateLimit(l)} |-> Cut(kept, limit)]]

Empty == New(<<>>)

\* What a client may send: no limit, a text that is no integer, or a number.
Absent == [kind |-> "absent"]

NotInteger == [kind |-> "text"]

Number(n) == [kind |-> "number", value |-> n]

parseLimit(raw) ==
  CASE raw.kind = "absent" -> DefaultLimit
    [] raw.kind = "number" -> raw.value
    [] raw.kind = "text"   -> 0

\* The snapshot the handler has read from the publisher, and both its paths.
GetTrends(snapshot, raw) ==
  LET limit == parseLimit(raw) IN
  CASE ~ValidateLimit(limit) -> [code |-> "BadRequest"]
    [] ValidateLimit(limit) /\ limit \in DOMAIN snapshot.jsonByLimit ->
         [code |-> "OK", items |-> snapshot.jsonByLimit[limit]]
    [] OTHER -> [code |-> "OK", items |-> Response(snapshot, limit)]
=============================================================================
