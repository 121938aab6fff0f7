------------------------------ MODULE MCShard ------------------------------
(* Small instances of Shard for TLC. *)
EXTENDS Shard, Functions

\* Occurrence times: too old, in the oldest bucket, in the present one, in
\* the accepted future and beyond it, for WindowSize 4 and BucketSize 2.
Offsets == {-7, -5, 0, 2, 3}

\* In the oldest bucket of the window, and at the present time.
EdgeOffsets == {-WindowSize, 0}

\* So far back that UnixNano wraps around when Int64Half is 16.
AncientOffsets == {-28, 0}

\* Nothing reads reply, and calls that only read change the window alike:
\* states that differ in no more than these are one state.
StateView ==
  <<clock, log, win,
    [p \in Proc |-> IF call[p].op \in {"idle", "add"} THEN call[p] ELSE <<call[p].now>>]>>

\* Total is the sum of the community modules.
ASSUME TotalIsTheSum ==
  \A c \in [1..3 -> 0..2], I \in SUBSET (1..3) : Total(c, I) = SumFunctionOnSet(c, I)
=============================================================================
