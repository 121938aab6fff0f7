------------------------------ MODULE MCTrends ------------------------------
(* A small instance of Trends for TLC. *)
EXTENDS Trends

best == 1
bestCasino == 2
casino == 3
phone == 4

Texts == {best, bestCasino, casino, phone}

Normal == [t \in Texts |-> t]

Tokens == [t \in Texts |-> IF t = bestCasino THEN {best, casino} ELSE {t}]

\* "phone" and "best casino" share a shard.
Shards == [q \in {bestCasino, casino, phone} |-> IF q = casino THEN 2 ELSE 1]
=============================================================================
