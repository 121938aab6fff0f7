------------------------------ MODULE Counting ------------------------------
(***************************************************************************)
(* The sum of a Nat-valued function over a finite set, written as the size *)
(* of a set so that facts about it follow from facts about cardinality.    *)
(* Functions!SumFunctionOnSet computes the same number with a fold; runs   *)
(* compare the two (MCShard!TotalIsTheSum).                                *)
(***************************************************************************)
EXTENDS Integers, FiniteSets

\* One pair <<i, k>> for every unit k of c[i].
Units(c, I) == UNION {{i} \X (1..c[i]) : i \in I}

\* The sum of c[i] over i in I.
Total(c, I) == Cardinality(Units(c, I))

\* Subtraction that stops at zero: a Go map entry that is decremented and
\* deleted as soon as it is not positive, an absent entry reading as 0.
Monus(a, b) == IF a > b THEN a - b ELSE 0
=============================================================================
