----------------------------- MODULE MCService -----------------------------
(* A small instance of Service for TLC. *)
EXTENDS Service, TLC

CONSTANTS p1, w1, user, post, other, spam

\* A hit of a user in the second bucket, a record that does not decode, and a
\* hit in the bucket that comes with the next tick and has the slot of the
\* oldest.  A post of the user in the oldest bucket, which uses up its limit
\* and, with a stale clock, clears the newest bucket; one of a third query,
\* which leaves no room for the last record; and one that the checks reject.
QueryOfEvent ==
  (<<p1, 0>> :> 2) @@ (<<p1, 2>> :> 1) @@ (post :> 2) @@ (other :> 3) @@ (spam :> 3)

Actors == [e \in DOMAIN QueryOfEvent |-> IF e \in {<<p1, 0>>, post} THEN user ELSE NoActor]

Buckets ==
  [e \in DOMAIN QueryOfEvent |-> CASE e \in {<<p1, 2>>, other} -> 2
                                   [] e = <<p1, 0>>           -> 1
                                   [] OTHER                   -> 0]

OneShard == [q \in 1..3 |-> 0]

MalformedRecords == {<<p1, 1>>}
=============================================================================
