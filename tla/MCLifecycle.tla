----------------------------- MODULE MCLifecycle -----------------------------
(* Both servers and the consumer, for TLC. *)
EXTENDS Lifecycle

\* What getIntEnv may find.
EnvValues == {Unset, NotInteger} \cup {Integer(n) : n \in {-1, 0, 1}}

Defaults == [s \in Setting |-> 2]
=============================================================================
