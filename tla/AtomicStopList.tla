--------------------------- MODULE AtomicStopList ---------------------------
(***************************************************************************)
(* What the stop-list's file promises: it is a set of terms, and whatever  *)
(* administrators and crashes do, it changes by one whole term at a time.  *)
(***************************************************************************)
CONSTANT Term

VARIABLE terms

AddTerm(t) == t \notin terms /\ terms' = terms \cup {t}

RemoveTerm(t) == t \in terms /\ terms' = terms \ {t}

Next == \E t \in Term : AddTerm(t) \/ RemoveTerm(t)

Spec == terms = {} /\ [][Next]_terms
=============================================================================
