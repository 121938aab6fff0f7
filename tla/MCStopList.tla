----------------------------- MODULE MCStopList -----------------------------
(* A small instance of StopListService for TLC. *)
EXTENDS StopListService

\* A word, the same in capitals, a phrase with the word, and a text of which
\* normalisation leaves nothing.
Texts == {"casino", "CASINO", "best", "best casino", "--"}

Normal ==
  [t \in Texts |-> CASE t = "CASINO" -> "casino" [] t = "--" -> NoText [] OTHER -> t]

Tokens == [t \in Texts |-> IF t = "best casino" THEN {"best", "casino"} ELSE {t}]
=============================================================================
