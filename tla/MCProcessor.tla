----------------------------- MODULE MCProcessor -----------------------------
(* A small instance of Processor for TLC. *)
EXTENDS Processor, SequencesExt

\* A tab, a NUL, a letter in both cases, two digits and a sign of phone numbers.
Runes == {"_", "tab", "nul", "A", "a", "0", "5", "+"}

ToLower == [r \in Runes |-> IF r = "A" THEN "a" ELSE r]

Values == [r \in {"0", "5"} |-> IF r = "0" THEN 0 ELSE 5]

\* Every text of four runes, and longer ones for the limit and for control
\* characters between spaces.
Texts == SeqOf(Runes, 4) \cup SeqOf({"_", "nul", "5"}, 6)

Emails == {<<"a", "+", "a">>}

Markers == {<<"a", "a">>}

\* The loop of luhnValid over the digits of q, from the right.
LuhnLoop(q) ==
  LET digits == SelectSeq(q, LAMBDA r : r \in DOMAIN Value)
      sum[n \in 0..Len(digits)] ==
        IF n = 0 THEN 0
        ELSE LET digit == Value[digits[Len(digits) + 1 - n]] IN
             sum[n - 1] + (IF n % 2 = 0 THEN Doubled(digit) ELSE digit)
  IN  sum[Len(digits)]

ASSUME LuhnSumIsTheLoop == \A q \in Texts : LuhnSum(q) = LuhnLoop(q)
=============================================================================
