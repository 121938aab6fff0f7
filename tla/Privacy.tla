------------------------------ MODULE Privacy ------------------------------
(***************************************************************************)
(* privacy.Inspect: the rules that find a normalised query sensitive.  A   *)
(* text is a sequence of runes.  The regexp engine is external, so the     *)
(* texts emailPattern matches are a constant; the thresholds are           *)
(* constants too, for small instances, with the source's value beside.     *)
(***************************************************************************)
EXTENDS Counting, Sequences

CONSTANTS
  Digit,           \* unicode.IsDigit
  Value,           \* Value[r]: of an ASCII digit, r - '0'
  Letter,          \* unicode.IsLetter
  PhoneRune,       \* digits, spaces, + - ( ) .
  Email,           \* texts emailPattern matches
  Marker,          \* "phone", "mobile" and the like
  MinRun,          \* 9: longDigitRunPattern
  MinCard, MaxCard,    \* 13, 19
  MinPhone, MaxPhone,  \* 10, 15
  MinRatio             \* 10

ASSUME PrivacyAssumption ==
  /\ DOMAIN Value \subseteq Digit
  /\ \A r \in DOMAIN Value : Value[r] \in 0..9
  /\ {MinRun, MinCard, MaxCard, MinPhone, MaxPhone, MinRatio} \subseteq Nat \ {0}

\* The positions of s whose runes are in R.
At(s, R) == {k \in 1..Len(s) : s[k] \in R}

\* The place of position k among the positions P, from 1.
Place(P, k) == Cardinality(P \cap 1..k)

\* asciiDigits, as their positions.
asciiDigits(q) == At(q, DOMAIN Value)

\* Fault: the 9 is not taken off.
DoubledRaw(d) == 2 * d

Doubled(d) == IF 2 * d > 9 THEN 2 * d - 9 ELSE 2 * d

\* What the digit at position k adds: every second one from the right is
\* doubled.
LuhnDigit(q, k) ==
  LET ds == asciiDigits(q)
      digit == Value[q[k]]
  IN  IF (Cardinality(ds) - Place(ds, k)) % 2 = 1 THEN Doubled(digit) ELSE digit

LuhnSum(q) == Total([k \in asciiDigits(q) |-> LuhnDigit(q, k)], asciiDigits(q))

\* luhnValid of the digits of q.
luhnValid(q) ==
  Cardinality(asciiDigits(q)) \in MinCard..MaxCard /\ LuhnSum(q) % 10 = 0

LongDigitRun(q) ==
  \E k \in 1..(Len(q) - MinRun + 1) : \A j \in k..(k + MinRun - 1) : q[j] \in DOMAIN Value

hasPhoneMarker(q) ==
  \E m \in Marker : \E k \in 1..(Len(q) - Len(m) + 1) : SubSeq(q, k, k + Len(m) - 1) = m

looksLikePhone(q) ==
  /\ Cardinality(At(q, Digit)) \in MinPhone..MaxPhone
  /\ \/ hasPhoneMarker(q)
     \/ At(q, Letter) = {} /\ At(q, PhoneRune) = DOMAIN q

\* At least 0.40 of the runes: the two floats are equal when the ratios are.
hasHighDigitRatio(q) ==
  LET digits == Cardinality(At(q, Digit)) IN digits >= MinRatio /\ 5 * digits >= 2 * Len(q)

ContainsSensitiveData(q) ==
  q \in Email \/ luhnValid(q) \/ LongDigitRun(q) \/ looksLikePhone(q) \/ hasHighDigitRatio(q)
=============================================================================
