--------------------------- MODULE ProcessorProofs ---------------------------
(* Proofs about the normal form, for any runes and any text. *)
EXTENDS Processor, CountingProofs, SequenceTheorems

(* The invariants on their own. *)

Fresh == at = "validate" => raw = <<>> /\ ~previousWasSpace

Typed == TypeOK /\ Fresh

\* The loop has written words of plain runes, with one blank after a word.
Written ==
  /\ \A k \in 1..Len(builder) :
       \/ Plain(builder[k])
       \/ builder[k] = Blank /\ 1 < k /\ Plain(builder[k - 1])
  /\ builder # <<>> /\ ~previousWasSpace => Plain(builder[Len(builder)])

Keys == Typed /\ Written /\ KeysAreCanonical

\* Of a canonical text the loop has written what it has read.
Copied ==
  /\ at = "validate" => next = 1 /\ builder = <<>> /\ ~previousWasSpace
  /\ at = "normalize" =>
       /\ raw = event.text
       /\ Len(builder) = next - 1
       /\ \A k \in 1..(next - 1) : builder[k] = raw[k]
       /\ previousWasSpace => next > 1 /\ raw[next - 1] = Blank

Kept == Typed /\ (Canonical(event.text) => Copied) /\ CanonicalIsKept

-----------------------------------------------------------------------------
(* strings.TrimSpace *)

LEMMA TrimsAre ==
  ASSUME NEW s \in Seq(Rune), NEW t \in Trims(s)
  PROVE  \E a \in 1..(Len(s) + 1), b \in 0..Len(s) :
           /\ a <= b + 1 /\ Trimmed(s, a, b)
           /\ t \in Seq(Rune) /\ Len(t) = b - a + 1
           /\ \A k \in 1..Len(t) : t[k] = s[a + k - 1]
<1>1. PICK p \in (1..(Len(s) + 1)) \X (0..Len(s)) :
        p[1] <= p[2] + 1 /\ Trimmed(s, p[1], p[2]) /\ t = SubSeq(s, p[1], p[2])
  BY DEF Trims
<1>2. /\ p[1] \in 1..(Len(s) + 1) /\ p[2] \in 0..Len(s)
      /\ Len(s) \in Nat
  OBVIOUS
<1>3. /\ SubSeq(s, p[1], p[2]) \in Seq(Rune)
      /\ Len(SubSeq(s, p[1], p[2])) = p[2] - p[1] + 1
      /\ \A k \in 1..(p[2] - p[1] + 1) : SubSeq(s, p[1], p[2])[k] = s[p[1] + k - 1]
  BY <1>1, <1>2
<1> QED
  BY <1>1, <1>2, <1>3

\* A canonical text has nothing to trim.
LEMMA CanonicalIsTrimmed ==
  ASSUME NEW s \in Seq(Rune), Canonical(s), NEW t \in Trims(s)
  PROVE  t = s
<1>1. PICK a \in 1..(Len(s) + 1), b \in 0..Len(s) :
        /\ a <= b + 1 /\ Trimmed(s, a, b)
        /\ t \in Seq(Rune) /\ Len(t) = b - a + 1
        /\ \A k \in 1..Len(t) : t[k] = s[a + k - 1]
  BY TrimsAre
<1>2. ASSUME s # <<>> PROVE s[1] \notin Space /\ s[Len(s)] \notin Space /\ Len(s) \in Nat \ {0}
  BY <1>2 DEF Canonical, Plain
<1>3. CASE s = <<>>
  BY <1>1, <1>3
<1>4. CASE s # <<>>
  <2>1. 1 \notin 1..(a - 1) \cup (b + 1)..Len(s) /\ Len(s) \notin 1..(a - 1) \cup (b + 1)..Len(s)
    BY <1>1, <1>2, <1>4 DEF Trimmed
  <2>2. a = 1 /\ b = Len(s)
    BY <1>1, <1>2, <1>4, <2>1
  <2> QED
    BY <1>1, <1>4, <2>2
<1> QED
  BY <1>3, <1>4

-----------------------------------------------------------------------------
\* The types are kept by every step.
LEMMA TypeStep == Typed /\ [Next]_vars => Typed'
<1> SUFFICES ASSUME Typed, [Next]_vars PROVE Typed'
  OBVIOUS
<1> USE DEF Typed, TypeOK, Fresh
<1>1. event.text \in Seq(Rune)
  BY ProcessorAssumption DEF Event, ProcessorAssumption
<1>2. ASSUME NEW why \in Reasons, Drop(why) PROVE Typed'
  BY <1>2 DEF Drop, loopVars
<1>3. CASE Invalid
  BY <1>2, <1>3 DEF Invalid, Reasons
<1>4. CASE Validate
  <2>1. raw' \in Seq(Rune) /\ Len(raw') \in Nat
    BY <1>1, <1>4, TrimsAre DEF Validate
  <2>2. raw = <<>> /\ next = 1 /\ Len(builder) < 1
    BY <1>4 DEF Validate, Goes
  <2> QED
    BY <1>4, <2>1, <2>2 DEF Validate, Goes, loopVars
<1>5. ASSUME NEW r, Reads(r), NEW c \in Rune, builder' = builder \/ builder' = Append(builder, c),
             previousWasSpace' \in BOOLEAN
      PROVE  Typed'
  <2>1. builder' \in Seq(Rune) /\ Len(builder') <= Len(builder) + 1
    BY <1>5
  <2>2. next' \in 1..(Len(raw') + 1) /\ Len(builder') < next'
    BY <1>5, <2>1 DEF Reads
  <2> QED
    BY <1>5, <2>1, <2>2 DEF Reads
<1>6. CASE ReadSpace
  BY <1>5, <1>6, RuneAssumption DEF ReadSpace, RuneAssumption
<1>7. CASE ReadControl
  BY <1>5, <1>7, RuneAssumption DEF ReadControl, RuneAssumption
<1>8. CASE ReadRune
  BY <1>5, <1>8, RuneAssumption DEF ReadRune, RuneAssumption
<1>9. CASE Normalized
  <2>1. query' \in Seq(Rune)
    BY <1>9, TrimsAre DEF Normalized
  <2> QED
    BY <1>9, <2>1 DEF Normalized, loopVars, Reasons
<1>10. CASE Filter
  BY <1>2, <1>10 DEF Filter, Passes, loopVars, Reasons
<1>11. CASE Bot
  BY <1>2, <1>11 DEF Bot, Passes, loopVars, Reasons
<1>12. CASE StopListed
  BY <1>2, <1>12 DEF StopListed, Reasons
<1>13. CASE NotStopListed
  BY <1>13 DEF NotStopListed, Goes, Passes, loopVars
<1>14. CASE Add
  BY <1>2, <1>14 DEF Add, WindowReason, Reasons
<1>15. CASE UNCHANGED vars
  BY <1>15 DEF vars, loopVars
<1> QED
  BY <1>3, <1>4, <1>6, <1>7, <1>8, <1>9, <1>10, <1>11, <1>12, <1>13, <1>14, <1>15
  DEF Next, Normalize

LEMMA InitType == Init => Typed
<1> SUFFICES ASSUME Init PROVE Typed
  OBVIOUS
<1>1. /\ <<>> \in Seq(Rune) /\ 1 \in 1..(Len(<<>>) + 1)
      /\ Len(<<>>) < 1
  OBVIOUS
<1>2. "none" \in Reasons
  BY DEF Reasons
<1> QED
  BY <1>1, <1>2, Zenon DEF Init, Typed, TypeOK, Fresh, NoQuery

\* The variables keep their types, for any text of any length.
THEOREM TypeCorrect == Spec => []TypeOK
<1>1. Typed => TypeOK
  BY DEF Typed
<1> QED
  BY <1>1, InitType, TypeStep, PTL DEF Spec

\* But for the loop and its end, a step leaves what the loop has done alone.
LEMMA OtherSteps ==
  [Next]_vars =>
    \/ ReadSpace \/ ReadControl \/ ReadRune \/ Normalized \/ Validate
    \/ UNCHANGED <<event, raw, loopVars, query>> /\ at' \notin {"validate", "normalize"}
    \/ UNCHANGED vars
  BY DEF Next, Normalize, Invalid, Filter, Bot, StopListed, NotStopListed, Add, Goes, Drop, Passes

-----------------------------------------------------------------------------
\* What the loop has written stays words of plain runes.
LEMMA KeysStep == Keys /\ [Next]_vars => Keys'
<1> SUFFICES ASSUME Keys, [Next]_vars PROVE Written' /\ KeysAreCanonical'
  BY TypeStep DEF Keys
<1>1. Typed /\ Typed' /\ TypeOK
  BY TypeStep DEF Keys, Typed
<1> USE DEF Keys
<1>2. CASE ReadSpace
  <2>1. PICK r \in Space : Reads(r) /\ IF builder # <<>> /\ ~previousWasSpace
                              THEN builder' = Append(builder, Blank) /\ previousWasSpace' = TRUE
                              ELSE UNCHANGED <<builder, previousWasSpace>>
    BY <1>2 DEF ReadSpace
  <2>2. CASE builder # <<>> /\ ~previousWasSpace
    <3>1. builder' = Append(builder, Blank) /\ previousWasSpace' = TRUE
      BY <2>1, <2>2
    <3>2. /\ Len(builder') = Len(builder) + 1 /\ builder'[Len(builder) + 1] = Blank
          /\ \A k \in 1..Len(builder) : builder'[k] = builder[k]
          /\ Len(builder) \in Nat \ {0}
      BY <1>1, <2>2, <3>1, RuneAssumption DEF TypeOK, RuneAssumption
    <3>3. Plain(builder[Len(builder)])
      BY <2>2 DEF Written
    <3> QED
      BY <2>1, <3>1, <3>2, <3>3 DEF Written, KeysAreCanonical, Reads
  <2>3. CASE ~(builder # <<>> /\ ~previousWasSpace)
    BY <2>1, <2>3 DEF Written, KeysAreCanonical, Reads
  <2> QED
    BY <2>2, <2>3
<1>3. CASE ReadControl
  BY <1>3 DEF ReadControl, Reads, Written, KeysAreCanonical
<1>4. CASE ReadRune
  <2>1. PICK r \in Rune \ (Space \cup Control) :
          Reads(r) /\ builder' = Append(builder, Lower[r]) /\ previousWasSpace' = FALSE
    BY <1>4 DEF ReadRune
  <2>2. Plain(Lower[r])
    BY RuneAssumption DEF RuneAssumption, Plain
  <2>3. /\ Len(builder') = Len(builder) + 1 /\ builder'[Len(builder) + 1] = Lower[r]
        /\ \A k \in 1..Len(builder) : builder'[k] = builder[k]
        /\ Len(builder) \in Nat
    BY <1>1, <2>1, <2>2 DEF TypeOK, Plain
  <2> QED
    BY <2>1, <2>2, <2>3 DEF Written, KeysAreCanonical, Reads
<1>5. CASE Normalized
  <2>1. PICK a \in 1..(Len(builder) + 1), b \in 0..Len(builder) :
          /\ a <= b + 1 /\ Trimmed(builder, a, b)
          /\ query' \in Seq(Rune) /\ Len(query') = b - a + 1
          /\ \A k \in 1..Len(query') : query'[k] = builder[a + k - 1]
    BY <1>1, <1>5, TrimsAre DEF Normalized, TypeOK
  <2>2. Len(builder) \in Nat
    BY <1>1 DEF TypeOK
  <2>3. ASSUME NEW k \in 1..Len(query')
        PROVE  \/ Plain(query'[k])
               \/ query'[k] = Blank /\ 1 < k /\ k < Len(query') /\ Plain(query'[k - 1])
    <3>1. a + k - 1 \in 1..Len(builder) /\ a <= b /\ query'[k] = builder[a + k - 1]
      BY <2>1, <2>2, <2>3
    <3>2. CASE Plain(builder[a + k - 1])
      BY <3>1, <3>2
    <3>3. CASE /\ builder[a + k - 1] = Blank /\ 1 < a + k - 1
               /\ Plain(builder[a + k - 1 - 1])
      <4>1. Blank \in Space
        BY RuneAssumption DEF RuneAssumption
      <4>2. builder[a] \notin Space /\ builder[b] \notin Space
        BY <2>1, <3>1 DEF Trimmed
      <4>3. k # 1 /\ k # Len(query')
        <5>1. k = 1 => a + k - 1 = a
          BY <2>1
        <5>2. k = Len(query') => a + k - 1 = b
          BY <2>1
        <5> QED
          BY <3>3, <4>1, <4>2, <5>1, <5>2
      <4>4. k - 1 \in 1..Len(query') /\ query'[k - 1] = builder[a + k - 1 - 1]
        <5>1. k - 1 \in 1..Len(query') /\ a + (k - 1) - 1 = a + k - 1 - 1
          BY <2>1, <2>2, <2>3, <4>3
        <5> QED
          BY <2>1, <5>1
      <4>5. 1 < k /\ k < Len(query')
        BY <2>1, <2>2, <2>3, <4>3
      <4>6. query'[k] = Blank /\ Plain(query'[k - 1])
        BY <3>1, <3>3, <4>4, Zenon
      <4> QED
        BY <4>5, <4>6
    <3> QED
      BY <3>1, <3>2, <3>3 DEF Written
  <2> QED
    BY <1>5, <2>3 DEF Normalized, Written, KeysAreCanonical, Canonical, loopVars
<1>6. CASE Validate
  BY <1>6 DEF Validate, Written, KeysAreCanonical, loopVars
<1>7. CASE UNCHANGED <<event, raw, loopVars, query>> \/ UNCHANGED vars
  BY <1>7 DEF vars, Written, KeysAreCanonical, loopVars
<1> QED
  BY <1>2, <1>3, <1>4, <1>5, <1>6, <1>7, OtherSteps

\* Every key is canonical: words of plain runes with one blank between two.
THEOREM KeysStayCanonical == Spec => []KeysAreCanonical
<1>1. Init => Keys
  BY InitType DEF Init, Keys, Written, KeysAreCanonical, Canonical, NoQuery
<1>2. Keys => KeysAreCanonical
  BY DEF Keys
<1> QED
  BY <1>1, <1>2, KeysStep, PTL DEF Spec

-----------------------------------------------------------------------------
\* A canonical text is copied rune by rune.
LEMMA KeptStep == Kept /\ [Next]_vars => Kept'
<1> SUFFICES ASSUME Kept, [Next]_vars, Canonical(event'.text) PROVE Copied' /\ (query' # NoQuery => query' = event'.text)
  BY TypeStep DEF Kept, CanonicalIsKept
<1>1. Typed /\ Typed' /\ TypeOK
  BY TypeStep DEF Kept, Typed
<1>2. event' = event
  BY DEF Next, Normalize, Invalid, Validate, ReadSpace, ReadControl, ReadRune, Reads, Normalized,
         Filter, Bot, StopListed, NotStopListed, Add, Drop, Passes, vars
<1>3. Copied /\ (query # NoQuery => query = event.text)
  BY <1>2 DEF Kept, CanonicalIsKept
<1>4. event.text \in Seq(Rune) /\ Canonical(event.text)
  BY <1>1, <1>2, ProcessorAssumption DEF TypeOK, Event, ProcessorAssumption
<1>5. Blank \in Space /\ \A k \in 1..Len(event.text) : event.text[k] \in Space => event.text[k] = Blank
  BY <1>4, RuneAssumption DEF RuneAssumption, Canonical, Plain
<1>6. ASSUME at = "normalize", next <= Len(raw),
             builder' = Append(builder, raw[next]), next' = next + 1,
             raw' = raw, query' = query, at' = at,
             previousWasSpace' => raw[next] = Blank
      PROVE  Copied' /\ (query' # NoQuery => query' = event'.text)
  <2>1. raw = event.text /\ Len(builder) = next - 1 /\ next \in 1..Len(raw) /\ Len(raw) \in Nat
    BY <1>1, <1>3, <1>6 DEF Copied, TypeOK
  <2>2. raw[next] \in Rune
    BY <1>4, <2>1
  <2>3. /\ Len(builder') = Len(builder) + 1 /\ builder'[Len(builder) + 1] = raw[next]
        /\ \A k \in 1..Len(builder) : builder'[k] = builder[k]
    BY <1>1, <1>6, <2>2 DEF TypeOK
  <2>4. \A k \in 1..(next' - 1) : builder'[k] = raw'[k]
    <3> SUFFICES ASSUME NEW k \in 1..next PROVE builder'[k] = raw[k]
      BY <1>6, <2>1
    <3>1. CASE k = next
      BY <2>1, <2>3, <3>1
    <3>2. CASE k # next
      <4>1. k \in 1..(next - 1)
        BY <2>1, <3>2
      <4> QED
        BY <1>3, <1>6, <2>1, <2>3, <4>1 DEF Copied
    <3> QED
      BY <3>1, <3>2
  <2>5. /\ Len(builder') = next' - 1 /\ next' > 1 /\ next' - 1 = next
    BY <1>6, <2>1, <2>3
  <2> QED
    BY <1>2, <1>3, <1>6, <2>1, <2>4, <2>5 DEF Copied
<1>7. CASE ReadSpace
  <2>1. PICK r \in Space : Reads(r) /\ IF builder # <<>> /\ ~previousWasSpace
                              THEN builder' = Append(builder, Blank) /\ previousWasSpace' = TRUE
                              ELSE UNCHANGED <<builder, previousWasSpace>>
    BY <1>7 DEF ReadSpace
  <2>2. raw = event.text /\ Len(builder) = next - 1 /\ next \in 1..Len(raw) /\ Len(raw) \in Nat
    BY <1>1, <1>3, <2>1 DEF Copied, TypeOK, Reads
  <2>3. raw[next] = r /\ r = Blank
    BY <1>5, <2>1, <2>2 DEF Reads
  <2>4. ~Plain(Blank)
    BY <1>5 DEF Plain
  <2>5. 1 < next /\ Plain(raw[next - 1])
    BY <1>4, <2>2, <2>3, <2>4 DEF Canonical
  <2>6. builder # <<>> /\ ~previousWasSpace
    BY <1>3, <2>1, <2>2, <2>4, <2>5 DEF Copied, Reads
  <2> QED
    BY <1>6, <2>1, <2>3, <2>6 DEF Reads
<1>8. CASE ReadControl
  <2>1. PICK r \in Control \ Space : Reads(r)
    BY <1>8 DEF ReadControl
  <2>2. raw = event.text /\ next \in 1..Len(raw)
    BY <1>1, <1>3, <2>1 DEF Copied, TypeOK, Reads
  <2> QED
    BY <1>4, <1>5, <2>1, <2>2 DEF Canonical, Plain, Reads
<1>9. CASE ReadRune
  <2>1. PICK r \in Rune \ (Space \cup Control) :
          Reads(r) /\ builder' = Append(builder, Lower[r]) /\ previousWasSpace' = FALSE
    BY <1>9 DEF ReadRune
  <2>2. raw = event.text /\ next \in 1..Len(raw)
    BY <1>1, <1>3, <2>1 DEF Copied, TypeOK, Reads
  <2>3. raw[next] = r /\ Lower[r] = r
    BY <1>4, <1>5, <2>1, <2>2 DEF Canonical, Plain, Reads
  <2> QED
    BY <1>6, <2>1, <2>3 DEF Reads
<1>10. CASE Normalized
  <2>1. raw = event.text /\ Len(builder) = next - 1 /\ next = Len(raw) + 1
    BY <1>1, <1>3, <1>10 DEF Copied, TypeOK, Normalized
  <2>2. builder = event.text
    <3>1. builder \in Seq(Rune) /\ raw \in Seq(Rune) /\ Len(builder) = Len(raw)
      BY <1>1, <2>1 DEF TypeOK
    <3>2. \A k \in 1..Len(builder) : builder[k] = raw[k]
      BY <1>3, <1>10, <2>1, <3>1 DEF Copied, Normalized
    <3> QED
      BY <2>1, <3>1, <3>2
  <2>3. query' = event.text
    BY <1>4, <1>10, <2>2, CanonicalIsTrimmed DEF Normalized
  <2> QED
    BY <1>2, <1>10, <2>3 DEF Normalized, Copied
<1>11. CASE Validate
  <2>1. raw' = event.text
    BY <1>4, <1>11, CanonicalIsTrimmed DEF Validate
  <2>2. next = 1 /\ builder = <<>> /\ ~previousWasSpace
    BY <1>3, <1>11 DEF Copied, Validate, Goes
  <2> QED
    BY <1>2, <1>3, <1>11, <2>1, <2>2 DEF Validate, Goes, Copied, loopVars
<1>12. CASE UNCHANGED <<event, raw, loopVars, query>> /\ at' \notin {"validate", "normalize"}
  BY <1>2, <1>3, <1>12 DEF Copied
<1>13. CASE UNCHANGED vars
  BY <1>3, <1>13 DEF vars, loopVars, Copied
<1> QED
  BY <1>7, <1>8, <1>9, <1>10, <1>11, <1>12, <1>13, OtherSteps

\* A canonical text is its own key: with KeysStayCanonical, normalising twice
\* is normalising once, what modules StopTerms and Trends assume of Normalize.
THEOREM CanonicalStaysKept == Spec => []CanonicalIsKept
<1>1. Init => Kept
  BY InitType DEF Init, Kept, Copied, CanonicalIsKept
<1>2. Kept => CanonicalIsKept
  BY DEF Kept
<1> QED
  BY <1>1, <1>2, KeptStep, PTL DEF Spec

-----------------------------------------------------------------------------
(* What is left for the window to find. *)

Ignored == Space \cup Control

\* Nothing but runes that the loop leaves out.
Nothing(s) == \A k \in 1..Len(s) : s[k] \in Ignored

\* What the checks have let pass, and what a loop that has written nothing read.
Checked ==
  /\ at = "validate" => next = 1
  /\ at \notin {"validate", "done"} => event.ahead <= ContractSkew
  /\ at \in {"filter", "bot", "stoplist", "add"} => query # NoQuery
  /\ at = "normalize" => (Nothing(raw) => Nothing(event.text))
  /\ at = "normalize" /\ builder = <<>> => \A k \in 1..(next - 1) : raw[k] \in Ignored

Found == Keys /\ Checked /\ WindowFindsNothing

\* Trimming takes away nothing but spaces.
LEMMA TrimsNothing ==
  ASSUME NEW s \in Seq(Rune), NEW t \in Trims(s), Nothing(t)
  PROVE  Nothing(s)
<1>1. PICK a \in 1..(Len(s) + 1), b \in 0..Len(s) :
        /\ a <= b + 1 /\ Trimmed(s, a, b)
        /\ t \in Seq(Rune) /\ Len(t) = b - a + 1
        /\ \A k \in 1..Len(t) : t[k] = s[a + k - 1]
  BY TrimsAre
<1>2. ASSUME NEW k \in 1..Len(s) PROVE s[k] \in Ignored
  <2>1. CASE k \in a..b
    <3>1. k - a + 1 \in 1..Len(t) /\ a + (k - a + 1) - 1 = k
      BY <1>1, <2>1
    <3> QED
      BY <1>1, <3>1 DEF Nothing
  <2>2. CASE k \notin a..b
    <3>1. k \in 1..(a - 1) \cup (b + 1)..Len(s)
      BY <1>1, <2>2
    <3> QED
      BY <1>1, <3>1 DEF Trimmed, Ignored
  <2> QED
    BY <2>1, <2>2
<1> QED
  BY <1>2 DEF Nothing

\* The loop begins nothing with a blank, so what it has written of words is
\* not trimmed to nothing.
LEMMA WrittenStays ==
  ASSUME TypeOK, Written, <<>> \in Trims(builder)
  PROVE  builder = <<>>
<1>1. SUFFICES ASSUME builder # <<>> PROVE FALSE
  OBVIOUS
<1>2. builder \in Seq(Rune) /\ 1 \in 1..Len(builder)
  BY <1>1 DEF TypeOK
<1>3. Plain(builder[1])
  BY <1>2 DEF Written
<1>4. PICK t \in Trims(builder) : t = <<>>
  OBVIOUS
<1>5. PICK a \in 1..(Len(builder) + 1), b \in 0..Len(builder) :
        a <= b + 1 /\ Trimmed(builder, a, b) /\ Len(t) = b - a + 1
  BY <1>2, TrimsAre
<1>6. Len(t) = 0
  BY <1>4
<1>7. 1 \in 1..(a - 1) \cup (b + 1)..Len(builder)
  BY <1>2, <1>5, <1>6
<1> QED
  BY <1>3, <1>5, <1>7 DEF Trimmed, Plain

\* Appending a rune leaves no sequence empty.
LEMMA AppendedIsNot ==
  ASSUME NEW s \in Seq(Rune), NEW c \in Rune
  PROVE  Append(s, c) # <<>>
<1>1. Len(Append(s, c)) = Len(s) + 1 /\ Len(s) \in Nat
  OBVIOUS
<1>2. Len(<<>>) = 0
  OBVIOUS
<1>3. ASSUME Append(s, c) = <<>> PROVE FALSE
  <2>1. Len(Append(s, c)) = 0
    BY <1>2, <1>3, Zenon
  <2> QED
    BY <1>1, <2>1
<1> QED
  BY <1>3

LEMMA FoundStep == Found /\ [Next]_vars => Found'
<1> SUFFICES ASSUME Found, [Next]_vars PROVE Checked' /\ WindowFindsNothing'
  BY KeysStep DEF Found
<1>1. TypeOK /\ TypeOK' /\ Written /\ Canonical(query)
  BY KeysStep DEF Found, Keys, Typed, KeysAreCanonical
<1>2. event.text \in Seq(Rune) /\ event.ahead \in Int
  BY <1>1, ProcessorAssumption DEF TypeOK, Event
<1> USE DEF Found
<1>3. CASE Invalid
  BY <1>3 DEF Invalid, Drop, Checked, WindowFindsNothing
<1>4. CASE Validate
  <2>1. Nothing(raw') => Nothing(event.text)
    BY <1>2, <1>4, TrimsNothing DEF Validate
  <2>2. event.ahead <= ContractSkew /\ at = "validate" /\ at' = "normalize"
        /\ UNCHANGED <<event, next, builder, reason>>
    BY <1>4 DEF Validate, Goes, Valid, loopVars
  <2>3. \A k \in 1..(next - 1) : raw'[k] \in Ignored
    BY <2>2 DEF Checked
  <2> QED
    BY <2>1, <2>2, <2>3 DEF Checked, WindowFindsNothing, Nothing
<1>5. ASSUME NEW r \in Rune, Reads(r), builder' = <<>> => builder = <<>> /\ r \in Ignored
      PROVE  Checked' /\ WindowFindsNothing'
  <2>1. /\ at = "normalize" /\ raw[next] = r /\ next' = next + 1
        /\ UNCHANGED <<event, at, raw, query, reason>>
    BY <1>5 DEF Reads
  <2>2. builder' = <<>> => \A k \in 1..(next' - 1) : raw'[k] \in Ignored
    <3> SUFFICES ASSUME builder' = <<>>, NEW k \in 1..next PROVE raw[k] \in Ignored
      BY <1>1, <2>1 DEF TypeOK
    <3>1. CASE k = next
      BY <1>5, <2>1, <3>1
    <3>2. CASE k # next
      <4>1. k \in 1..(next - 1)
        BY <1>1, <3>2 DEF TypeOK
      <4> QED
        BY <1>5, <2>1, <4>1 DEF Checked
    <3> QED
      BY <3>1, <3>2
  <2> QED
    BY <2>1, <2>2 DEF Checked, WindowFindsNothing, Nothing
<1>6. CASE ReadSpace
  <2>1. PICK r \in Space : Reads(r) /\ IF builder # <<>> /\ ~previousWasSpace
                              THEN builder' = Append(builder, Blank) /\ previousWasSpace' = TRUE
                              ELSE UNCHANGED <<builder, previousWasSpace>>
    BY <1>6 DEF ReadSpace
  <2>2. r \in Rune /\ r \in Ignored
    BY RuneAssumption DEF Ignored
  <2>3. builder' = <<>> => builder = <<>>
    BY <1>1, <2>1, RuneAssumption, AppendedIsNot DEF TypeOK
  <2> QED
    BY <1>5, <2>1, <2>2, <2>3
<1>7. CASE ReadControl
  <2>1. PICK r \in Control \ Space : Reads(r) /\ UNCHANGED <<builder, previousWasSpace>>
    BY <1>7 DEF ReadControl
  <2>2. r \in Rune /\ r \in Ignored
    BY RuneAssumption DEF Ignored
  <2> QED
    BY <1>5, <2>1, <2>2
<1>8. CASE ReadRune
  <2>1. PICK r \in Rune \ (Space \cup Control) : Reads(r) /\ builder' = Append(builder, Lower[r])
    BY <1>8 DEF ReadRune
  <2>2. builder' # <<>>
    <3>1. builder \in Seq(Rune) /\ Lower[r] \in Rune
      BY <1>1, <2>1, RuneAssumption DEF TypeOK
    <3> QED
      BY <2>1, <3>1, AppendedIsNot
  <2> QED
    BY <1>5, <2>1, <2>2
<1>9. CASE Normalized
  <2>1. at = "normalize" /\ next > Len(raw) /\ query' \in Trims(builder) /\ event' = event
    BY <1>9 DEF Normalized
  <2>2. query' = NoQuery => Nothing(event.text)
    <3> SUFFICES ASSUME query' = NoQuery PROVE Nothing(event.text)
      OBVIOUS
    <3>1. builder = <<>>
      BY <1>1, <2>1, WrittenStays DEF NoQuery
    <3>2. \A k \in 1..Len(raw) : k \in 1..(next - 1)
      BY <1>1, <2>1 DEF TypeOK
    <3>3. Nothing(raw)
      BY <2>1, <3>1, <3>2 DEF Checked, Nothing
    <3> QED
      BY <2>1, <3>3 DEF Checked
  <2>3. Nothing(event.text) => \A k \in DOMAIN event.text : event.text[k] \in Space \cup Control
    BY <1>2 DEF Nothing, Ignored
  <2>4. CASE query' = NoQuery
    BY <1>9, <2>1, <2>2, <2>3, <2>4 DEF Normalized, Checked, WindowFindsNothing
  <2>5. CASE query' # NoQuery
    BY <1>9, <2>1, <2>5 DEF Normalized, Checked, WindowFindsNothing
  <2> QED
    BY <2>4, <2>5
<1>10. ASSUME NEW why, Drop(why), why \notin {"from_future", "empty_query"}
       PROVE  Checked' /\ WindowFindsNothing'
  BY <1>10 DEF Drop, Checked, WindowFindsNothing
<1>11. ASSUME Passes, at \in {"filter", "bot", "stoplist"}, at' \in {"bot", "stoplist", "add"}
       PROVE  Checked' /\ WindowFindsNothing'
  BY <1>11 DEF Passes, loopVars, Checked, WindowFindsNothing
<1>12. CASE Filter
  BY <1>10, <1>11, <1>12 DEF Filter
<1>13. CASE Bot
  BY <1>10, <1>11, <1>13 DEF Bot
<1>14. CASE StopListed
  BY <1>10, <1>14 DEF StopListed
<1>15. CASE NotStopListed
  BY <1>11, <1>15 DEF NotStopListed, Goes
<1>16. CASE Add
  <2>1. PICK why \in WindowReason : Drop(why)
    BY <1>16 DEF Add
  <2>2. event.ahead <= ContractSkew /\ query # NoQuery
    BY <1>16 DEF Add, Checked
  <2>3. ~ (event.ahead > WindowSkew)
    BY <1>2, <2>2, ProcessorAssumption
  <2>4. query \in Seq(Rune) /\ 1 \in 1..Len(query) /\ 1 \in DOMAIN query
    BY <1>1, <2>2 DEF TypeOK, NoQuery
  <2>5. query[1] \notin Space
    BY <1>1, <2>4 DEF Canonical, Plain
  <2>6. why \notin {"from_future", "empty_query"}
    BY <2>1, <2>3, <2>4, <2>5 DEF WindowReason
  <2> QED
    BY <1>10, <2>1, <2>6
<1>17. CASE UNCHANGED vars
  BY <1>17 DEF vars, loopVars, Checked, WindowFindsNothing, Nothing
<1> QED
  BY <1>3, <1>4, <1>6, <1>7, <1>8, <1>9, <1>12, <1>13, <1>14, <1>15, <1>16, <1>17
  DEF Next, Normalize

\* Whatever runes there are and however they are laid out, the window's own
\* checks of text and time come too late to find anything.
THEOREM WindowNeverFinds == Spec => []WindowFindsNothing
<1>1. Init => Found
  <2> SUFFICES ASSUME Init PROVE Found
    OBVIOUS
  <2>1. Keys
    BY InitType DEF Init, Keys, Written, KeysAreCanonical, Canonical, NoQuery
  <2>2. Checked /\ WindowFindsNothing
    BY DEF Init, Checked, WindowFindsNothing
  <2> QED
    BY <2>1, <2>2 DEF Found
<1>2. Found => WindowFindsNothing
  BY DEF Found
<1> QED
  BY <1>1, <1>2, FoundStep, PTL DEF Spec

-----------------------------------------------------------------------------
(* Places *)

\* The places of a set of positions are 1, 2, ... in their order.
LEMMA Places ==
  ASSUME NEW n \in Nat, NEW P \in SUBSET (1..n)
  PROVE  /\ IsFiniteSet(P) /\ Cardinality(P) \in Nat
         /\ \A k \in P : Place(P, k) \in 1..Cardinality(P)
         /\ \A j, k \in P : j < k <=> Place(P, j) < Place(P, k)
         /\ \A m \in 1..Cardinality(P) : \E k \in P : Place(P, k) = m
<1> DEFINE R == {p \in P \X P : p[1] < p[2]}
           rank == [k \in P |-> Place(P, k)]
<1>0. \A j \in P : j \in Int /\ 1 <= j /\ j <= n
  OBVIOUS
<1>1. IsFiniteSet(P) /\ Cardinality(P) \in Nat
  <2>1. IsFiniteSet(1..n)
    BY FS_Interval
  <2> QED
    BY <2>1, FS_Subset, FS_CardinalityType
<1>2. \A j, k \in P : <<j, k>> \in R <=> j < k
  OBVIOUS
<1>3. P \subseteq Int
  BY <1>0
<1>4. ASSUME NEW k \in P
      PROVE  Place(P, k) = 1 + Cardinality({r \in P : <<r, k>> \in R}) /\ Place(P, k) \in Int
  <2> DEFINE before == {r \in P : <<r, k>> \in R}
  <2>1. \A j \in P : j \in before <=> j < k
    BY <1>2
  <2>2. P \cap 1..k = before \cup {k} /\ k \notin before
    <3> before \subseteq P
      OBVIOUS
    <3> HIDE DEF before
    <3>1. \A j \in P : j \in 1..k <=> (j \in before \/ j = k)
      BY <1>0, <2>1
    <3>2. k \notin before
      BY <1>0, <2>1
    <3> QED
      BY <3>1, <3>2
  <2>3. IsFiniteSet(before) /\ Cardinality(before) \in Nat
    BY <1>1, FS_Subset, FS_CardinalityType
  <2> HIDE DEF before
  <2>4. Cardinality(before \cup {k}) = Cardinality(before) + 1
    BY <2>2, <2>3, FS_AddElement
  <2>5. Place(P, k) = Cardinality(before \cup {k})
    BY <2>2, Zenon DEF Place
  <2>6. Place(P, k) = 1 + Cardinality(before) /\ Place(P, k) \in Int
    BY <2>3, <2>4, <2>5
  <2> QED
    BY <2>6 DEF before
<1>5. rank \in [P -> Int] /\ \A k \in P : rank[k] = 1 + Cardinality({r \in P : <<r, k>> \in R})
  BY <1>4
<1>6. /\ \A q \in P : <<q, q>> \notin R
      /\ \A q, r, t \in P : <<q, r>> \in R /\ <<r, t>> \in R => <<q, t>> \in R
      /\ \A q, r \in P : q = r \/ <<q, r>> \in R \/ <<r, q>> \in R
  BY <1>2, <1>3
<1>7. \A k \in P : rank[k] = Place(P, k)
  OBVIOUS
<1> HIDE DEF R, rank
<1>8. /\ rank \in [P -> 1..Cardinality(P)]
      /\ \A q, r \in P : <<q, r>> \in R <=> rank[q] < rank[r]
      /\ \A m \in 1..Cardinality(P) : \E q \in P : rank[q] = m
  BY <1>1, <1>5, <1>6, RankIsPlace
<1>9. \A k \in P : Place(P, k) \in 1..Cardinality(P)
  BY <1>7, <1>8
<1>10. ASSUME NEW j \in P, NEW k \in P PROVE j < k <=> Place(P, j) < Place(P, k)
  <2>1. <<j, k>> \in R <=> rank[j] < rank[k]
    BY <1>8
  <2>2. rank[j] = Place(P, j) /\ rank[k] = Place(P, k)
    BY <1>7
  <2> QED
    BY <1>2, <2>1, <2>2
<1>11. \A m \in 1..Cardinality(P) : \E k \in P : Place(P, k) = m
  BY <1>7, <1>8
<1> QED
  BY <1>1, <1>9, <1>10, <1>11

\* A position after all others has the next place.
LEMMA NextPlace ==
  ASSUME NEW n \in Nat, NEW P \in SUBSET (1..n)
  PROVE  /\ Cardinality(P \cup {n + 1}) = Cardinality(P) + 1
         /\ Place(P \cup {n + 1}, n + 1) = Cardinality(P) + 1
         /\ \A k \in P : Place(P \cup {n + 1}, k) = Place(P, k)
<1>0. \A j \in P : j \in Int /\ 1 <= j /\ j <= n
  OBVIOUS
<1>1. IsFiniteSet(P)
  BY Places
<1>2. Cardinality(P \cup {n + 1}) = Cardinality(P) + 1
  <2>1. n + 1 \notin P
    BY <1>0
  <2> QED
    BY <1>1, <2>1, FS_AddElement
<1>3. (P \cup {n + 1}) \cap 1..(n + 1) = P \cup {n + 1}
  <2>1. \A j \in P \cup {n + 1} : j \in 1..(n + 1)
    BY <1>0
  <2> QED
    BY <2>1
<1>4. ASSUME NEW k \in P PROVE (P \cup {n + 1}) \cap 1..k = P \cap 1..k
  <2>1. n + 1 \notin 1..k
    BY <1>0
  <2> QED
    BY <2>1
<1> QED
  BY <1>2, <1>3, <1>4 DEF Place

\* A map that keeps the order keeps the places.
LEMMA SamePlaces ==
  ASSUME NEW n \in Nat, NEW P \in SUBSET (1..n), NEW m \in Nat, NEW Q \in SUBSET (1..m),
         NEW f \in [P -> Q], \A q \in Q : \E k \in P : f[k] = q,
         \A j, k \in P : j < k => f[j] < f[k]
  PROVE  /\ f \in Bijection(P, Q)
         /\ Cardinality(P) = Cardinality(Q)
         /\ \A k \in P : Place(Q, f[k]) = Place(P, k)
<1>0. (\A j \in P : j \in Int /\ 1 <= j) /\ \A j \in Q : j \in Int /\ 1 <= j
  OBVIOUS
<1>1. P \subseteq Int /\ Q \subseteq Int /\ IsFiniteSet(P) /\ IsFiniteSet(Q)
  <2>1. IsFiniteSet(P) /\ IsFiniteSet(Q)
    BY Places
  <2> QED
    BY <1>0, <2>1
<1>2. \A j, k \in P : (j < k <=> f[j] < f[k]) /\ (f[j] = f[k] => j = k)
  <2> SUFFICES ASSUME NEW j \in P, NEW k \in P
               PROVE  (j < k <=> f[j] < f[k]) /\ (f[j] = f[k] => j = k)
    OBVIOUS
  <2>1. j \in Int /\ k \in Int /\ f[j] \in Int /\ f[k] \in Int
    BY <1>1
  <2>2. (j < k => f[j] < f[k]) /\ (k < j => f[k] < f[j])
    OBVIOUS
  <2> QED
    BY <2>1, <2>2
<1>3. f \in Bijection(P, Q)
  BY <1>2 DEF Bijection, Injection, Surjection, IsInjective
<1>4. Cardinality(P) = Cardinality(Q)
  BY <1>1, <1>3, FS_Bijection DEF ExistsBijection
<1>5. ASSUME NEW k \in P PROVE Place(Q, f[k]) = Place(P, k)
  <2> DEFINE A == P \cap 1..k
             B == Q \cap 1..f[k]
             g == [j \in A |-> f[j]]
  <2>1. \A j \in P : j \in A <=> j <= k
    BY <1>0
  <2>2. ASSUME NEW j \in P PROVE f[j] \in B <=> f[j] <= f[k]
    <3>1. f[j] \in Q /\ f[j] \in Int /\ 1 <= f[j] /\ f[k] \in Int
      BY <1>0
    <3>2. f[j] \in 1..f[k] <=> f[j] <= f[k]
      BY <3>1
    <3> QED
      BY <3>1, <3>2
  <2>3. \A j \in P : j \in A <=> f[j] \in B
    <3> SUFFICES ASSUME NEW j \in P PROVE j <= k <=> f[j] <= f[k]
      BY <2>1, <2>2
    <3>1. j \in Int /\ k \in Int /\ f[j] \in Int /\ f[k] \in Int
      BY <1>1
    <3>2. j = k => f[j] = f[k]
      OBVIOUS
    <3>3. (j < k <=> f[j] < f[k]) /\ (f[j] = f[k] => j = k)
      BY <1>2
    <3> QED
      BY <3>1, <3>2, <3>3
  <2>4. g \in [A -> B] /\ \A q \in B : \E j \in A : g[j] = q
    <3>1. A \subseteq P /\ B \subseteq Q
      OBVIOUS
    <3> HIDE DEF A, B
    <3>2. ASSUME NEW q \in B PROVE \E j \in A : g[j] = q
      BY <2>3, <3>1
    <3> QED
      BY <2>3, <3>1, <3>2
  <2>5. g \in Bijection(A, B)
    BY <1>2, <2>4 DEF Bijection, Injection, Surjection, IsInjective
  <2>6. IsFiniteSet(A)
    BY <1>1, FS_Subset
  <2> HIDE DEF A, B, g
  <2>7. Cardinality(A) = Cardinality(B)
    BY <2>5, <2>6, FS_Bijection DEF ExistsBijection
  <2> QED
    BY <2>7 DEF Place, A, B
<1> QED
  BY <1>3, <1>4, <1>5

-----------------------------------------------------------------------------
(* Luhn's sum *)

LEMMA DoubledTells ==
  /\ \A d \in 0..9 : Doubled(d) \in 0..9
  /\ \A d, e \in 0..9 : Doubled(d) = Doubled(e) => d = e
BY DEF Doubled

\* What a digit adds to the sum, and that it tells the digits apart.
LEMMA LuhnDigitType ==
  ASSUME NEW q \in Seq(Rune), NEW k \in asciiDigits(q)
  PROVE  LuhnDigit(q, k) \in 0..9
<1>1. Value[q[k]] \in 0..9
  BY PrivacyAssumption DEF asciiDigits, At
<1> QED
  BY <1>1, DoubledTells DEF LuhnDigit

LEMMA DigitsFinite ==
  ASSUME NEW q \in Seq(Rune)
  PROVE  /\ Len(q) \in Nat /\ asciiDigits(q) \in SUBSET (1..Len(q))
         /\ IsFiniteSet(asciiDigits(q)) /\ LuhnSum(q) \in Nat
<1>1. Len(q) \in Nat /\ asciiDigits(q) \in SUBSET (1..Len(q))
  BY DEF asciiDigits, At
<1>2. IsFiniteSet(asciiDigits(q))
  BY <1>1, Places
<1> DEFINE c == [k \in asciiDigits(q) |-> LuhnDigit(q, k)]
<1>3. \A k \in asciiDigits(q) : c[k] \in Nat
  BY LuhnDigitType
<1> HIDE DEF c
<1>4. Total(c, asciiDigits(q)) \in Nat
  BY <1>2, <1>3, UnitsFinite
<1> QED
  BY <1>1, <1>2, <1>4 DEF LuhnSum, c

\* One digit mistyped makes another number modulo 10.
LEMMA TypoTells ==
  ASSUME NEW q \in Seq(Rune), NEW k \in asciiDigits(q),
         NEW r \in DOMAIN Value, Value[r] # Value[q[k]], luhnValid(q)
  PROVE  ~ luhnValid([q EXCEPT ![k] = r])
<1> DEFINE t == [q EXCEPT ![k] = r]
           ds == asciiDigits(q)
           c == [j \in ds |-> LuhnDigit(q, j)]
           d == [j \in ds |-> LuhnDigit(t, j)]
<1>1. r \in Rune /\ k \in 1..Len(q) /\ Len(q) \in Nat
  BY RuneAssumption, DigitsFinite DEF asciiDigits, At
<1>2. t \in Seq(Rune) /\ Len(t) = Len(q) /\ t[k] = r /\ \A j \in 1..Len(q) \ {k} : t[j] = q[j]
  BY <1>1
<1> HIDE DEF t
<1>3. asciiDigits(t) = ds
  BY <1>1, <1>2 DEF asciiDigits, At
<1>4. /\ IsFiniteSet(ds) /\ k \in ds /\ LuhnSum(q) \in Nat /\ LuhnSum(t) \in Nat
      /\ ds \in SUBSET (1..Len(q))
  BY <1>2, DigitsFinite
<1>5. \A j \in ds : c[j] \in 0..9 /\ d[j] \in 0..9
  BY <1>2, <1>3, LuhnDigitType
<1>6. \A j \in ds \ {k} : d[j] = c[j]
  <2> SUFFICES ASSUME NEW j \in ds \ {k} PROVE LuhnDigit(t, j) = LuhnDigit(q, j)
    OBVIOUS
  <2>1. t[j] = q[j]
    BY <1>2, <1>4
  <2> QED
    BY <1>3, <2>1 DEF LuhnDigit
<1>7. d[k] # c[k]
  <2>1. Value[r] \in 0..9 /\ Value[q[k]] \in 0..9
    BY PrivacyAssumption DEF asciiDigits, At
  <2>2. Doubled(Value[r]) # Doubled(Value[q[k]])
    BY <2>1, DoubledTells
  <2> QED
    BY <1>2, <1>3, <1>4, <2>2 DEF LuhnDigit
<1>8. LuhnSum(q) = Total(c, ds) /\ LuhnSum(t) = Total(d, ds)
  BY <1>3 DEF LuhnSum
<1> HIDE DEF c, d, ds
<1>9. Total(d, ds) + c[k] = Total(c, ds) + d[k]
  <2>1. \A j \in ds : c[j] \in Nat /\ d[j] \in Nat
    BY <1>5
  <2>2. IsFiniteSet(ds) /\ k \in ds
    BY <1>4
  <2> QED
    BY <1>6, <2>1, <2>2, TotalReplaced
<1>10. LuhnSum(t) + c[k] = LuhnSum(q) + d[k] /\ c[k] \in 0..9 /\ d[k] \in 0..9
  BY <1>4, <1>5, <1>8, <1>9
<1>11. LuhnSum(q) % 10 = 0
  BY DEF luhnValid
<1>12. LuhnSum(t) % 10 # 0
  <2>1. \A a, b \in Nat, x, y \in 0..9 :
          a % 10 = 0 /\ b + x = a + y /\ x # y => b % 10 # 0
    OBVIOUS
  <2> QED
    BY <1>4, <1>7, <1>10, <1>11, <2>1
<1> QED
  BY <1>12 DEF luhnValid, t

\* However long the numbers: a card with one digit mistyped is not one.
THEOREM LuhnAlwaysTells == Spec => []LuhnTellsTypos
<1>1. TypeOK => LuhnTellsTypos
  BY TypoTells DEF TypeOK, LuhnTellsTypos
<1> QED
  BY <1>1, TypeCorrect, PTL

-----------------------------------------------------------------------------
(* The loop computes the words *)

\* After position n the loop is in a word.
InWord(s, n) == \E i \in Solid(s) : i <= n /\ \A j \in (i + 1)..n : s[j] \in Control \ Space

Taken(s) == Solid(s) \cup Gap(s)

\* So far the loop has listed the words and their gaps; it remembers a space
\* when the last position listed is a gap.
WordsSoFar ==
  /\ raw \in Trims(event.text)
  /\ Lists(builder, Taken(raw) \cap 1..(next - 1), raw)
  /\ (builder # <<>> /\ ~previousWasSpace) <=> InWord(raw, next - 1)
  /\ previousWasSpace =>
       \E k \in Gap(raw) : k < next /\ \A j \in Solid(raw) : j < next => j < k

Listed ==
  /\ at = "validate" => next = 1 /\ builder = <<>> /\ ~previousWasSpace
  /\ at = "normalize" => WordsSoFar
  /\ at \notin {"validate", "normalize"} /\ raw # <<>> =>
       raw \in Trims(event.text) /\ Lists(query, Solid(raw) \cup Inner(raw), raw)

Words == Keys /\ Listed

\* One more position is listed.
LEMMA ListsOneMore ==
  ASSUME NEW s, NEW n \in Nat, NEW P \in SUBSET (1..n), NEW q \in Seq(Rune), Lists(q, P, s),
         NEW v \in Rune, v = IF n + 1 \in Solid(s) THEN Lower[s[n + 1]] ELSE Blank
  PROVE  Lists(Append(q, v), P \cup {n + 1}, s)
<1> DEFINE t == Append(q, v)
           Q == P \cup {n + 1}
<1>1. Len(q) = Cardinality(P) /\ Len(q) \in Nat
  BY DEF Lists
<1>2. Len(t) = Len(q) + 1 /\ t[Len(q) + 1] = v /\ \A i \in 1..Len(q) : t[i] = q[i]
  BY <1>1
<1>3. /\ Cardinality(Q) = Cardinality(P) + 1
      /\ Place(Q, n + 1) = Cardinality(P) + 1
      /\ \A k \in P : Place(Q, k) = Place(P, k)
  BY NextPlace
<1>4. \A k \in P : Place(P, k) \in 1..Cardinality(P)
  BY Places
<1> HIDE DEF t
<1>5. ASSUME NEW k \in P
      PROVE  t[Place(Q, k)] = IF k \in Solid(s) THEN Lower[s[k]] ELSE Blank
  <2>1. t[Place(Q, k)] = q[Place(P, k)]
    BY <1>1, <1>2, <1>3, <1>4
  <2> QED
    BY <2>1 DEF Lists
<1>6. t[Place(Q, n + 1)] = v
  BY <1>1, <1>2, <1>3
<1>7. Len(t) = Cardinality(Q)
  BY <1>1, <1>2, <1>3
<1>8. \A k \in Q : t[Place(Q, k)] = IF k \in Solid(s) THEN Lower[s[k]] ELSE Blank
  BY <1>5, <1>6
<1> QED
  BY <1>7, <1>8 DEF Lists, t

\* Without the last position the list is shorter by its last rune.
LEMMA ListsOneLess ==
  ASSUME NEW s, NEW n \in Nat, NEW P \in SUBSET (1..n), NEW q \in Seq(Rune),
         Lists(q, P \cup {n + 1}, s), NEW t \in Seq(Rune), Len(t) = Len(q) - 1,
         \A i \in 1..Len(t) : t[i] = q[i]
  PROVE  /\ Lists(t, P, s) /\ Len(q) \in Nat \ {0}
         /\ q[Len(q)] = IF n + 1 \in Solid(s) THEN Lower[s[n + 1]] ELSE Blank
<1> DEFINE Q == P \cup {n + 1}
<1>1. /\ Cardinality(Q) = Cardinality(P) + 1
      /\ Place(Q, n + 1) = Cardinality(P) + 1
      /\ \A k \in P : Place(Q, k) = Place(P, k)
  BY NextPlace
<1>2. Cardinality(P) \in Nat /\ \A k \in P : Place(P, k) \in 1..Cardinality(P)
  BY Places
<1>3. /\ Len(q) = Cardinality(Q)
      /\ \A k \in Q : q[Place(Q, k)] = IF k \in Solid(s) THEN Lower[s[k]] ELSE Blank
  BY DEF Lists
<1>4. Len(t) = Cardinality(P) /\ Len(q) \in Nat \ {0}
  BY <1>1, <1>2, <1>3
<1>5. \A k \in P : t[Place(P, k)] = IF k \in Solid(s) THEN Lower[s[k]] ELSE Blank
  <2> SUFFICES ASSUME NEW k \in P
               PROVE  t[Place(P, k)] = IF k \in Solid(s) THEN Lower[s[k]] ELSE Blank
    OBVIOUS
  <2>1. t[Place(P, k)] = q[Place(Q, k)]
    BY <1>1, <1>2, <1>4
  <2> QED
    BY <1>3, <2>1
<1>6. q[Len(q)] = IF n + 1 \in Solid(s) THEN Lower[s[n + 1]] ELSE Blank
  BY <1>1, <1>3
<1> QED
  BY <1>4, <1>5, <1>6 DEF Lists

LEMMA Positions ==
  ASSUME NEW s \in Seq(Rune)
  PROVE  /\ Len(s) \in Nat /\ Solid(s) \in SUBSET (1..Len(s)) /\ Gap(s) \in SUBSET (1..Len(s))
         /\ Inner(s) \in SUBSET Gap(s) /\ Taken(s) \in SUBSET (1..Len(s))
         /\ \A k \in Solid(s) : k \in Int /\ 1 <= k /\ k <= Len(s)
         /\ \A k \in Gap(s) : k \in Int /\ 1 <= k /\ k <= Len(s)
         /\ \A k \in Solid(s) : s[k] \in Rune \ (Space \cup Control)
         /\ \A k \in Gap(s) : s[k] \in Space
         /\ \A k \in 1..Len(s) : s[k] \in Rune \ (Space \cup Control) => k \in Solid(s)
<1>1. Len(s) \in Nat /\ Solid(s) \in SUBSET (1..Len(s)) /\ Gap(s) \in SUBSET (1..Len(s))
  BY DEF Solid, Gap, At
<1>2. Inner(s) \in SUBSET Gap(s) /\ Taken(s) \in SUBSET (1..Len(s))
  BY <1>1 DEF Inner, Taken
<1>3. /\ \A k \in Solid(s) : k \in Int /\ 1 <= k /\ k <= Len(s)
      /\ \A k \in Gap(s) : k \in Int /\ 1 <= k /\ k <= Len(s)
  BY <1>1
<1>4. /\ \A k \in Solid(s) : s[k] \in Rune \ (Space \cup Control)
      /\ \A k \in Gap(s) : s[k] \in Space
      /\ \A k \in 1..Len(s) : s[k] \in Rune \ (Space \cup Control) => k \in Solid(s)
  BY DEF Solid, Gap, At
<1> QED
  BY <1>1, <1>2, <1>3, <1>4

LEMMA OneMore ==
  ASSUME NEW s \in Seq(Rune), NEW n \in Nat
  PROVE  /\ n + 1 \in Taken(s) => Taken(s) \cap 1..(n + 1) = (Taken(s) \cap 1..n) \cup {n + 1}
         /\ n + 1 \notin Taken(s) => Taken(s) \cap 1..(n + 1) = Taken(s) \cap 1..n
         /\ Taken(s) \cap 1..n \in SUBSET (1..n)
<1>1. \A k \in Int : k \in 1..(n + 1) <=> k \in 1..n \/ k = n + 1
  OBVIOUS
<1>2. Taken(s) \subseteq Int
  BY Positions DEF Taken
<1> QED
  BY <1>1, <1>2

\* What the next rune does to being in a word.
LEMMA InWordNext ==
  ASSUME NEW s \in Seq(Rune), NEW n \in Nat, n + 1 \in 1..Len(s)
  PROVE  /\ s[n + 1] \in Space => ~InWord(s, n + 1) /\ (n + 1 \in Gap(s) <=> InWord(s, n))
         /\ s[n + 1] \in Control \ Space => (InWord(s, n + 1) <=> InWord(s, n))
         /\ n + 1 \in Solid(s) => InWord(s, n + 1)
<1>1. \A i \in Solid(s) : i \in Int /\ (i <= n + 1 <=> i <= n \/ i = n + 1) /\ (i < n + 1 <=> i <= n)
  BY Positions
<1>2. \A i \in Solid(s) : i <= n => (i + 1)..(n + 1) = ((i + 1)..n) \cup {n + 1}
  <2> SUFFICES ASSUME NEW i \in Solid(s), i <= n
               PROVE  (i + 1)..(n + 1) = ((i + 1)..n) \cup {n + 1}
    OBVIOUS
  <2> QED
    BY <1>1
<1>3. ASSUME s[n + 1] \in Space
      PROVE  ~InWord(s, n + 1) /\ (n + 1 \in Gap(s) <=> InWord(s, n))
  <2>1. n + 1 \notin Solid(s)
    BY <1>3, Positions
  <2>2. ~InWord(s, n + 1)
    BY <1>1, <1>2, <1>3, <2>1 DEF InWord
  <2>3. n + 1 \in Gap(s) <=> \E i \in Solid(s) : i < n + 1 /\ \A j \in (i + 1)..((n + 1) - 1) : s[j] \in Control \ Space
    BY <1>3 DEF Gap, At
  <2>4. (n + 1) - 1 = n
    OBVIOUS
  <2> QED
    BY <1>1, <2>2, <2>3, <2>4 DEF InWord
<1>4. ASSUME s[n + 1] \in Control \ Space PROVE InWord(s, n + 1) <=> InWord(s, n)
  <2>1. n + 1 \notin Solid(s)
    BY <1>4, Positions
  <2> QED
    BY <1>1, <1>2, <1>4, <2>1 DEF InWord
<1>5. ASSUME n + 1 \in Solid(s) PROVE InWord(s, n + 1)
  <2>1. (n + 1 + 1)..(n + 1) = {}
    OBVIOUS
  <2> QED
    BY <1>1, <1>5, <2>1 DEF InWord
<1> QED
  BY <1>3, <1>4, <1>5

\* Each pass through the loop keeps WordsSoFar.
LEMMA WordsRead ==
  ASSUME Typed, at = "normalize", WordsSoFar, ReadSpace \/ ReadControl \/ ReadRune
  PROVE  WordsSoFar'
<1> DEFINE n == next - 1
           P == Taken(raw) \cap 1..n
<1>1. /\ raw \in Seq(Rune) /\ builder \in Seq(Rune) /\ n \in Nat /\ n + 1 = next
      /\ next \in 1..Len(raw) /\ raw' = raw /\ event' = event /\ next' - 1 = n + 1 /\ next' = next + 1
  <2>1. Reads(raw[next])
    BY DEF ReadSpace, ReadControl, ReadRune, Reads
  <2>2. raw \in Seq(Rune) /\ Len(raw) \in Nat
    BY DEF Typed, TypeOK
  <2> QED
    BY <2>1, <2>2 DEF Typed, TypeOK, Reads
<1>2. /\ Lists(builder, P, raw) /\ P \in SUBSET (1..n)
      /\ (builder # <<>> /\ ~previousWasSpace) <=> InWord(raw, n)
      /\ raw \in Trims(event.text)
  BY <1>1, OneMore DEF WordsSoFar
<1>3. /\ n + 1 \in Taken(raw) => Taken(raw) \cap 1..(n + 1) = P \cup {n + 1}
      /\ n + 1 \notin Taken(raw) => Taken(raw) \cap 1..(n + 1) = P
  BY <1>1, OneMore
<1>4. \A j \in Solid(raw) \cup Gap(raw) : j \in Int /\ (j < next' <=> j < next \/ j = next)
  BY <1>1, Positions
<1>5. /\ raw[next] \in Space => ~InWord(raw, next) /\ (next \in Gap(raw) <=> InWord(raw, n))
      /\ raw[next] \in Control \ Space => (InWord(raw, next) <=> InWord(raw, n))
      /\ next \in Solid(raw) => InWord(raw, next)
  BY <1>1, InWordNext
<1> HIDE DEF n, P
<1>6. WordsSoFar' <=>
        /\ Lists(builder', Taken(raw) \cap 1..(n + 1), raw)
        /\ (builder' # <<>> /\ ~previousWasSpace') <=> InWord(raw, next)
        /\ previousWasSpace' =>
             \E k \in Gap(raw) : k < next' /\ \A j \in Solid(raw) : j < next' => j < k
  BY <1>1, <1>2 DEF WordsSoFar
<1>7. CASE ReadSpace
  <2>1. raw[next] \in Space /\ next \notin Solid(raw)
    BY <1>1, <1>7, Positions DEF ReadSpace, Reads
  <2>2. CASE builder # <<>> /\ ~previousWasSpace
    <3>1. builder' = Append(builder, Blank) /\ previousWasSpace' = TRUE
      BY <1>7, <2>2 DEF ReadSpace
    <3>2. next \in Gap(raw) /\ next \in Taken(raw)
      BY <1>2, <1>5, <2>1, <2>2 DEF Taken
    <3>3. Blank \in Rune
      BY RuneAssumption
    <3>4. Lists(builder', P \cup {n + 1}, raw)
      BY <1>1, <1>2, <2>1, <3>1, <3>3, ListsOneMore
    <3>5. \A j \in Solid(raw) : j < next' => j < next
      BY <1>4, <2>1
    <3> QED
      BY <1>1, <1>3, <1>4, <1>5, <1>6, <2>1, <3>1, <3>2, <3>4, <3>5
  <2>3. CASE ~(builder # <<>> /\ ~previousWasSpace)
    <3>1. builder' = builder /\ previousWasSpace' = previousWasSpace
      BY <1>7, <2>3 DEF ReadSpace
    <3>2. next \notin Taken(raw)
      BY <1>2, <1>5, <2>1, <2>3 DEF Taken
    <3> QED
      BY <1>1, <1>2, <1>3, <1>4, <1>5, <1>6, <2>1, <2>3, <3>1, <3>2 DEF WordsSoFar
  <2> QED
    BY <2>2, <2>3
<1>8. CASE ReadControl
  <2>1. raw[next] \in Control \ Space /\ builder' = builder /\ previousWasSpace' = previousWasSpace
    BY <1>8 DEF ReadControl, Reads
  <2>2. next \notin Solid(raw) /\ next \notin Gap(raw) /\ next \notin Taken(raw)
    BY <1>1, <2>1, Positions DEF Taken
  <2> QED
    BY <1>1, <1>2, <1>3, <1>4, <1>5, <1>6, <2>1, <2>2 DEF WordsSoFar
<1>9. CASE ReadRune
  <2>1. /\ raw[next] \in Rune \ (Space \cup Control) /\ builder' = Append(builder, Lower[raw[next]])
        /\ previousWasSpace' = FALSE
    BY <1>9 DEF ReadRune, Reads
  <2>2. next \in Solid(raw) /\ next \in Taken(raw)
    BY <1>1, <2>1, Positions DEF Taken
  <2>3. Lower[raw[next]] \in Rune /\ builder' # <<>>
    BY <1>1, <2>1, RuneAssumption
  <2>4. Lists(builder', P \cup {n + 1}, raw)
    BY <1>1, <1>2, <2>1, <2>2, <2>3, ListsOneMore
  <2> QED
    BY <1>1, <1>3, <1>5, <1>6, <2>1, <2>2, <2>3, <2>4
<1> QED
  BY <1>7, <1>8, <1>9

\* What strings.TrimSpace takes off at the end is the gap nothing follows.
LEMMA WordsTrimmed ==
  ASSUME Typed, Written, WordsSoFar, Normalized
  PROVE  Lists(query', Solid(raw) \cup Inner(raw), raw)
<1> DEFINE len == Len(raw)
           last == Len(builder)
<1>1. /\ raw \in Seq(Rune) /\ builder \in Seq(Rune) /\ len \in Nat /\ last \in Nat
      /\ next - 1 = len /\ next = len + 1
  BY DEF Typed, TypeOK, Normalized
<1>2. Taken(raw) \cap 1..(next - 1) = Taken(raw)
  BY <1>1, Positions
<1>3. Lists(builder, Taken(raw), raw)
  BY <1>2 DEF WordsSoFar
<1>4. PICK a \in 1..(last + 1), b \in 0..last :
        /\ a <= b + 1 /\ Trimmed(builder, a, b)
        /\ query' \in Seq(Rune) /\ Len(query') = b - a + 1
        /\ \A k \in 1..Len(query') : query'[k] = builder[a + k - 1]
  BY <1>1, TrimsAre DEF Normalized
<1>5. ASSUME builder # <<>> PROVE a = 1 /\ b >= 1 /\ last >= 1
  <2>1. last >= 1 /\ 1 \in 1..last
    BY <1>1, <1>5
  <2>2. builder[1] \notin Space
    BY <1>1, <2>1 DEF Written, Plain
  <2>3. 1 \notin 1..(a - 1) \cup (b + 1)..last
    BY <1>4, <2>2 DEF Trimmed
  <2> QED
    BY <1>1, <2>1, <2>3
<1>6. CASE builder = <<>>
  <2>1. Len(builder) = 0
    BY <1>6
  <2>2. Cardinality(Taken(raw)) = 0 /\ IsFiniteSet(Taken(raw))
    <3>1. Taken(raw) \in SUBSET (1..len) /\ len \in Nat
      BY <1>1, Positions
    <3> QED
      BY <1>3, <2>1, <3>1, Places DEF Lists
  <2>3. Taken(raw) = {}
    BY <2>2, FS_EmptySet
  <2>4. Solid(raw) \cup Inner(raw) = Taken(raw)
    BY <2>3, <1>1, Positions DEF Taken
  <2>5. Len(query') = 0 /\ query' = builder
    BY <1>4, <1>6, <2>1
  <2> QED
    BY <1>3, <2>4, <2>5
<1>7. CASE builder # <<>> /\ ~previousWasSpace
  <2>1. PICK i \in Solid(raw) : i <= len /\ \A j \in (i + 1)..len : raw[j] \in Control \ Space
    BY <1>1, <1>7 DEF WordsSoFar, InWord
  <2>2. Gap(raw) \subseteq Inner(raw)
    <3> SUFFICES ASSUME NEW k \in Gap(raw) PROVE k < i
      BY DEF Inner
    <3>1. k \in Int /\ k <= len /\ i \in Int /\ raw[k] \in Space /\ raw[i] \notin Space
      BY <1>1, Positions
    <3>2. k # i /\ k \notin (i + 1)..len
      BY <2>1, <3>1
    <3> QED
      BY <1>1, <3>1, <3>2
  <2>3. Solid(raw) \cup Inner(raw) = Taken(raw)
    BY <1>1, <2>2, Positions DEF Taken
  <2>4. builder[last] \notin Space
    BY <1>7 DEF Written, Plain
  <2>5. b = last
    BY <1>1, <1>4, <1>5, <1>7, <2>4 DEF Trimmed
  <2>6. query' = builder
    <3>1. a = 1 /\ Len(query') = last
      BY <1>4, <1>5, <1>7, <2>5
    <3>2. \A k \in 1..last : query'[k] = builder[k]
      BY <1>4, <3>1
    <3> QED
      BY <1>1, <1>4, <3>1, <3>2
  <2> QED
    BY <1>3, <2>3, <2>6
<1>8. CASE builder # <<>> /\ previousWasSpace
  <2>1. PICK m \in Gap(raw) : \A j \in Solid(raw) : j < m
    <3>1. \A j \in Solid(raw) : j < next
      BY <1>1, Positions
    <3> QED
      BY <1>8, <3>1 DEF WordsSoFar
  <2> DEFINE P == Solid(raw) \cup Inner(raw)
  <2>2. m \in Int /\ 1 <= m /\ m <= len /\ raw[m] \in Space /\ m \notin Solid(raw)
    BY <1>1, Positions
  <2>3. \A k \in Gap(raw) : k <= m /\ (k \in Inner(raw) <=> k # m)
    <3> SUFFICES ASSUME NEW k \in Gap(raw) PROVE k <= m /\ (k \in Inner(raw) <=> k # m)
      OBVIOUS
    <3>1. k \in Int /\ 1 <= k /\ k <= len /\ raw[k] \in Space
      BY <1>1, Positions
    <3>2. PICK i \in Solid(raw) : i < k /\ \A j \in (i + 1)..(k - 1) : raw[j] \in Control \ Space
      BY DEF Gap
    <3>3. PICK i1 \in Solid(raw) : i1 < m /\ \A j \in (i1 + 1)..(m - 1) : raw[j] \in Control \ Space
      BY DEF Gap
    <3>4. i \in Int /\ i1 \in Int /\ i < m /\ raw[i1] \notin Space \cup Control
      BY <1>1, <2>1, Positions
    <3>5. k <= m
      <4>1. m \notin (i + 1)..(k - 1)
        BY <2>2, <3>2
      <4> QED
        BY <2>2, <3>1, <3>4, <4>1
    <3>6. k # m => k < i1
      <4>1. k \notin (i1 + 1)..(m - 1) /\ k # i1
        BY <3>1, <3>3, <3>4
      <4> QED
        BY <2>2, <3>1, <3>4, <3>5, <4>1
    <3>7. m \notin Inner(raw)
      <4>1. \A j \in Solid(raw) : j \in Int /\ ~ (m < j)
        BY <1>1, <2>1, <2>2, Positions
      <4> QED
        BY <4>1 DEF Inner
    <3>8. k # m => k \in Inner(raw)
      BY <3>6 DEF Inner
    <3> QED
      BY <3>5, <3>7, <3>8
  <2>4. Taken(raw) = P \cup {m} /\ P \in SUBSET (1..(m - 1)) /\ m - 1 \in Nat /\ (m - 1) + 1 = m
    <3>1. Inner(raw) \subseteq Gap(raw)
      BY <1>1, Positions
    <3>2. Taken(raw) = P \cup {m}
      BY <2>3, <3>1 DEF Taken
    <3>3. \A k \in P : k \in 1..(m - 1)
      <4>1. \A k \in P : k \in Int /\ 1 <= k
        BY <1>1, <3>1, Positions
      <4>2. \A k \in P : k < m
        <5>1. \A k \in Inner(raw) : k <= m /\ k # m
          BY <2>3, <3>1
        <5>2. \A k \in Inner(raw) : k < m
          BY <2>2, <3>1, <4>1, <5>1
        <5> QED
          BY <2>1, <5>2
      <4> QED
        BY <2>2, <4>1, <4>2
    <3> QED
      BY <2>2, <3>2, <3>3
  <2> HIDE DEF P
  <2>5. ASSUME NEW t \in Seq(Rune), Len(t) = last - 1, \A i \in 1..Len(t) : t[i] = builder[i]
        PROVE  Lists(t, P, raw) /\ builder[last] = Blank
    <3>1. Lists(builder, P \cup {(m - 1) + 1}, raw)
      BY <1>3, <2>4
    <3>2. /\ Lists(t, P, raw)
          /\ builder[last] = IF (m - 1) + 1 \in Solid(raw) THEN Lower[raw[(m - 1) + 1]] ELSE Blank
      BY <1>1, <2>4, <2>5, <3>1, ListsOneLess
    <3> QED
      BY <2>2, <2>4, <3>2
  <2>6. last \in 1..last /\ last - 1 \in Nat
    BY <1>1, <1>5, <1>8
  <2>7. builder[last] = Blank
    <3> DEFINE t == SubSeq(builder, 1, last - 1)
    <3>1. t \in Seq(Rune) /\ Len(t) = last - 1 /\ \A i \in 1..(last - 1) : t[i] = builder[i]
      <4>1. \A i \in 1..(last - 1) : builder[i] \in Rune
        BY <1>1, <2>6
      <4>2. /\ 1 \in Int /\ last - 1 \in Int
            /\ (last - 1) - 1 + 1 = last - 1 /\ (1 <= last - 1 \/ last - 1 = 0)
            /\ \A i \in 1..(last - 1) : 1 + i - 1 = i
        <5>1. \A n \in Nat : /\ n \in Int /\ n - 1 + 1 = n /\ (1 <= n \/ n = 0)
                             /\ \A i \in 1..n : 1 + i - 1 = i
          OBVIOUS
        <5> QED
          BY <2>6, <5>1
      <4>3. /\ t \in Seq(Rune)
            /\ Len(t) = IF 1 <= last - 1 THEN (last - 1) - 1 + 1 ELSE 0
            /\ \A i \in 1..((last - 1) - 1 + 1) : t[i] = builder[1 + i - 1]
        BY <4>1, <4>2, SubSeqProperties
      <4> HIDE DEF t
      <4> QED
        BY <4>2, <4>3
    <3> HIDE DEF t
    <3> QED
      BY <2>5, <3>1
  <2>8. last > 1 /\ Plain(builder[last - 1])
    BY <2>6, <2>7, RuneAssumption DEF Written, Plain
  <2>9. b = last - 1
    <3>1. builder[last] \in Space /\ builder[last - 1] \notin Space
      BY <2>7, <2>8, RuneAssumption DEF Plain
    <3>2. b # last
      BY <1>4, <1>5, <1>8, <3>1 DEF Trimmed
    <3>3. last - 1 \notin (b + 1)..last
      BY <1>4, <3>1 DEF Trimmed
    <3> QED
      BY <1>1, <1>4, <3>2, <3>3
  <2>10. a = 1 /\ Len(query') = last - 1 /\ \A k \in 1..Len(query') : query'[k] = builder[k]
    <3>1. a = 1 /\ Len(query') = last - 1
      BY <1>4, <1>5, <1>8, <2>9
    <3>2. \A k \in 1..Len(query') : query'[k] = builder[k]
      BY <1>4, <3>1
    <3> QED
      BY <3>1, <3>2
  <2> QED
    BY <1>4, <2>5, <2>10 DEF P
<1> QED
  BY <1>6, <1>7, <1>8

\* Trimming takes no word off, so the words of the rest are all the words.
LEMMA WordsOfRest ==
  ASSUME NEW s \in Seq(Rune), NEW t \in Trims(s), NEW q, Lists(q, Solid(t) \cup Inner(t), t)
  PROVE  Lists(q, Solid(s) \cup Inner(s), s)
<1>1. PICK a \in 1..(Len(s) + 1), b \in 0..Len(s) :
        /\ a <= b + 1 /\ Trimmed(s, a, b)
        /\ t \in Seq(Rune) /\ Len(t) = b - a + 1
        /\ \A k \in 1..Len(t) : t[k] = s[a + k - 1]
  BY TrimsAre
<1> DEFINE off == a - 1
           P == Solid(t) \cup Inner(t)
           Q == Solid(s) \cup Inner(s)
           f == [k \in P |-> k + off]
<1>2. off \in Nat /\ Len(s) \in Nat /\ Len(t) \in Nat /\ a = off + 1 /\ b = Len(t) + off
  BY <1>1
<1>3. \A k \in Int : k \in 1..Len(t) => k + off \in 1..Len(s) /\ t[k] = s[k + off]
  <2> SUFFICES ASSUME NEW k \in Int, k \in 1..Len(t)
               PROVE  k + off \in 1..Len(s) /\ t[k] = s[k + off]
    OBVIOUS
  <2>1. a + k - 1 = k + off
    BY <1>2
  <2> QED
    BY <1>1, <1>2, <2>1
<1>4. \A k \in 1..Len(s) : s[k] \notin Space => k - off \in 1..Len(t)
  <2> SUFFICES ASSUME NEW k \in 1..Len(s), s[k] \notin Space PROVE k - off \in 1..Len(t)
    OBVIOUS
  <2>1. k \notin 1..(a - 1) /\ k \notin (b + 1)..Len(s)
    BY <1>1 DEF Trimmed
  <2> QED
    BY <1>2, <2>1
<1> HIDE DEF off, P, Q, f
<1>5. \A k \in Solid(t) : k + off \in Solid(s)
  BY <1>3, <1>1, Positions
<1>6. \A k \in Solid(s) : k - off \in Solid(t) /\ k - off \in Int /\ k - off <= Len(t) /\ 1 <= k - off
  <2> SUFFICES ASSUME NEW k \in Solid(s)
               PROVE  k - off \in Solid(t) /\ k - off \in Int /\ k - off <= Len(t) /\ 1 <= k - off
    OBVIOUS
  <2>1. k \in 1..Len(s) /\ k \in Int /\ s[k] \in Rune \ (Space \cup Control)
    BY Positions
  <2>2. k - off \in 1..Len(t) /\ k - off \in Int /\ (k - off) + off = k
    BY <1>2, <1>4, <2>1
  <2>3. t[k - off] = s[k]
    BY <1>3, <2>2
  <2>4. k - off \in Solid(t)
    BY <1>1, <2>1, <2>2, <2>3, Positions
  <2> QED
    BY <1>2, <2>2, <2>4
<1>7. \A k \in Gap(t) : k + off \in Gap(s)
  <2> SUFFICES ASSUME NEW k \in Gap(t) PROVE k + off \in Gap(s)
    OBVIOUS
  <2>1. k \in Int /\ 1 <= k /\ k <= Len(t) /\ k \in 1..Len(t) /\ t[k] \in Space
    BY <1>1, Positions
  <2>2. PICK i \in Solid(t) : i < k /\ \A j \in (i + 1)..(k - 1) : t[j] \in Control \ Space
    BY DEF Gap
  <2>3. i \in Int /\ 1 <= i
    BY <1>1, Positions
  <2>4. ASSUME NEW j \in (i + off + 1)..((k + off) - 1) PROVE s[j] \in Control \ Space
    <3>1. j - off \in (i + 1)..(k - 1) /\ j - off \in Int /\ j - off \in 1..Len(t) /\ (j - off) + off = j
      BY <1>2, <2>1, <2>3
    <3>2. t[j - off] = s[j]
      BY <1>3, <3>1
    <3> QED
      BY <2>2, <3>1, <3>2
  <2>5. i + off \in Solid(s) /\ i + off < k + off
    BY <1>2, <1>5, <2>1, <2>2, <2>3
  <2>6. k + off \in 1..Len(s) /\ s[k + off] \in Space
    BY <1>3, <2>1
  <2> QED
    BY <2>4, <2>5, <2>6 DEF Gap, At
<1>8. \A k \in Gap(s) : k - off \in 1..Len(t) => k - off \in Gap(t)
  <2> SUFFICES ASSUME NEW k \in Gap(s), k - off \in 1..Len(t) PROVE k - off \in Gap(t)
    OBVIOUS
  <2>1. k \in Int /\ s[k] \in Space
    BY Positions
  <2>2. PICK i \in Solid(s) : i < k /\ \A j \in (i + 1)..(k - 1) : s[j] \in Control \ Space
    BY DEF Gap
  <2>3. i \in Int /\ i - off \in Solid(t) /\ i - off \in Int /\ 1 <= i - off
    BY <1>6, Positions
  <2>4. ASSUME NEW j \in (i - off + 1)..(k - off - 1) PROVE t[j] \in Control \ Space
    <3>1. j + off \in (i + 1)..(k - 1) /\ j \in Int /\ j \in 1..Len(t)
      BY <1>2, <2>1, <2>3
    <3>2. t[j] = s[j + off]
      BY <1>3, <3>1
    <3> QED
      BY <2>2, <3>1, <3>2
  <2>5. i - off < k - off
    BY <1>2, <2>1, <2>2, <2>3
  <2>6. t[k - off] \in Space
    <3>1. k - off \in Int /\ (k - off) + off = k
      BY <1>2, <2>1
    <3>2. t[k - off] = s[(k - off) + off]
      BY <1>3, <3>1
    <3> QED
      BY <2>1, <3>1, <3>2
  <2> QED
    BY <2>3, <2>4, <2>5, <2>6 DEF Gap, At
<1>9. \A k \in P : k + off \in Q
  <2>1. ASSUME NEW k \in Inner(t) PROVE k + off \in Inner(s)
    <3>1. k \in Gap(t) /\ k \in Int
      BY <1>1, Positions
    <3>2. PICK j \in Solid(t) : k < j
      BY DEF Inner
    <3>3. j \in Int /\ j + off \in Solid(s)
      BY <1>1, <1>5, Positions
    <3>4. k + off < j + off
      BY <1>2, <3>1, <3>2, <3>3
    <3> QED
      BY <1>7, <3>1, <3>3, <3>4 DEF Inner
  <2> QED
    BY <1>5, <2>1 DEF P, Q
<1>10. \A k \in Q : k - off \in P
  <2>1. ASSUME NEW k \in Inner(s) PROVE k - off \in Inner(t)
    <3>1. k \in Gap(s) /\ k \in Int
      BY Positions
    <3>2. PICK j \in Solid(s) : k < j
      BY DEF Inner
    <3>3. PICK i \in Solid(s) : i < k
      BY <3>1 DEF Gap
    <3>4. /\ j \in Int /\ j - off \in Solid(t) /\ j - off <= Len(t)
          /\ i \in Int /\ 1 <= i - off
      BY <1>6, Positions
    <3>5. k - off \in 1..Len(t) /\ k - off < j - off
      BY <1>2, <3>1, <3>2, <3>3, <3>4
    <3> QED
      BY <1>8, <3>1, <3>4, <3>5 DEF Inner
  <2> QED
    BY <1>6, <2>1 DEF P, Q
<1>11. P \in SUBSET (1..Len(t)) /\ Q \in SUBSET (1..Len(s)) /\ P \subseteq Int /\ Q \subseteq Int
  <2>1. P \in SUBSET (1..Len(t)) /\ Q \in SUBSET (1..Len(s))
    BY <1>1, Positions DEF P, Q
  <2>2. (\A k \in P : k \in Int) /\ \A k \in Q : k \in Int
    BY <1>2, <2>1
  <2> QED
    BY <2>1, <2>2
<1>12. /\ f \in [P -> Q] /\ \A k \in P : f[k] = k + off
  BY <1>9 DEF f
<1>13. \A k \in Q : \E j \in P : f[j] = k
  <2> SUFFICES ASSUME NEW k \in Q PROVE \E j \in P : f[j] = k
    OBVIOUS
  <2>1. k - off \in P /\ f[k - off] = (k - off) + off /\ k \in Int
    BY <1>10, <1>11, <1>12
  <2>2. f[k - off] = k
    BY <1>2, <2>1
  <2> QED
    BY <2>1, <2>2
<1>14. \A j, k \in P : j < k => f[j] < f[k]
  BY <1>2, <1>11, <1>12
<1>15. Cardinality(P) = Cardinality(Q) /\ \A k \in P : Place(Q, f[k]) = Place(P, k)
  BY <1>2, <1>11, <1>12, <1>13, <1>14, SamePlaces
<1>16. /\ Len(q) = Cardinality(P)
       /\ \A k \in P : q[Place(P, k)] = IF k \in Solid(t) THEN Lower[t[k]] ELSE Blank
  BY DEF Lists, P
<1>17. ASSUME NEW k \in Q
       PROVE  q[Place(Q, k)] = IF k \in Solid(s) THEN Lower[s[k]] ELSE Blank
  <2>1. PICK j \in P : f[j] = k
    BY <1>13
  <2>2. j \in Int /\ j \in 1..Len(t) /\ k = j + off /\ k - off = j /\ Place(Q, k) = Place(P, j)
    BY <1>2, <1>11, <1>12, <1>15, <2>1
  <2>3. t[j] = s[k] /\ (j \in Solid(t) <=> k \in Solid(s))
    BY <1>3, <1>5, <1>6, <2>2
  <2> QED
    BY <1>16, <2>2, <2>3
<1> QED
  BY <1>15, <1>16, <1>17 DEF Lists, Q

LEMMA WordsStep == Words /\ [Next]_vars => Words'
<1> SUFFICES ASSUME Words, [Next]_vars PROVE Words'
  OBVIOUS
<1>1. Keys /\ Keys' /\ Typed /\ Typed' /\ Written /\ Listed
  BY KeysStep DEF Words, Keys
<1>2. CASE Validate
  <2>1. /\ raw' \in Trims(event'.text) /\ next' = 1 /\ builder' = <<>> /\ ~previousWasSpace'
        /\ at' = "normalize"
    BY <1>1, <1>2 DEF Validate, Goes, Listed, loopVars
  <2>2. raw' \in Seq(Rune)
    BY <1>1 DEF Typed, TypeOK
  <2>3. Taken(raw') \cap 1..(next' - 1) = {}
    BY <2>1
  <2>4. Lists(builder', {}, raw')
    <3>1. Len(<<>>) = 0 /\ Cardinality({}) = 0
      BY FS_EmptySet
    <3> QED
      BY <2>1, <3>1 DEF Lists
  <2>5. ~InWord(raw', next' - 1)
    <3>1. \A i \in Solid(raw') : ~ (i <= 0)
      BY <2>2, Positions
    <3>2. next' - 1 = 0
      BY <2>1
    <3> QED
      BY <3>1, <3>2 DEF InWord
  <2>6. WordsSoFar'
    BY <2>1, <2>3, <2>4, <2>5 DEF WordsSoFar
  <2> QED
    BY <1>1, <2>1, <2>6 DEF Words, Listed
<1>3. CASE ReadSpace \/ ReadControl \/ ReadRune
  <2>1. at = "normalize" /\ at' = "normalize"
    BY <1>3 DEF ReadSpace, ReadControl, ReadRune, Reads
  <2> QED
    BY <1>1, <1>3, <2>1, WordsRead DEF Words, Listed
<1>4. CASE Normalized
  <2>1. at = "normalize" /\ at' \notin {"validate", "normalize"} /\ raw' = raw /\ event' = event
    BY <1>4 DEF Normalized
  <2>2. WordsSoFar
    BY <1>1, <2>1 DEF Listed
  <2>3. Lists(query', Solid(raw) \cup Inner(raw), raw) /\ raw \in Trims(event.text)
    BY <1>1, <1>4, <2>2, WordsTrimmed DEF WordsSoFar
  <2> QED
    BY <1>1, <2>1, <2>3 DEF Words, Listed
<1>5. CASE UNCHANGED <<event, raw, loopVars, query>> /\ at' \notin {"validate", "normalize"} /\ at \notin {"validate", "normalize"}
  BY <1>1, <1>5 DEF Words, Listed
<1>6. CASE Invalid
  BY <1>1, <1>6 DEF Invalid, Drop, Words, Listed, Typed, Fresh
<1>7. CASE UNCHANGED vars
  BY <1>1, <1>7 DEF vars, Words, Listed, WordsSoFar, loopVars
<1>8. CASE Filter \/ Bot \/ StopListed \/ NotStopListed \/ Add
  <2>1. at \notin {"validate", "normalize"}
    BY <1>8 DEF Filter, Bot, StopListed, NotStopListed, Add, Goes
  <2>2. UNCHANGED <<event, raw, loopVars, query>> /\ at' \notin {"validate", "normalize"}
    BY <1>8 DEF Filter, Bot, StopListed, NotStopListed, Add, Goes, Drop, Passes
  <2> QED
    BY <1>5, <2>1, <2>2
<1> QED
  BY <1>2, <1>3, <1>4, <1>6, <1>7, <1>8 DEF Next, Normalize

LEMMA InitWords == Init => Words
<1> SUFFICES ASSUME Init PROVE Words
  OBVIOUS
<1>1. Keys
  BY InitType DEF Init, Keys, Written, KeysAreCanonical, Canonical, NoQuery
<1> QED
  BY <1>1 DEF Init, Words, Listed

\* The query lists the words of the text that was sent.
LEMMA WordsListed ==
  Words => (at \notin {"validate", "normalize"} /\ raw # <<>> =>
              /\ event.text \in Seq(Rune) /\ query \in Seq(Rune)
              /\ Lists(query, Solid(event.text) \cup Inner(event.text), event.text))
<1>1. Typed => event.text \in Seq(Rune) /\ query \in Seq(Rune)
  BY ProcessorAssumption DEF Typed, TypeOK, Event
<1> QED
  BY <1>1, WordsOfRest DEF Words, Keys, Listed

\* Whatever the text and its length, its normal form is its words in lower
\* case: the loop loses no rune of a word and adds none.
THEOREM QueryStaysWords == Spec => []QueryIsWords
<1>1. Words => QueryIsWords
  BY WordsListed DEF QueryIsWords
<1> QED
  BY <1>1, InitWords, WordsStep, PTL DEF Spec

-----------------------------------------------------------------------------
(* No digits slip through *)

\* The positions that the query lists.
Shown(s) == Solid(s) \cup Inner(s)

\* The digits of the text are the digits of its words, in their order.
LEMMA DigitsKept ==
  ASSUME NEW s \in Seq(Rune), NEW q \in Seq(Rune), Lists(q, Shown(s), s)
  PROVE  /\ Shown(s) \in SUBSET (1..Len(s)) /\ asciiDigits(s) \in SUBSET Shown(s)
         /\ \A k \in Shown(s) : s[k] \in Space \/ k \in Solid(s)
         /\ \A k \in asciiDigits(s) : Place(Shown(s), k) \in asciiDigits(q) /\ q[Place(Shown(s), k)] = s[k]
         /\ \A m \in asciiDigits(q) : \E k \in asciiDigits(s) : Place(Shown(s), k) = m
         /\ \A j, k \in asciiDigits(s) : j < k => Place(Shown(s), j) < Place(Shown(s), k)
<1> DEFINE K == Shown(s)
<1>1. K \in SUBSET (1..Len(s)) /\ \A k \in K : s[k] \in Space \/ k \in Solid(s)
  BY Positions DEF Shown
<1>2. asciiDigits(s) \in SUBSET Solid(s)
  <2> SUFFICES ASSUME NEW k \in asciiDigits(s) PROVE k \in Solid(s)
    OBVIOUS
  <2>1. k \in 1..Len(s) /\ s[k] \in DOMAIN Value
    BY DEF asciiDigits, At
  <2>2. s[k] \in Rune \ (Space \cup Control)
    BY <2>1, RuneAssumption
  <2> QED
    BY <2>1, <2>2, Positions
<1>3. /\ Len(s) \in Nat /\ Len(q) = Cardinality(K)
      /\ \A k \in K : q[Place(K, k)] = IF k \in Solid(s) THEN Lower[s[k]] ELSE Blank
  <2>1. /\ Len(q) = Cardinality(K)
        /\ \A k \in K : q[Place(K, k)] = IF k \in Solid(s) THEN Lower[s[k]] ELSE Blank
    BY Zenon DEF Lists
  <2> QED
    BY <2>1
<1> HIDE DEF K
<1>4. /\ \A k \in K : Place(K, k) \in 1..Cardinality(K)
      /\ \A j, k \in K : j < k <=> Place(K, j) < Place(K, k)
      /\ \A m \in 1..Cardinality(K) : \E k \in K : Place(K, k) = m
  BY <1>1, <1>3, Places
<1>5. ASSUME NEW k \in K
      PROVE  q[Place(K, k)] \in DOMAIN Value <=> k \in asciiDigits(s)
  <2>1. CASE k \in Solid(s)
    <3>1. q[Place(K, k)] = Lower[s[k]] /\ s[k] \in Rune /\ k \in 1..Len(s)
      BY <1>1, <1>3, <2>1, Positions
    <3>2. Lower[s[k]] \in DOMAIN Value <=> s[k] \in DOMAIN Value
      BY <3>1, RuneAssumption
    <3> QED
      BY <3>1, <3>2 DEF asciiDigits, At
  <2>2. CASE k \notin Solid(s)
    <3>1. q[Place(K, k)] = Blank /\ Blank \notin DOMAIN Value
      BY <1>3, <2>2, RuneAssumption
    <3> QED
      BY <1>2, <2>2, <3>1
  <2> QED
    BY <2>1, <2>2
<1>6. ASSUME NEW k \in asciiDigits(s)
      PROVE  Place(K, k) \in asciiDigits(q) /\ q[Place(K, k)] = s[k]
  <2>1. k \in K /\ k \in Solid(s) /\ s[k] \in DOMAIN Value
    BY <1>2 DEF asciiDigits, At, K, Shown
  <2>2. Place(K, k) \in 1..Len(q) /\ q[Place(K, k)] \in DOMAIN Value
    BY <1>3, <1>4, <1>5, <2>1
  <2>3. Lower[s[k]] = s[k]
    BY <2>1, RuneAssumption
  <2> QED
    BY <1>3, <2>1, <2>2, <2>3 DEF asciiDigits, At
<1>7. ASSUME NEW m \in asciiDigits(q) PROVE \E k \in asciiDigits(s) : Place(K, k) = m
  <2>1. m \in 1..Cardinality(K) /\ q[m] \in DOMAIN Value
    BY <1>3 DEF asciiDigits, At
  <2> QED
    BY <1>4, <1>5, <2>1
<1>8. asciiDigits(s) \in SUBSET K
  BY <1>2 DEF K, Shown
<1> QED
  BY <1>1, <1>4, <1>6, <1>7, <1>8 DEF K

\* So Luhn's sum of the text is the sum of its query,
LEMMA SameCard ==
  ASSUME NEW s \in Seq(Rune), NEW q \in Seq(Rune), Lists(q, Shown(s), s)
  PROVE  luhnValid(s) <=> luhnValid(q)
<1> DEFINE K == Shown(s)
           D == asciiDigits(s)
           E == asciiDigits(q)
           f == [k \in D |-> Place(K, k)]
           c == [k \in D |-> LuhnDigit(s, k)]
           d == [k \in E |-> LuhnDigit(q, k)]
<1>1. /\ \A k \in D : Place(K, k) \in E /\ q[Place(K, k)] = s[k]
      /\ \A m \in E : \E k \in D : Place(K, k) = m
      /\ \A j, k \in D : j < k => Place(K, j) < Place(K, k)
  BY DigitsKept
<1>2. /\ Len(s) \in Nat /\ D \in SUBSET (1..Len(s)) /\ IsFiniteSet(D)
      /\ Len(q) \in Nat /\ E \in SUBSET (1..Len(q))
  BY DigitsFinite
<1>3. /\ f \in [D -> E] /\ (\A k \in D : f[k] = Place(K, k))
      /\ (\A m \in E : \E k \in D : f[k] = m) /\ \A j, k \in D : j < k => f[j] < f[k]
  <2> HIDE DEF D, E, K
  <2> QED
    BY <1>1
<1> HIDE DEF f
<1>4. /\ f \in Bijection(D, E) /\ Cardinality(D) = Cardinality(E)
      /\ \A k \in D : Place(E, f[k]) = Place(D, k)
  <2> HIDE DEF D, E, K, c, d
  <2>1. /\ Len(s) \in Nat /\ D \in SUBSET (1..Len(s))
        /\ Len(q) \in Nat /\ E \in SUBSET (1..Len(q))
    BY <1>2
  <2>2. f \in [D -> E] /\ (\A m \in E : \E k \in D : f[k] = m) /\ \A j, k \in D : j < k => f[j] < f[k]
    BY <1>3
  <2>3. f \in Bijection(D, E)
    BY <2>1, <2>2, SamePlaces
  <2>4. Cardinality(D) = Cardinality(E) /\ \A k \in D : Place(E, f[k]) = Place(D, k)
    BY <2>1, <2>2, SamePlaces
  <2> QED
    BY <2>3, <2>4
<1>5. ASSUME NEW k \in D PROVE d[f[k]] = c[k]
  <2>1. f[k] \in E /\ q[f[k]] = s[k]
    BY <1>1, <1>3
  <2>2. LuhnDigit(q, f[k]) = LuhnDigit(s, k)
    BY <1>4, <2>1, Zenon DEF LuhnDigit
  <2> QED
    BY <2>1, <2>2
<1>6. \A k \in D : c[k] \in Nat
  BY LuhnDigitType
<1>7. LuhnSum(s) = Total(c, D) /\ LuhnSum(q) = Total(d, E)
  BY DEF LuhnSum
<1>8. Total(d, E) = Total(c, D)
  <2> HIDE DEF c, d, D, E, K
  <2>1. IsFiniteSet(D) /\ f \in Bijection(D, E)
    BY <1>2, <1>4
  <2>2. (\A k \in D : c[k] \in Nat) /\ \A k \in D : d[f[k]] = c[k]
    BY <1>5, <1>6
  <2> QED
    BY <2>1, <2>2, TotalRenamed
<1> QED
  BY <1>4, <1>7, <1>8 DEF luhnValid

\* and digits in a row but for control characters stand in a row in the query.
LEMMA RunShows ==
  ASSUME NEW s \in Seq(Rune), NEW q \in Seq(Rune), Lists(q, Shown(s), s), HiddenRun(s)
  PROVE  LongDigitRun(q)
<1> DEFINE K == Shown(s)
           D == asciiDigits(s)
<1>1. /\ K \in SUBSET (1..Len(s)) /\ D \in SUBSET K /\ Len(s) \in Nat
      /\ \A k \in K : s[k] \in Space \/ k \in Solid(s)
      /\ \A k \in D : Place(K, k) \in asciiDigits(q)
  BY DigitsKept
<1>2. /\ Cardinality(K) \in Nat /\ IsFiniteSet(K) /\ Len(q) = Cardinality(K)
      /\ \A m \in 1..Cardinality(K) : \E k \in K : Place(K, k) = m
  BY <1>1, Places DEF Lists
<1>3. PICK i \in 1..Len(s), j \in 1..Len(s) :
        /\ \A k \in i..j : s[k] \in DOMAIN Value \cup (Control \ Space)
        /\ Cardinality(D \cap i..j) >= MinRun
  <2>1. DOMAIN s = 1..Len(s)
    OBVIOUS
  <2> QED
    BY <2>1 DEF HiddenRun
<1> DEFINE before == K \cap 1..(i - 1)
           run == K \cap i..j
           upto == K \cap 1..j
<1>4. run = D \cap i..j
  <2>1. ASSUME NEW k \in run PROVE k \in D
    <3>1. k \in 1..Len(s) /\ s[k] \in DOMAIN Value \cup (Control \ Space)
      BY <1>1, <1>3
    <3>2. s[k] \in Space \/ s[k] \in Rune \ (Space \cup Control)
      BY <1>1, Positions
    <3>3. s[k] \in DOMAIN Value
      BY <3>1, <3>2, RuneAssumption
    <3> QED
      BY <3>1, <3>3 DEF asciiDigits, At
  <2> QED
    BY <1>1, <2>1
<1> HIDE DEF K, D
<1>5. /\ IsFiniteSet(before) /\ IsFiniteSet(run) /\ IsFiniteSet(upto)
      /\ Cardinality(before) \in Nat /\ Cardinality(run) \in Nat /\ Cardinality(upto) \in Nat
      /\ Cardinality(upto) <= Cardinality(K)
  BY <1>2, FS_Subset, FS_CardinalityType
<1>6. MinRun \in Nat \ {0} /\ Cardinality(run) >= MinRun
  BY <1>3, <1>4, PrivacyAssumption
<1>7. i <= j
  <2> SUFFICES ASSUME ~(i <= j) PROVE FALSE
    OBVIOUS
  <2>1. run = {}
    OBVIOUS
  <2> HIDE DEF run
  <2>2. Cardinality(run) = 0
    BY <2>1, FS_EmptySet
  <2> QED
    BY <1>6, <2>2
<1>8. \A k \in K : k \in Int /\ 1 <= k
  BY <1>1
<1>9. upto = before \cup run /\ before \cap run = {}
  <2>1. \A k \in K : /\ k \in 1..j <=> k <= j
                     /\ k \in 1..(i - 1) <=> k < i
                     /\ k \in i..j <=> i <= k /\ k <= j
    BY <1>8
  <2>2. \A k \in K : (k <= j <=> (k < i \/ (i <= k /\ k <= j))) /\ ~(k < i /\ i <= k)
    BY <1>7, <1>8
  <2> QED
    BY <2>1, <2>2
<1> HIDE DEF before, run, upto
<1>10. Cardinality(upto) = Cardinality(before) + Cardinality(run)
  <2>1. Cardinality(before \cap run) = 0
    BY <1>9, FS_EmptySet
  <2>2. Cardinality(before \cup run) = Cardinality(before) + Cardinality(run) - Cardinality(before \cap run)
    BY <1>5, FS_Union
  <2> QED
    BY <1>5, <1>9, <2>1, <2>2
<1> DEFINE m == Cardinality(before) + 1
<1>11. m \in 1..(Len(q) - MinRun + 1)
  BY <1>2, <1>5, <1>6, <1>10
<1>12. ASSUME NEW p \in m..(m + MinRun - 1) PROVE q[p] \in DOMAIN Value
  <2>1. p \in 1..Cardinality(K) /\ Cardinality(before) < p /\ p <= Cardinality(upto)
    BY <1>2, <1>5, <1>6, <1>10
  <2>2. PICK x \in K : Place(K, x) = p
    BY <1>2, <2>1
  <2>3. x \in Int /\ 1 <= x
    BY <1>8
  <2>4. i <= x
    <3> SUFFICES ASSUME x < i PROVE FALSE
      BY <2>3
    <3>1. K \cap 1..x \subseteq before
      BY <2>3 DEF before
    <3>2. Cardinality(K \cap 1..x) <= Cardinality(before)
      BY <1>5, <3>1, FS_Subset
    <3> QED
      BY <1>5, <2>1, <2>2, <3>2 DEF Place
  <2>5. x <= j
    <3> SUFFICES ASSUME j < x PROVE FALSE
      BY <2>3
    <3>1. upto \cup {x} \subseteq K \cap 1..x /\ x \notin upto
      BY <2>3 DEF upto
    <3>2. Cardinality(upto \cup {x}) = Cardinality(upto) + 1
      BY <1>5, <3>1, FS_AddElement
    <3>3. IsFiniteSet(K \cap 1..x) /\ Cardinality(K \cap 1..x) \in Nat
      BY <1>2, FS_Subset, FS_CardinalityType
    <3>4. Cardinality(upto \cup {x}) <= Cardinality(K \cap 1..x)
      BY <3>1, <3>3, FS_Subset
    <3> QED
      BY <1>5, <2>1, <2>2, <3>2, <3>3, <3>4 DEF Place
  <2>6. x \in D
    <3>1. x \in run
      BY <2>3, <2>4, <2>5 DEF run
    <3> QED
      BY <1>4, <3>1
  <2>7. p \in asciiDigits(q)
    BY <1>1, <2>2, <2>6
  <2> QED
    BY <2>7 DEF asciiDigits, At
<1> QED
  BY <1>11, <1>12 DEF LongDigitRun

\* A text that is taken further is not empty, and the filter saw its query.
Screened ==
  LET taken == at = "done" /\ reason = "none"
  IN  /\ at \in {"normalize", "filter", "bot", "stoplist", "add"} \/ taken => raw # <<>>
      /\ at \in {"bot", "stoplist", "add"} \/ taken => ~ContainsSensitiveData(query)

LEMMA ScreenedStep == Screened /\ [Next]_vars => Screened'
<1> SUFFICES ASSUME Screened, [Next]_vars PROVE Screened'
  OBVIOUS
<1> USE DEF Screened
<1>1. ASSUME NEW why, why # "none", Drop(why) PROVE Screened'
  BY <1>1 DEF Drop
<1>2. CASE Invalid
  BY <1>1, <1>2 DEF Invalid
<1>3. CASE Validate
  BY <1>3 DEF Validate, Goes, Valid, Fits
<1>4. CASE ReadSpace \/ ReadControl \/ ReadRune
  BY <1>4 DEF ReadSpace, ReadControl, ReadRune, Reads
<1>5. CASE Normalized
  BY <1>5 DEF Normalized
<1>6. CASE Filter
  BY <1>1, <1>6 DEF Filter, Passes
<1>7. CASE Bot
  BY <1>1, <1>7 DEF Bot, Passes
<1>8. CASE StopListed
  BY <1>1, <1>8 DEF StopListed
<1>9. CASE NotStopListed
  BY <1>9 DEF NotStopListed, Goes, Passes
<1>10. CASE Add
  BY <1>10 DEF Add, Drop, loopVars
<1>11. CASE UNCHANGED vars
  BY <1>11 DEF vars, loopVars
<1> QED
  BY <1>2, <1>3, <1>4, <1>5, <1>6, <1>7, <1>8, <1>9, <1>10, <1>11 DEF Next, Normalize

\* Of every text that is counted, the digits all together are no card number,
\* and no long run of them is broken by control characters only.  Numbers
\* parted by spaces or letters are not in the statement.
THEOREM CardsAndRunsAlwaysSeen == Spec => []CardsAndRunsAreSeen
<1> DEFINE IInv == Words /\ Screened
<1>1. Init => IInv
  BY InitWords DEF Init, Screened
<1>2. IInv /\ [Next]_vars => IInv'
  BY WordsStep, ScreenedStep
<1>3. IInv => CardsAndRunsAreSeen
  <2> SUFFICES ASSUME Words, Screened, at = "done", reason = "none"
               PROVE  ~luhnValid(event.text) /\ ~HiddenRun(event.text)
    BY DEF CardsAndRunsAreSeen
  <2>1. raw # <<>> /\ ~ContainsSensitiveData(query)
    BY DEF Screened
  <2>2. /\ event.text \in Seq(Rune) /\ query \in Seq(Rune)
        /\ Lists(query, Shown(event.text), event.text)
    BY <2>1, WordsListed DEF Shown
  <2>3. ~luhnValid(query) /\ ~LongDigitRun(query)
    BY <2>1 DEF ContainsSensitiveData
  <2> QED
    BY <2>2, <2>3, SameCard, RunShows
<1> HIDE DEF IInv
<1> QED
  BY <1>1, <1>2, <1>3, PTL DEF Spec
=============================================================================
