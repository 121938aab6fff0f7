----------------------------- MODULE Processor -----------------------------
(***************************************************************************)
(* ingest.Processor.ProcessAt for one event, with what it calls:           *)
(* contract.ValidateAt, the loop of normalize.Query, the privacy filter,   *)
(* the bot flag, the stop-list and the first checks of Window.AddAt.  The  *)
(* stop-list's answer and what the window makes of the event are any       *)
(* (modules StopListService and Window say which); Trends has the          *)
(* interleaving of these steps with everybody else's.                      *)
(***************************************************************************)
EXTENDS Privacy

CONSTANTS
  Rune,
  Space,       \* unicode.IsSpace
  Control,     \* unicode.IsControl
  Lower,       \* unicode.ToLower
  Blank,       \* ' '
  Text,        \* the texts events may carry
  Ahead,       \* how far occurred_at may lie ahead of now
  MaxQueryRunes,
  ContractSkew,  \* contract.MaxFutureSkew
  WindowSkew     \* WindowConfig.MaxFutureSkew

\* unicode.ToLower is idempotent, leaves digits alone and makes none.
ASSUME RuneAssumption ==
  /\ Space \subseteq Rune /\ Control \subseteq Rune /\ Blank \in Space
  /\ Lower \in [Rune -> Rune]
  /\ \A r \in Rune \ (Space \cup Control) :
       Lower[r] \notin Space \cup Control /\ Lower[Lower[r]] = Lower[r]
  /\ DOMAIN Value \subseteq Rune \ (Space \cup Control)
  /\ \A r \in Rune : r \in DOMAIN Value \/ Lower[r] \in DOMAIN Value => Lower[r] = r

ASSUME ProcessorAssumption ==
  /\ Text \subseteq Seq(Rune)
  /\ Ahead \subseteq Int
  /\ MaxQueryRunes \in Nat /\ ContractSkew \in Int /\ WindowSkew \in Int
  /\ ContractSkew <= WindowSkew  \* both are 10 seconds

VARIABLES
  event,
  at,       \* the check that comes next
  raw,      \* normalize.Query: the trimmed text,
  next,     \* the place of its next rune,
  builder,
  previousWasSpace,
  query,    \* the normal form, once there is one
  reason    \* of the answer; "none" is accepted

loopVars == <<next, builder, previousWasSpace>>
vars == <<event, at, raw, loopVars, query, reason>>

NoQuery == <<>>

Event == [text : Text, complete : BOOLEAN, ahead : Ahead, is_bot : BOOLEAN]

\* strings.TrimSpace(s) is SubSeq(s, a, b).
Trimmed(s, a, b) ==
  /\ \A k \in 1..(a - 1) \cup (b + 1)..Len(s) : s[k] \in Space
  /\ a <= b => s[a] \notin Space /\ s[b] \notin Space

Trims(s) ==
  {SubSeq(s, p[1], p[2]) :
     p \in {x \in (1..(Len(s) + 1)) \X (0..Len(s)) : x[1] <= x[2] + 1 /\ Trimmed(s, x[1], x[2])}}

Init ==
  /\ event \in Event
  /\ at = "validate"
  /\ raw = <<>> /\ next = 1 /\ builder = <<>> /\ previousWasSpace = FALSE
  /\ query = NoQuery
  /\ reason = "none"

Drop(why) ==
  /\ at' = "done" /\ reason' = why
  /\ UNCHANGED <<event, raw, loopVars, query>>

Goes(from, to) == at = from /\ at' = to

-----------------------------------------------------------------------------
(* contract.ValidateAt; complete says that the schema, the id and the time *)
(* are there.                                                              *)

Fits(text) == text # <<>> /\ Len(text) <= MaxQueryRunes

\* Fault: the time is left to the window.
ValidUntimed(text) == event.complete /\ Fits(text)

Valid(text) == event.complete /\ Fits(text) /\ event.ahead <= ContractSkew

Invalid ==
  /\ at = "validate"
  /\ \E text \in Trims(event.text) : ~Valid(text)
  /\ Drop("invalid_event")

\* The event is valid, and normalize.Query trims the text again.
Validate ==
  /\ Goes("validate", "normalize")
  /\ raw' \in Trims(event.text) /\ Valid(raw')
  /\ UNCHANGED <<event, loopVars, query, reason>>

-----------------------------------------------------------------------------
(* normalize.Query: one pass through its loop for every rune. *)

\* Fault: the place moves on twice.
ReadsTwice(r) ==
  /\ at = "normalize" /\ next <= Len(raw) /\ raw[next] = r
  /\ next' = next + 2
  /\ UNCHANGED <<event, at, raw, query, reason>>

Reads(r) ==
  /\ at = "normalize" /\ next <= Len(raw) /\ raw[next] = r
  /\ next' = next + 1
  /\ UNCHANGED <<event, at, raw, query, reason>>

ReadSpace ==
  \E r \in Space :
    /\ Reads(r)
    /\ IF builder # <<>> /\ ~previousWasSpace
       THEN builder' = Append(builder, Blank) /\ previousWasSpace' = TRUE
       ELSE UNCHANGED <<builder, previousWasSpace>>

\* Fault: a control character parts words.
ReadControlAsSpace ==
  \E r \in Control \ Space :
    /\ Reads(r)
    /\ IF builder # <<>> /\ ~previousWasSpace
       THEN builder' = Append(builder, Blank) /\ previousWasSpace' = TRUE
       ELSE UNCHANGED <<builder, previousWasSpace>>

ReadControl ==
  \E r \in Control \ Space :
    Reads(r) /\ UNCHANGED <<builder, previousWasSpace>>

\* Fault: previousWasSpace is not reset.
ReadRuneForgetful ==
  \E r \in Rune \ (Space \cup Control) :
    /\ Reads(r)
    /\ builder' = Append(builder, Lower[r])
    /\ UNCHANGED previousWasSpace

ReadRune ==
  \E r \in Rune \ (Space \cup Control) :
    /\ Reads(r)
    /\ builder' = Append(builder, Lower[r])
    /\ previousWasSpace' = FALSE

\* Fault: the last space stays.
NormalizedUntrimmed ==
  /\ at = "normalize" /\ next > Len(raw)
  /\ query' = builder
  /\ IF query' = NoQuery THEN at' = "done" /\ reason' = "empty_query" ELSE at' = "filter" /\ UNCHANGED reason
  /\ UNCHANGED <<event, raw, loopVars>>

\* All is read: what is left may be nothing.
Normalized ==
  /\ at = "normalize" /\ next > Len(raw)
  /\ query' \in Trims(builder)
  /\ IF query' = NoQuery
     THEN at' = "done" /\ reason' = "empty_query"
     ELSE at' = "filter" /\ UNCHANGED reason
  /\ UNCHANGED <<event, raw, loopVars>>

Normalize == ReadSpace \/ ReadControl \/ ReadRune \/ Normalized

-----------------------------------------------------------------------------
(* The checks that follow, in this order. *)

Passes == UNCHANGED <<event, raw, loopVars, query, reason>>

Filter ==
  /\ at = "filter"
  /\ IF ContainsSensitiveData(query)
     THEN Drop("privacy_filter")
     ELSE at' = "bot" /\ Passes

Bot ==
  /\ at = "bot"
  /\ IF event.is_bot THEN Drop("bot") ELSE at' = "stoplist" /\ Passes

StopListed == at = "stoplist" /\ Drop("stoplist")

NotStopListed == Goes("stoplist", "add") /\ Passes

\* Window.AddAt, as mapAggregatorDropReason passes it on.
WindowReason ==
  IF \A k \in DOMAIN query : query[k] \in Space THEN {"empty_query"}
  ELSE IF event.ahead > WindowSkew THEN {"from_future"}
  ELSE {"none", "too_old", "cardinality_limit", "bucket_cardinality_limit", "actor_query_limit"}

Add == at = "add" /\ \E why \in WindowReason : Drop(why)

Next ==
  \/ Invalid \/ Validate \/ Normalize
  \/ Filter \/ Bot \/ StopListed \/ NotStopListed \/ Add

Spec == Init /\ [][Next]_vars

-----------------------------------------------------------------------------
Reasons ==
  {"none", "invalid_event", "empty_query", "privacy_filter", "bot", "stoplist", "too_old",
   "from_future", "cardinality_limit", "bucket_cardinality_limit", "actor_query_limit"}

\* The variables have their types; the loop stays within the text and writes
\* no more than it has read.
TypeOK ==
  /\ event \in Event
  /\ at \in {"validate", "normalize", "filter", "bot", "stoplist", "add", "done"}
  /\ raw \in Seq(Rune) /\ builder \in Seq(Rune) /\ query \in Seq(Rune)
  /\ next \in 1..(Len(raw) + 1) /\ Len(builder) < next
  /\ previousWasSpace \in BOOLEAN
  /\ reason \in Reasons

Plain(r) == r \in Rune \ (Space \cup Control) /\ Lower[r] = r

\* Words of plain runes with one blank between two of them.
Canonical(s) ==
  \A k \in 1..Len(s) :
    \/ Plain(s[k])
    \/ s[k] = Blank /\ 1 < k /\ k < Len(s) /\ Plain(s[k - 1])

\* Whatever is typed, the key under which it is counted, looked up and shown
\* is canonical (normalize/query.go:8): equal words cannot end up under two
\* keys that look the same.
KeysAreCanonical == Canonical(query)

\* Normalising again changes nothing, as the stop-list's file, its terms and
\* its look-ups need (stoplist.go:82, store.go:51).
CanonicalIsKept == Canonical(event.text) /\ query # NoQuery => query = event.text

\* The reference of normalize.Query, without a loop: the runes of words, and
\* the first space after each word, which stays if another word follows.
Solid(s) == At(s, Rune \ (Space \cup Control))

Gap(s) ==
  {k \in At(s, Space) :
     \E i \in Solid(s) : i < k /\ \A j \in (i + 1)..(k - 1) : s[j] \in Control \ Space}

Inner(s) == {k \in Gap(s) : \E j \in Solid(s) : k < j}

\* q lists what becomes of the runes of s at the positions P.
Lists(q, P, s) ==
  /\ Len(q) = Cardinality(P)
  /\ \A k \in P : q[Place(P, k)] = IF k \in Solid(s) THEN Lower[s[k]] ELSE Blank

\* The loop computes the reference: no rune of a word is lost, none is added.
QueryIsWords ==
  at \notin {"validate", "normalize"} /\ raw # <<>> =>
    Lists(query, Solid(event.text) \cup Inner(event.text), event.text)

\* Digits in a row once the control characters are gone.
HiddenRun(s) ==
  \E i, j \in DOMAIN s :
    /\ \A k \in i..j : s[k] \in DOMAIN Value \cup (Control \ Space)
    /\ Cardinality(asciiDigits(s) \cap i..j) >= MinRun

\* The card and the run rule look at the normal form, and yet they see two
\* things of the text that was sent: the digits of all of it, whatever stands
\* between them, are no card number when it is counted, and it has no long run
\* of digits with only control characters between them, which normalisation
\* lets close up.  The rules see no more, and the property says no more: a
\* long number parted by spaces and a card beside other digits are counted,
\* unless the other rules find them (processor.go:75-90, filter.go:47-61).
CardsAndRunsAreSeen ==
  at = "done" /\ reason = "none" => ~luhnValid(event.text) /\ ~HiddenRun(event.text)

\* A card number with one digit mistyped is not taken for a card (filter.go:196).
LuhnTellsTypos ==
  luhnValid(query) =>
    \A k \in asciiDigits(query), r \in DOMAIN Value :
      Value[r] # Value[query[k]] => ~luhnValid([query EXCEPT ![k] = r])

\* The window's own checks of text and time find nothing that ValidateAt and
\* normalize.Query left: "from_future" is never the answer (README:300 lists
\* it), and "empty_query" only for texts of control characters.
WindowFindsNothing ==
  /\ reason # "from_future"
  /\ reason = "empty_query" => \A k \in DOMAIN event.text : event.text[k] \in Space \cup Control
=============================================================================
