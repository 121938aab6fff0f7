----------------------------- MODULE StopTerms -----------------------------
(***************************************************************************)
(* stoplist.StopList: which texts a set of stop-list terms matches.  A     *)
(* text is an opaque value; Normalize and Fields say what normalize.Query  *)
(* and strings.Fields make of it.                                          *)
(***************************************************************************)
CONSTANTS
  Text,       \* texts as administrators and users send them
  NoText,     \* normalize.Query's "not ok": nothing is left of the text
  Normalize,  \* Normalize[t]: the normal form of a text, or NoText
  Fields      \* Fields[t]: the tokens of a normal form

\* Code all over relies on the first part: Add, Save, Load, Replace and
\* Contains each normalise again what another has normalised before.
ASSUME TextAssumption ==
  /\ NoText \notin Text
  /\ Normalize \in [Text -> Text \cup {NoText}]
  /\ \A t \in Text : Normalize[t] # NoText => Normalize[Normalize[t]] = Normalize[t]
  /\ Fields \in [Text -> SUBSET Text]

Term == {Normalize[t] : t \in Text} \ {NoText}

\* The normal forms of a set of texts: the loops of Load, Save and
\* buildSnapshot, which skip what is empty and keep one of each.
Normalized(texts) == {Normalize[t] : t \in texts} \ {NoText}

\* buildSnapshot: every term matches itself, and a term of one token every
\* text with that token.
buildSnapshot(texts) ==
  LET terms == Normalized(texts) IN
  [Exact  |-> terms,
   Tokens |-> UNION {Fields[t] : t \in {s \in terms : \E w \in Text : Fields[s] = {w}}}]

ContainsNormalized(snapshot, term) ==
  term \in snapshot.Exact \/ Fields[term] \cap snapshot.Tokens # {}

Contains(snapshot, text) ==
  Normalize[text] # NoText /\ ContainsNormalized(snapshot, Normalize[text])
=============================================================================
