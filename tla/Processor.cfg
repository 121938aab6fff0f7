SPECIFICATION Spec
CONSTANTS
  Rune <- Runes
  Space = {"_", "tab"}
  Control = {"tab", "nul"}
  Lower <- ToLower
  Blank = "_"
  Text <- Texts
  Ahead = {0, 2}
  MaxQueryRunes = 5
  ContractSkew = 1
  WindowSkew = 1
  Digit = {"0", "5"}
  Value <- Values
  Letter = {"A", "a"}
  PhoneRune = {"_", "tab", "0", "5", "+"}
  Email <- Emails
  Marker <- Markers
  MinRun = 2
  MinCard = 2
  MaxCard = 4
  MinPhone = 3
  MaxPhone = 4
  MinRatio = 3
INVARIANTS
  TypeOK
  KeysAreCanonical
  CanonicalIsKept
  QueryIsWords
  CardsAndRunsAreSeen
  LuhnTellsTypos
  WindowFindsNothing
\* An event that is answered stays so.
CHECK_DEADLOCK FALSE
