SPECIFICATION APISpec
CONSTANTS
  Text <- Texts
  NoText = NoText
  Normalize <- Normal
  Fields <- Tokens
  Admin = {a1, a2}
  NoAdmin = NoAdmin
  PowerLoss = FALSE
  MaxUpdates = 3
  MaxCrashes = 1
  right = right
  wrong = wrong
  blank = blank
  basic = basic
  Header = {right, wrong, basic, NoHeader}
  NoHeader = NoHeader
  Bearer <- Bearers
  NotBearer = NotBearer
  Token = {right, blank}
  Blank = {blank}
INVARIANTS PublishedIsSaved SettledHolds
PROPERTIES AtomicFile Answered TellsTheTruth
CHECK_DEADLOCK FALSE
