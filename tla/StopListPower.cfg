SPECIFICATION Spec
CONSTANTS
  Text <- Texts
  NoText = NoText
  Normalize <- Normal
  Fields <- Tokens
  Admin = {a1, a2}
  NoAdmin = NoAdmin
  PowerLoss = TRUE
  MaxUpdates = 3
  MaxCrashes = 2
INVARIANT StartsAgain
CHECK_DEADLOCK FALSE
