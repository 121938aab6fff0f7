SPECIFICATION Spec
CONSTANTS
  Text <- Texts
  NoText = NoText
  Normalize <- Normal
  Fields <- Tokens
  Query = {2, 3, 4}
  Worker = {kafka}
  ShardCount = 2
  ShardOf <- Shards
  Limit = 1
  SavedTerm = {3}
  AdminTerm = {3}
  MaxCount = 1
INVARIANT TypeOK
PROPERTIES
  BlockedIsHidden
  MergeIsTop
  QuietBuildIsExact
  BlockedVanishes
  StopsWhenCancelled
  Converges
