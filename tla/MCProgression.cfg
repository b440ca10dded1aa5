CONSTANTS
  Games <- MCGames
  GoalKeys = {"x"}
  EnabledCategories = {"cd", "activity", "chop_shop", "taxi"}
  WriteStatusFile = FALSE
  QuickReconnect = TRUE
  MaxLevel = 2
  Capacity = 1
  MaxUnread = 1
  MaxDisturbances = 2
SPECIFICATION FairSpec
INVARIANTS
  TypeOK
  NoCheckWithoutDeed
  HiddenOnlyWhenLost
PROPERTIES
  EverythingIsReported
