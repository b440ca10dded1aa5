CONSTANTS
  Games <- MCBurst
  GoalKeys = {"x"}
  EnabledCategories = {"cd", "tags"}
  WriteStatusFile = FALSE
  QuickReconnect = FALSE
  MaxLevel = 1
  Capacity = 2
  MaxUnread = 3
  MaxDisturbances = 1
SPECIFICATION FairSpec
INVARIANT
  ReportedOrOnItsWay
