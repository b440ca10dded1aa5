CONSTANTS
  s1 = s1
  s2 = s2
  c1 = c1
  p = p
  q = q
  None = None
  Sessions <- MCTwoSessions
  Checksums <- MCChecksums
  Items <- MCItems
  PersistentItems <- MCPersistent
  Lists = {}
  MaxIndex = 2
  MaxSnapshots = 1
  MaxRequests = 20
  MaxNotifications = 1
  MaxDeathLinks = 1
  GameSupported = TRUE
  SaveMonitoring = TRUE
  DeathLinkOn = FALSE
  PersistOutcomes = {TRUE}
  Slot = s1
  OfferedSlots <- MCTwoSessions
  Inventory <- MCInventory
  LedgerOutcomes = {TRUE}
  SendsSuspend = FALSE
  Disturbances = {"LinkLoss"}
  MaxDisturbances = 1
SPECIFICATION LSpec
INVARIANT
  LinesAreUnderstood
