CONSTANTS
  s1 = s1
  s2 = s2
  c1 = c1
  p = p
  q = q
  None = None
  Sessions <- MCSessions
  Checksums <- MCChecksums
  Items <- MCItems
  PersistentItems <- MCPersistent
  Lists = {}
  MaxIndex = 1
  MaxSnapshots = 1
  MaxRequests = 20
  MaxNotifications = 1
  MaxDeathLinks = 1
  GameSupported = TRUE
  SaveMonitoring = TRUE
  DeathLinkOn = FALSE
  PersistOutcomes = {TRUE}
  Slot = s1
  OfferedSlots <- MCSessions
  Inventory <- MCInventory
  LedgerOutcomes = {TRUE, FALSE}
  SendsSuspend = TRUE
  Disturbances = {"Load", "Quit", "Save", "LinkLoss", "ServerLoss", "LateAck", "Refusal"}
  MaxDisturbances = 2
SPECIFICATION LSpec
VIEW LinkView
INVARIANTS
  NeverPastCursor
  StoresAgree
