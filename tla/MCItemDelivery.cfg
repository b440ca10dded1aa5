CONSTANTS
  s1 = s1
  c1 = c1
  c2 = c2
  p = p
  q = q
  None = None
  Sessions <- MCSessions
  Checksums <- MCOneChecksum
  Items <- MCItems
  PersistentItems <- MCPersistent
  Lists = {}
  MaxIndex = 2
  MaxSnapshots = 2
  MaxRequests = 4
  MaxNotifications = 1
  MaxDeathLinks = 1
  GameSupported = TRUE
  SaveMonitoring = TRUE
  DeathLinkOn = FALSE
  PersistOutcomes = {TRUE}
  Slot = s1
  Inventory <- MCInventory
  HookItems <- MCHookItems
  MaxEpoch = 2
SPECIFICATION DSpec
VIEW DeliveryView
INVARIANTS
  CursorCountsApplied
  HeldMatchesWorld
PROPERTY
  DeliversInOrder
