CONSTANTS
  s1 = s1
  s2 = s2
  c1 = c1
  l1 = l1
  p = p
  q = q
  None = None
  Sessions <- MCSessions
  Checksums <- MCChecksums
  Items <- MCItems
  PersistentItems <- MCPersistent
  Lists <- MCLists
  MaxIndex = 1
  MaxSnapshots = 1
  MaxRequests = 2
  MaxNotifications = 1
  MaxDeathLinks = 1
  GameSupported = TRUE
  SaveMonitoring = TRUE
  DeathLinkOn = TRUE
  PersistOutcomes = {TRUE, FALSE}
SPECIFICATION Spec
VIEW RuntimeView
INVARIANTS
  TypeOK
  PendingItemIsNext
  RequestMatchesRestore
  RestoreFollowsCursor
  DeathsBelongToLoadedWorld
  RevisionMatchesSnapshot
  AvailableMeansDurable
PROPERTIES
  CursorAdvancesByItems
  PolicyLatched
  JournalNeverForgets
