CONSTANTS
  MaxWorld = 2
  MaxEvents = 1
SPECIFICATION FairSpec
INVARIANTS
  TypeOK
  KillsAreNotSentBack
  OneReportPerLife
  DeathsStrikeTheirWorld
  KillIsNotRetried
PROPERTY
  ReceivedDeathSettles
