CONSTANTS
  Groups <- MCGroups
  RaceClasses = {"Car", "Bike"}
  MaxWorld = 2
  MaxTasks = 2
SPECIFICATION FairSpec
INVARIANTS
  TypeOK
  OnlyEarnedShown
  WantedIsShown
  OwnedByThisWorld
PROPERTIES
  OnlyGrantedStarts
  CollectiblesHiddenAgain
