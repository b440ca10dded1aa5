CONSTANTS
  Configurations <- MCConfigurations
  WeatherStage <- MCWeatherStage
  LuaItems = {"Pass", "Phone"}
  Unlocks = {"Outfit"}
  NativeRoom = 1
  MaxFrames = 1
  MaxBars = 3
  MaxWorld = 2
  MaxRequests = 2
  MaxRewards = 1
SPECIFICATION FairSpec
INVARIANTS
  TypeOK
  TruthfulCompletions
  AllowancesArePaidFor
  LuaUnlocksSurvive
  RespectIsEarned
  NoTaskOutlivesItsHandler
PROPERTIES
  EveryRequestCompletes
  WeatherIsReleased
