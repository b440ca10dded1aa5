--------------------------- MODULE MCItemHandlers ---------------------------
(* Instance of ItemHandlers for TLC.  Handlers read nothing of each other; each   *)
(* configuration has the handlers that share the game's state, or one of each     *)
(* kind of answer.                                                                *)
EXTENDS ItemHandlers

MCConfigurations ==
  {{"Unlockable"}, {"Weather", "Money"}, {"Lua"}, {"Respect"}, {"Cheat", "Weapon"}}
MCWeatherStage == [item \in {"HeavyRain", "Fog"} |-> IF item = "Fog" THEN "Foggy" ELSE "Rain"]
=============================================================================
