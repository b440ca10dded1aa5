--------------------------- MODULE MCWorldUnlocks ---------------------------
(* Instance of WorldUnlocks for TLC.  Kinds read nothing of each other, so the  *)
(* groups are small; each kind of hook is in one of them.                       *)
EXTENDS WorldUnlocks

MCGroups == {{"Hitman", "Cd"}, {"ChopShop"}, {"Races"}, {"Hoing", "Taxi"}, {"StuntJumps"},
             {"Tags"}}
=============================================================================
