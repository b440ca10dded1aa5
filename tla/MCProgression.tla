---------------------------- MODULE MCProgression ----------------------------
(* Instance of Progression for TLC.  Readers share nothing but the loop and the  *)
(* link, so the games are small; the kinds of table are spread over them.  Two   *)
(* entries report more in one poll than a queue of one line holds.               *)
EXTENDS Progression

MCGames == {{<<"cd", "x">>, <<"cd", "y">>}, {<<"activity", "x">>},
            {<<"chop_shop", "x">>, <<"chop_shop", "y">>}, {<<"taxi", "levels">>}}
\* One entry more than the queue of the overflow run holds.
MCBurst == {{<<"cd", "x">>, <<"cd", "y">>, <<"tags", "z">>}}
=============================================================================
