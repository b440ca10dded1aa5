---------------------------- MODULE MCDeathLink ----------------------------
(* Instance of DeathLink for TLC. *)
EXTENDS DeathLink
=============================================================================
