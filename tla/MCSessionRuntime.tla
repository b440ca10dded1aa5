-------------------------- MODULE MCSessionRuntime --------------------------
(* Instance of SessionRuntime for TLC: two sessions that exclude each other, one *)
(* save, one item of two that the game does not keep.                            *)
EXTENDS SessionRuntime

CONSTANTS s1, s2, c1, l1, p, q

MCSessions == {s1, s2}
MCChecksums == {c1}
MCLists == {l1}
MCItems == {p, q}
MCPersistent == {p}

\* The lines of the last action, the HUD and the link flag decide nothing.
RuntimeView ==
  <<session, active, gameplayLoaded, deliveryVars, journalVars, restoreVars,
    requestVars, deathLinks, staleDeath, openedLists>>
=============================================================================
