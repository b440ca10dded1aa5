---------------------------- MODULE MCClientLink ----------------------------
(* Instance of ClientLink for TLC. *)
EXTENDS ClientLink, TLC

CONSTANTS s1, s2, c1, p, q

MCSessions == {s1}
MCTwoSessions == {s1, s2}
MCChecksums == {c1}
MCItems == {p, q}
MCPersistent == {p}
MCInventory == [i \in 0..(MaxIndex - 1) |-> IF i % 2 = 0 THEN p ELSE q]

\* What the plugin wrote last, the HUD and the lists decide nothing.
LinkView ==
  <<sessionVars, deliveryVars, journalVars, restoreVars, requestVars, gameplayLoaded,
    bridgeVars, taken, toClient, gameVars, disturbed>>
=============================================================================
