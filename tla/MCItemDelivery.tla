--------------------------- MODULE MCItemDelivery ---------------------------
(* Instance of ItemDelivery for TLC. *)
EXTENDS ItemDelivery, TLC

CONSTANTS s1, c1, c2, p, q

MCSessions == {s1}
MCOneChecksum == {c1}
MCTwoChecksums == {c1, c2}
MCItems == {p, q}
MCPersistent == {p}
MCInventory == [i \in Indices |-> IF i % 2 = 0 THEN p ELSE q]
MCHookItems == {p}

\* What the client was sent, its connection and the HUD queue decide nothing.
DeliveryView ==
  <<session, active, gameplayLoaded, deliveryVars, journalVars, restoreVars,
    requestVars, deathLinks, gameVars, queueVars, loopVars, recorded>>
=============================================================================
