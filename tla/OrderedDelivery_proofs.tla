----------------------- MODULE OrderedDelivery_proofs -----------------------
(***************************************************************************)
(* What OrderedDelivery promises, for any number of saves and items: a     *)
(* tracked world, and each save of one, always has the first items of the  *)
(* slot, each once.  ItemDelivery_proofs carries it over to the player's   *)
(* worlds.                                                                 *)
(***************************************************************************)
EXTENDS OrderedDelivery, TLAPS

TrackedWorlds == {FirstItems(n) : n \in 0..Items}

Prefixes ==
  /\ delivered \in TrackedWorlds \cup {Untracked}
  /\ DOMAIN saved \subseteq Saves
  /\ \A c \in DOMAIN saved : saved[c] \in TrackedWorlds

\* A tracked world has the first items and nothing else, and so has each of its saves.
FirstItemsOnly ==
  /\ delivered = Untracked \/ \E n \in 0..Items : delivered = FirstItems(n)
  /\ \A c \in DOMAIN saved : \E n \in 0..Items : saved[c] = FirstItems(n)

\* Extending a function keeps what its values have in common.
LEMMA ExtendLemma ==
  ASSUME NEW f, NEW keys, NEW value, NEW T,
         \A x \in DOMAIN f : f[x] \in T, value \in T
  PROVE  \A x \in DOMAIN Extend(f, keys, value) : Extend(f, keys, value)[x] \in T
  BY DEF Extend

\* The initial world is untracked, and no save is known.
LEMMA InitPrefixes == Init => Prefixes
  BY DEF Init, Prefixes

\* No step leaves the first items: items come one by one, saves keep what they
\* have, and a load or a late record takes up what a save has.
LEMMA StepPrefixes ==
  ASSUME Items \in Nat
  PROVE  Prefixes /\ [Next]_vars => Prefixes'
<1> SUFFICES ASSUME Prefixes, [Next]_vars PROVE Prefixes'
  OBVIOUS
<1>0. /\ delivered \in TrackedWorlds \cup {Untracked}
      /\ DOMAIN saved \subseteq Saves
      /\ \A c \in DOMAIN saved : saved[c] \in TrackedWorlds
  BY DEF Prefixes
<1>1. CASE NewWorld
  <2>1. FirstItems(0) \in TrackedWorlds
    BY DEF TrackedWorlds
  <2> QED BY <1>0, <1>1, <2>1 DEF NewWorld, Prefixes
<1>2. CASE Deliver
  <2>1. PICK n \in 0..(Items - 1) : delivered' = FirstItems(n + 1)
    BY <1>2 DEF Deliver
  <2>2. n + 1 \in 0..Items
    BY <2>1
  <2>3. FirstItems(n + 1) \in TrackedWorlds
    BY <2>2 DEF TrackedWorlds
  <2> QED BY <1>0, <1>2, <2>1, <2>3 DEF Deliver, Prefixes
<1>3. CASE LeaveWorld
  BY <1>0, <1>3 DEF LeaveWorld, Prefixes
<1>4. ASSUME NEW c \in Saves, Save(c) PROVE Prefixes'
  <2>1. saved' = Extend(saved, {c}, delivered) /\ delivered' = delivered
    BY <1>4 DEF Save
  <2>2. delivered \in TrackedWorlds
    BY <1>0, <1>4 DEF Save
  <2>3. \A x \in DOMAIN saved' : saved'[x] \in TrackedWorlds
    BY <1>0, <2>1, <2>2, ExtendLemma
  <2>4. DOMAIN saved' \subseteq Saves
    BY <1>0, <2>1 DEF Extend
  <2> QED BY <1>0, <2>1, <2>3, <2>4 DEF Prefixes, TrackedWorlds, FirstItems, Untracked
<1>5. ASSUME NEW c \in Saves, Load(c) PROVE Prefixes'
  BY <1>0, <1>5 DEF Load, Prefixes
<1>6. ASSUME NEW c \in Saves, TakeUp(c) PROVE Prefixes'
  <2>1. saved[c] \in TrackedWorlds
    BY <1>0, <1>6 DEF TakeUp
  <2>2. delivered' \in TrackedWorlds \cup {Untracked}
    BY <1>0, <1>6, <2>1 DEF TakeUp
  <2>3. PICK later \in SUBSET (Saves \ DOMAIN saved) : saved' = Extend(saved, later, saved[c])
    BY <1>6 DEF TakeUp
  <2>4. \A x \in DOMAIN saved' : saved'[x] \in TrackedWorlds
    BY <1>0, <2>1, <2>3, ExtendLemma
  <2>5. DOMAIN saved' \subseteq Saves
    BY <1>0, <2>3 DEF Extend
  <2> QED BY <2>2, <2>4, <2>5 DEF Prefixes, TrackedWorlds, FirstItems, Untracked
<1>7. CASE UNCHANGED vars
  BY <1>0, <1>7 DEF vars, Prefixes, TrackedWorlds, FirstItems, Untracked
<1> QED BY <1>1, <1>2, <1>3, <1>4, <1>5, <1>6, <1>7 DEF Next

\* Whatever is loaded, saved or left in between, a tracked world and its saves have the
\* first items of the slot, each once: none twice, none before its predecessors.
THEOREM TrackedWorldsHavePrefixes ==
  ASSUME Items \in Nat
  PROVE  Spec => []FirstItemsOnly
<1>1. Init => Prefixes
  BY InitPrefixes
<1>2. Prefixes /\ [Next]_vars => Prefixes'
  BY StepPrefixes
<1>3. Prefixes => FirstItemsOnly
  BY DEF Prefixes, TrackedWorlds, FirstItemsOnly
<1> QED BY <1>1, <1>2, <1>3, PTL DEF Spec
=============================================================================
