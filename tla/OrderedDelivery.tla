-------------------------- MODULE OrderedDelivery --------------------------
(***************************************************************************)
(* What the delivery of a slot's items promises, without plugin, client or *)
(* network: the player has a world and saves; a world takes the items one  *)
(* by one, in order and each once, a save keeps what its world had, and a  *)
(* world loaded from it goes on from there.                                *)
(*                                                                         *)
(* Worlds whose saves no journal knows are untracked: nothing is promised  *)
(* for them.                                                               *)
(***************************************************************************)
EXTENDS Naturals

CONSTANTS
  Saves,  \* the save files
  Items   \* how many items the slot has, a natural number

VARIABLES
  delivered,  \* how often the loaded world has each item; Untracked
  saved       \* the same for the saves of tracked worlds

vars == <<delivered, saved>>

\* The only states of a tracked world.
FirstItems(n) == [i \in 0..(Items - 1) |-> IF i < n THEN 1 ELSE 0]
Untracked == [i \in {} |-> 0]

Extend(f, keys, value) == [x \in DOMAIN f \cup keys |-> IF x \in keys THEN value ELSE f[x]]

Init == delivered = Untracked /\ saved = [c \in {} |-> Untracked]

NewWorld == delivered' = FirstItems(0) /\ UNCHANGED saved

Deliver ==
  /\ \E n \in 0..(Items - 1) :
       delivered = FirstItems(n) /\ delivered' = FirstItems(n + 1)
  /\ UNCHANGED saved

Save(c) ==
  /\ delivered # Untracked /\ c \notin DOMAIN saved
  /\ saved' = Extend(saved, {c}, delivered)
  /\ UNCHANGED delivered

Load(c) == c \in DOMAIN saved /\ delivered' = saved[c] /\ UNCHANGED saved

LeaveWorld == delivered' = Untracked /\ UNCHANGED saved

\* The journal has the cursor of save c now: the world that was loaded from it
\* before, and saves made of that world, have what c has.
TakeUp(c) ==
  /\ c \in DOMAIN saved
  /\ delivered' = delivered \/ (delivered = Untracked /\ delivered' = saved[c])
  /\ \E later \in SUBSET (Saves \ DOMAIN saved) : saved' = Extend(saved, later, saved[c])

Next ==
  \/ NewWorld \/ Deliver \/ LeaveWorld
  \/ \E c \in Saves : Save(c) \/ Load(c) \/ TakeUp(c)

Spec == Init /\ [][Next]_vars
=============================================================================
