------------------------------ MODULE SlotData ------------------------------
(***************************************************************************)
(* What the plugin and the AP client both know of the slot that is played. *)
(***************************************************************************)
EXTENDS Naturals

CONSTANTS
  Checksums,        \* checksums a city save can have
  Items,            \* item names
  PersistentItems,  \* the persistent-item policy: slot_data["persistent_items"]
  None,             \* Rust's and Python's None
  MaxIndex          \* the largest item index and cursor (u64::MAX in the plugin)

ASSUME SlotAssumption ==
  /\ PersistentItems \subseteq Items
  /\ MaxIndex \in Nat /\ MaxIndex > 0
  /\ None \notin Checksums /\ None \notin Items /\ None \notin Nat

=============================================================================
