---------------------------- MODULE MCLooseCargo ----------------------------
(* Small instances of LooseCargoShipment for TLC. *)
EXTENDS LooseCargoShipment, TLC

Perms == Permutations(Box) \cup Permutations(Consolidation) \cup Permutations(Shipment)
             \cup Permutations(Region)

=============================================================================
