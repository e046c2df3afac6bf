---------------------------- MODULE MCSyncEngine ----------------------------
(* Small instances of SyncEngine for TLC. *)
EXTENDS SyncEngine, TLC

CONSTANTS w1, w2, d1, d2, m1

Perms == Permutations(Worker) \cup Permutations(Occurrence)

=============================================================================
