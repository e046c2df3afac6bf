------------------------ MODULE MCPackingFulfillment ------------------------
(* Small instances of PackingFulfillment for TLC. *)
EXTENDS PackingFulfillment, TLC

CONSTANTS b1, b2, l1, l2, c1, c2, a1, a2

\* One batch packs both lines, the others share the first with it.
MixedLinked == [b \in Batch |-> IF b = b2 THEN Line ELSE {l1}]

SharedLinked == [b \in Batch |-> Line]

MixedProduced == [l \in Line |-> 2]

\* One unit of either line, or one of each.
MixedContent == {k \in [Line -> 0..1] : \E l \in Line : k[l] > 0}

\* One line only: one or two units.
SharedContent == {k \in [Line -> 0..2] : \E l \in Line : k[l] > 0}

SharedProduced == [l \in Line |-> 2]

Perms == Permutations(Actor) \cup Permutations(Change)
BatchPerms == Perms \cup Permutations(Batch)

=============================================================================
