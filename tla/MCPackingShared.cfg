\* Two batches compete for one order line; every correction keeps the line.
SPECIFICATION Spec
CONSTANTS
    b1 = b1
    b2 = b2
    l1 = l1
    l2 = l2
    c1 = c1
    c2 = c2
    a1 = a1
    a2 = a2
    Batch = {b1, b2}
    Line = {l1}
    Change = {c1, c2}
    Actor = {a1, a2}
    Linked <- SharedLinked
    Produced <- SharedProduced
    Content <- SharedContent
    MaxBoxes = 2
    MaxVersion = 5
SYMMETRY BatchPerms
CHECK_DEADLOCK FALSE
INVARIANTS
    PackedMatchesFrozen
    NeverBoxedTwice
    DispatchNeverBlocked
    ChangeAppliesOnce
