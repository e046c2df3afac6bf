\* A box whose consumers were all released is corrected.
SPECIFICATION Spec
CONSTANTS
    b1 = b1
    b2 = b2
    l1 = l1
    l2 = l2
    c1 = c1
    c2 = c2
    a1 = a1
    a2 = a2
    Batch = {b1, b2}
    Line = {l1, l2}
    Change = {c1}
    Actor = {a1, a2}
    Linked <- MixedLinked
    Produced <- MixedProduced
    Content <- MixedContent
    MaxBoxes = 2
    MaxVersion = 4
SYMMETRY Perms
CHECK_DEADLOCK FALSE
INVARIANT ReleasedBoxesRepackable
