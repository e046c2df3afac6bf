---------------------------- MODULE PackingProofs ----------------------------
(***************************************************************************)
(* What holds of PackingFulfillment for every number of batches, lines,    *)
(* boxes and changes.                                                      *)
(***************************************************************************)
EXTENDS PackingFulfillment, QuantitySumsProofs, WellFoundedInduction

Rows == {NoAllocation} \cup
    [state : {"RESERVED", "FROZEN", "RELEASED", "REVERSED"}, quantity : Nat \ {0}]

Statuses == {"NONE", "DRAFT", "IN_PROGRESS", "COMPLETED", "CANCELLED"}

OpenStatuses == {"DRAFT", "IN_PROGRESS"}

\* Boxes of one batch, by number.
BoxSet(bx) == DOMAIN bx \subseteq 1..MaxBoxes /\ \A n \in DOMAIN bx : bx[n] \in BoxRecord

AllUnused(bx) == \A n \in DOMAIN bx : bx[n].slot = "UNUSED"

\* What one allocation row holds in a state.
HeldIn(row, st) == IF row.state = st THEN row.quantity ELSE 0

\* A batch that does not exist yet has nothing; a batch that exists has a version.
Started ==
    \A b \in Batch :
        /\ status[b] = "NONE" =>
              /\ version[b] = 0 /\ DOMAIN boxes[b] = {}
              /\ \A l \in Line : alloc[b][l] = NoAllocation
        /\ status[b] # "NONE" => version[b] >= 1

\* Only the boxes of a completed batch were ever handed to a consumer.
ConsumedAreCompleted ==
    \A b \in Batch : \A n \in DOMAIN boxes[b] :
        boxes[b][n].slot # "UNUSED" => status[b] = "COMPLETED"

Inv == TypeOK /\ Started /\ ConsumedAreCompleted /\ AllocationsMatchBoxes

-----------------------------------------------------------------------------
(* Quantities. *)

LEMMA HeldTyped ==
    ASSUME NEW row \in Rows, NEW st \in {"RESERVED", "FROZEN"}
    PROVE  HeldIn(row, st) \in Nat
BY DEF Rows, HeldIn, NoAllocation

LEMMA HeldIsHeldIn ==
    ASSUME NEW b, NEW l, NEW st
    PROVE  /\ Held(b, l, st) = HeldIn(alloc[b][l], st)
           /\ Held(b, l, st)' = HeldIn(alloc'[b][l], st)
BY DEF Held, HeldIn

LEMMA ContentTyped == ASSUME NEW k \in Content, NEW l \in Line PROVE k[l] \in Nat
BY PackingAssumption

LEMMA TotalTyped ==
    ASSUME NEW bx, BoxSet(bx), NEW l \in Line
    PROVE  Total(bx, l) \in Nat
<1> DEFINE q == [n \in DOMAIN bx |-> bx[n].content[l]]
<1>1. \A n \in DOMAIN bx : q[n] \in Nat
  BY ContentTyped DEF BoxSet, BoxRecord
<1>2. IsFiniteSet(DOMAIN bx)
  <2>1. IsFiniteSet(1..MaxBoxes) /\ DOMAIN bx \in SUBSET (1..MaxBoxes)
    BY PackingAssumption, FS_Interval DEF BoxSet
  <2> QED
    BY <2>1, FS_Subset, Zenon
<1>3. Summable(q, DOMAIN q)
  BY <1>1, <1>2 DEF Summable
<1> HIDE DEF q
<1>4. SumOver(q, DOMAIN q) \in Nat
  BY <1>3, SumType
<1> QED
  BY <1>4 DEF Total, Sum, q

LEMMA LayoutTotalTyped ==
    ASSUME NEW y \in Layout, NEW l \in Line
    PROVE  LayoutTotal(y, l) \in Nat
<1> DEFINE q == [n \in DOMAIN y |-> y[n][l]]
<1>1. PICK m \in 1..MaxBoxes : y \in [1..m -> Content]
  BY DEF Layout
<1>2. \A n \in DOMAIN y : q[n] \in Nat
  BY <1>1, ContentTyped
<1>3. IsFiniteSet(DOMAIN y)
  BY <1>1, PackingAssumption, FS_Interval
<1>4. Summable(q, DOMAIN q)
  BY <1>2, <1>3 DEF Summable
<1> HIDE DEF q
<1>5. SumOver(q, DOMAIN q) \in Nat
  BY <1>4, SumType
<1> QED
  BY <1>5 DEF LayoutTotal, Sum, q

\* The total depends on what is in the boxes only.
LEMMA TotalSame ==
    ASSUME NEW bx, NEW cx, NEW l, DOMAIN bx = DOMAIN cx,
           \A n \in DOMAIN bx : bx[n].content = cx[n].content
    PROVE  Total(bx, l) = Total(cx, l)
<1>1. [n \in DOMAIN bx |-> bx[n].content[l]] = [n \in DOMAIN cx |-> cx[n].content[l]]
  OBVIOUS
<1> QED
  BY <1>1 DEF Total

LEMMA TotalOfNone ==
    ASSUME NEW bx, NEW l, DOMAIN bx = {}
    PROVE  Total(bx, l) = 0
<1>1. DOMAIN [n \in DOMAIN bx |-> bx[n].content[l]] = {}
  OBVIOUS
<1> QED
  BY <1>1, SumEmpty DEF Total, Sum

\* The boxes that replace a layout hold what the layout says.
LEMMA TotalOfLayout ==
    ASSUME NEW y, NEW l,
           NEW bx, bx = [n \in DOMAIN y |-> [content |-> y[n], slot |-> "UNUSED"]]
    PROVE  Total(bx, l) = LayoutTotal(y, l)
<1>1. [n \in DOMAIN bx |-> bx[n].content[l]] = [n \in DOMAIN y |-> y[n][l]]
  OBVIOUS
<1> QED
  BY <1>1 DEF Total, LayoutTotal

\* Among numbers of boxes there is a largest one.
LEMMA LargestNumber ==
    ASSUME NEW D, NEW m \in Nat, D \subseteq 1..m
    PROVE  \E x \in 0..m : x \in D \cup {0} /\ \A n \in D : n <= x
<1> DEFINE above == {x \in 0..m : \A n \in D : n <= x}
<1>1. above \subseteq Nat /\ m \in above
  OBVIOUS
<1>2. PICK x \in above : \A y \in above : ~(<<y, x>> \in OpToRel(<, Nat))
  <2>1. above # {}
    BY <1>1
  <2> QED
    BY <1>1, <2>1, NatLessThanWellFounded, WFMin, Zenon
<1>3. \A y \in above : ~(y < x)
  BY <1>1, <1>2 DEF OpToRel
<1>4. CASE x = 0
  BY <1>1, <1>4
<1>5. CASE x # 0
  <2>1. x - 1 \in 0..m /\ x - 1 \notin above
    BY <1>1, <1>3, <1>5
  <2>2. PICK n \in D : ~(n <= x - 1)
    BY <2>1
  <2> QED
    BY <2>1, <2>2
<1> QED
  BY <1>4, <1>5

LEMMA NextSequenceFree ==
    ASSUME NEW b, BoxSet(boxes[b])
    PROVE  NextSequence(b) \in Nat \ {0} /\ NextSequence(b) \notin DOMAIN boxes[b]
<1> DEFINE Last(m) == m \in DOMAIN boxes[b] \cup {0} /\ \A n \in DOMAIN boxes[b] : n <= m
           m0 == CHOOSE m \in 0..MaxBoxes : Last(m)
<1>1. \E m \in 0..MaxBoxes : Last(m)
  BY LargestNumber, PackingAssumption DEF BoxSet
<1>2. m0 \in 0..MaxBoxes /\ Last(m0)
  BY <1>1
<1>3. NextSequence(b) = 1 + m0
  BY DEF NextSequence
<1> HIDE DEF m0
<1> QED
  BY <1>2, <1>3, PackingAssumption DEF BoxSet

\* One batch changes what it holds, and the sum over the batches by as much.
LEMMA HeldByAllChange ==
    ASSUME NEW f \in [Batch -> Nat], NEW g \in [Batch -> Nat], NEW b \in Batch,
           \A d \in Batch : d # b => g[d] = f[d]
    PROVE  Sum(f) \in Nat /\ Sum(g) \in Nat /\ Sum(g) = Sum(f) - f[b] + g[b]
<1>1. Summable(f, Batch) /\ Summable(g, Batch)
  BY PackingAssumption DEF Summable
<1>2. Sum(f) = SumOver(f, Batch) /\ Sum(g) = SumOver(g, Batch)
  BY DEF Sum
<1>3. SumOver(g, Batch) = SumOver(f, Batch) - f[b] + g[b]
  BY <1>1, SumChange
<1> QED
  BY <1>1, <1>2, <1>3, SumType

-----------------------------------------------------------------------------
(* What the steps do. *)

\* A step changes one batch at most.
OnlyBatch(b) ==
    /\ status' \in [Batch -> Statuses]
    /\ version' \in [Batch -> 0..MaxVersion]
    /\ version'[b] >= 1 /\ version'[b] >= version[b]
    /\ DOMAIN boxes' = Batch
    /\ alloc' \in [Batch -> [Line -> Rows]]
    /\ \A d \in Batch : d # b =>
          /\ status'[d] = status[d] /\ version'[d] = version[d]
          /\ boxes'[d] = boxes[d] /\ alloc'[d] = alloc[d]

\* A box is added to an open batch, replaced in it or taken out of it: what the
\* batch has reserved follows its boxes, and the line's counter by as much.
Refilled(b) ==
    /\ OnlyBatch(b)
    /\ version'[b] > version[b]
    /\ status[b] \in OpenStatuses /\ status'[b] \in OpenStatuses
    /\ BoxSet(boxes'[b]) /\ AllUnused(boxes'[b])
    /\ reserved' \in [Line -> Nat]
    /\ \A l \in Line :
          /\ Held(b, l, "RESERVED")' = Total(boxes'[b], l)
          /\ Held(b, l, "FROZEN")' = 0
          /\ reserved'[l] = reserved[l] + Total(boxes'[b], l) - Held(b, l, "RESERVED")
          /\ reserved'[l] > reserved[l] => reserved'[l] + packed[l] <= Produced[l]
    /\ UNCHANGED <<packed, shipped, change>>

\* The refreshed row of a line holds the total of the boxes.
LEMMA RefreshedRow ==
    ASSUME TypeOK, NEW b \in Batch, NEW bx, BoxSet(bx), NEW l \in Line,
           Held(b, l, "FROZEN") = 0
    PROVE  /\ RefreshedAllocation(b, bx)[l] \in Rows
           /\ HeldIn(RefreshedAllocation(b, bx)[l], "RESERVED") = Total(bx, l)
           /\ HeldIn(RefreshedAllocation(b, bx)[l], "FROZEN") = 0
<1>1. alloc[b][l] \in Rows
  BY DEF TypeOK, Rows
<1>2. Total(bx, l) \in Nat
  BY TotalTyped
<1>3. HeldIn(alloc[b][l], "FROZEN") = 0
  BY HeldIsHeldIn
<1>4. CASE Total(bx, l) > 0
  <2>1. RefreshedAllocation(b, bx)[l] = [state |-> "RESERVED", quantity |-> Total(bx, l)]
    BY <1>4 DEF RefreshedAllocation
  <2> QED
    BY <1>2, <1>4, <2>1 DEF HeldIn, Rows
<1>5. CASE Total(bx, l) = 0 /\ alloc[b][l].state = "RESERVED"
  <2>1. RefreshedAllocation(b, bx)[l] = NoAllocation
    BY <1>5 DEF RefreshedAllocation
  <2> QED
    BY <1>5, <2>1 DEF HeldIn, Rows, NoAllocation
<1>6. CASE Total(bx, l) = 0 /\ alloc[b][l].state # "RESERVED"
  <2>1. RefreshedAllocation(b, bx)[l] = alloc[b][l]
    BY <1>6 DEF RefreshedAllocation
  <2> QED
    BY <1>1, <1>3, <1>6, <2>1 DEF HeldIn
<1> QED
  BY <1>2, <1>4, <1>5, <1>6

\* What the lines have reserved after a refresh, by the accepted differences.
LEMMA RefreshedLine ==
    ASSUME TypeOK, NEW b \in Batch, NEW bx, BoxSet(bx), NEW l \in Line,
           RefreshAccepted(b, bx)
    PROVE  /\ RefreshedReserved(b, bx)[l] \in Nat
           /\ RefreshedReserved(b, bx)[l] = reserved[l] + Total(bx, l) - Held(b, l, "RESERVED")
           /\ RefreshedReserved(b, bx)[l] > reserved[l] =>
                  RefreshedReserved(b, bx)[l] + packed[l] <= Produced[l]
<1>1. alloc[b][l] \in Rows /\ reserved[l] \in Nat
  BY DEF TypeOK, Rows
<1>2. Total(bx, l) \in Nat /\ Held(b, l, "RESERVED") \in Nat
  BY <1>1, TotalTyped, HeldTyped, HeldIsHeldIn
<1>3. RefreshedReserved(b, bx)[l] = reserved[l] + Total(bx, l) - Held(b, l, "RESERVED")
  BY DEF RefreshedReserved
<1>4. /\ RefreshedReserved(b, bx)[l] >= 0
      /\ Total(bx, l) \notin {0, Held(b, l, "RESERVED")} =>
             RefreshedReserved(b, bx)[l] + packed[l] <= Produced[l]
  BY DEF RefreshAccepted
<1> QED
  BY <1>1, <1>2, <1>3, <1>4

LEMMA RefillStep ==
    ASSUME Inv, NEW b \in Batch, NEW bx, BoxSet(bx), AllUnused(bx),
           status[b] \in OpenStatuses,
           NEW s \in OpenStatuses, status' = [status EXCEPT ![b] = s],
           boxes' = [boxes EXCEPT ![b] = bx],
           RefreshReservations(b, bx), BumpVersion(b),
           UNCHANGED <<packed, shipped, change>>
    PROVE  Refilled(b)
<1>0. TypeOK
  BY DEF Inv
<1>1. \A l \in Line : Held(b, l, "FROZEN") = 0
  BY DEF Inv, AllocationsMatchBoxes, OpenStatuses
<1>2. /\ status' \in [Batch -> Statuses] /\ status'[b] = s
      /\ \A d \in Batch : d # b => status'[d] = status[d]
  BY <1>0 DEF TypeOK, Statuses, OpenStatuses
<1>3. /\ version' \in [Batch -> 0..MaxVersion] /\ version'[b] = version[b] + 1
      /\ version[b] \in Nat
      /\ \A d \in Batch : d # b => version'[d] = version[d]
  BY <1>0, PackingAssumption DEF TypeOK, BumpVersion
<1>4. /\ DOMAIN boxes' = Batch /\ boxes'[b] = bx
      /\ \A d \in Batch : d # b => boxes'[d] = boxes[d]
  BY <1>0 DEF TypeOK
<1>5. RefreshedAllocation(b, bx) \in [Line -> Rows]
  <2>1. \A l \in Line : RefreshedAllocation(b, bx)[l] \in Rows
    BY <1>0, <1>1, RefreshedRow
  <2>2. RefreshedAllocation(b, bx) = [l \in Line |-> RefreshedAllocation(b, bx)[l]]
    BY DEF RefreshedAllocation
  <2> QED
    BY <2>1, <2>2
<1>6. /\ alloc' \in [Batch -> [Line -> Rows]] /\ alloc'[b] = RefreshedAllocation(b, bx)
      /\ \A d \in Batch : d # b => alloc'[d] = alloc[d]
  BY <1>0, <1>5 DEF TypeOK, RefreshReservations, Rows
<1>7. \A l \in Line : Held(b, l, "RESERVED")' = Total(bx, l) /\ Held(b, l, "FROZEN")' = 0
  BY <1>0, <1>1, <1>6, RefreshedRow, HeldIsHeldIn
<1>8. reserved' = RefreshedReserved(b, bx) /\ RefreshAccepted(b, bx)
  BY DEF RefreshReservations
<1>9. reserved' \in [Line -> Nat]
  <2>1. \A l \in Line : RefreshedReserved(b, bx)[l] \in Nat
    BY <1>0, <1>8, RefreshedLine
  <2>2. RefreshedReserved(b, bx) = [l \in Line |-> RefreshedReserved(b, bx)[l]]
    BY DEF RefreshedReserved
  <2> QED
    BY <1>8, <2>1, <2>2
<1>10. OnlyBatch(b)
  BY <1>2, <1>3, <1>4, <1>6 DEF OnlyBatch
<1> QED
  BY <1>0, <1>2, <1>3, <1>4, <1>7, <1>8, <1>9, <1>10, RefreshedLine DEF Refilled

LEMMA NewBox ==
    ASSUME NEW k \in Content
    PROVE  /\ [content |-> k, slot |-> "UNUSED"] \in BoxRecord
           /\ [content |-> k, slot |-> "UNUSED"].slot = "UNUSED"
BY DEF BoxRecord

\* The boxes of an open batch.
LEMMA OpenBoxes ==
    ASSUME Inv, NEW b \in Batch, status[b] \in OpenStatuses
    PROVE  BoxSet(boxes[b]) /\ AllUnused(boxes[b])
BY DEF Inv, TypeOK, BoxSet, AllUnused, ConsumedAreCompleted, OpenStatuses

LEMMA AddBoxRefills ==
    ASSUME Inv, NEW b \in Batch, NEW k \in Content, AddBox(b, k) PROVE Refilled(b)
<1> DEFINE new == [content |-> k, slot |-> "UNUSED"]
           bx == [n \in DOMAIN boxes[b] \cup {NextSequence(b)} |->
                     IF n \in DOMAIN boxes[b] THEN boxes[b][n] ELSE new]
<1>1. status[b] \in OpenStatuses /\ BoxSet(boxes[b]) /\ AllUnused(boxes[b])
  BY OpenBoxes DEF AddBox, OpenStatuses
<1>2. NextSequence(b) \in 1..MaxBoxes
  BY <1>1, NextSequenceFree, PackingAssumption DEF AddBox
<1>3. BoxSet(bx) /\ AllUnused(bx)
  BY <1>1, <1>2, NewBox DEF BoxSet, AllUnused
<1>4. /\ boxes' = [boxes EXCEPT ![b] = bx] /\ RefreshReservations(b, bx)
      /\ status' = [status EXCEPT ![b] = "IN_PROGRESS"] /\ BumpVersion(b)
      /\ UNCHANGED <<packed, shipped, change>>
  BY DEF AddBox
<1> HIDE DEF bx
<1> QED
  BY <1>1, <1>3, <1>4, RefillStep DEF OpenStatuses

LEMMA ReplaceBoxRefills ==
    ASSUME Inv, NEW b \in Batch, NEW n \in 1..MaxBoxes, NEW k \in Content, ReplaceBox(b, n, k)
    PROVE  Refilled(b)
<1> DEFINE bx == [boxes[b] EXCEPT ![n].content = k]
<1>1. status[b] \in OpenStatuses /\ BoxSet(boxes[b]) /\ AllUnused(boxes[b])
  BY OpenBoxes DEF ReplaceBox, OpenStatuses
<1>2. BoxSet(bx) /\ AllUnused(bx)
  <2>1. DOMAIN bx = DOMAIN boxes[b]
    OBVIOUS
  <2>2. \A m \in DOMAIN bx : bx[m] \in BoxRecord /\ bx[m].slot = "UNUSED"
    <3> SUFFICES ASSUME NEW m \in DOMAIN boxes[b]
                 PROVE  bx[m] \in BoxRecord /\ bx[m].slot = "UNUSED"
      OBVIOUS
    <3>1. boxes[b][m] \in BoxRecord /\ boxes[b][m].slot = "UNUSED"
      BY <1>1 DEF BoxSet, AllUnused
    <3>2. CASE m = n
      BY <3>1, <3>2 DEF BoxRecord
    <3>3. CASE m # n
      BY <3>1, <3>3
    <3> QED
      BY <3>2, <3>3
  <2> QED
    BY <1>1, <2>1, <2>2 DEF BoxSet, AllUnused
<1>3. status' = [status EXCEPT ![b] = status[b]]
  BY DEF ReplaceBox, Inv, TypeOK
<1>4. /\ boxes' = [boxes EXCEPT ![b] = bx] /\ RefreshReservations(b, bx)
      /\ BumpVersion(b) /\ UNCHANGED <<packed, shipped, change>>
  BY DEF ReplaceBox
<1> HIDE DEF bx
<1> QED
  BY <1>1, <1>2, <1>3, <1>4, RefillStep

LEMMA RemoveBoxRefills ==
    ASSUME Inv, NEW b \in Batch, NEW n \in 1..MaxBoxes, RemoveBox(b, n) PROVE Refilled(b)
<1> DEFINE bx == [m \in DOMAIN boxes[b] \ {n} |-> boxes[b][m]]
           s == IF DOMAIN bx = {} THEN "DRAFT" ELSE "IN_PROGRESS"
<1>1. status[b] \in OpenStatuses /\ BoxSet(boxes[b]) /\ AllUnused(boxes[b])
  BY OpenBoxes DEF RemoveBox, OpenStatuses
<1>2. BoxSet(bx) /\ AllUnused(bx)
  BY <1>1 DEF BoxSet, AllUnused
<1>3. s \in OpenStatuses /\ status' = [status EXCEPT ![b] = s]
  BY DEF RemoveBox, OpenStatuses
<1>4. /\ boxes' = [boxes EXCEPT ![b] = bx] /\ RefreshReservations(b, bx)
      /\ BumpVersion(b) /\ UNCHANGED <<packed, shipped, change>>
  BY DEF RemoveBox
<1> HIDE DEF bx, s
<1> QED
  BY <1>1, <1>2, <1>3, <1>4, RefillStep

\* A batch begins.
Created(b) ==
    /\ OnlyBatch(b)
    /\ status[b] = "NONE" /\ status'[b] = "DRAFT"
    /\ UNCHANGED <<boxes, alloc, reserved, packed, shipped, change>>

\* A batch is completed: what it had reserved is packed and frozen.
Completed(b) ==
    /\ OnlyBatch(b)
    /\ status[b] \in OpenStatuses /\ status'[b] = "COMPLETED"
    /\ \E l \in Line : Total(boxes[b], l) > 0
    /\ reserved' \in [Line -> Nat] /\ packed' \in [Line -> Nat]
    /\ \A l \in Line :
          /\ Held(b, l, "RESERVED")' = 0
          /\ Held(b, l, "FROZEN")' = Total(boxes[b], l)
          /\ reserved'[l] = reserved[l] - Held(b, l, "RESERVED")
          /\ packed'[l] = packed[l] + Total(boxes[b], l)
          /\ packed'[l] > packed[l] => reserved'[l] + packed'[l] <= Produced[l]
    /\ UNCHANGED <<boxes, shipped, change>>

\* A batch is cancelled: what it had reserved is given back.
Cancelled(b) ==
    /\ OnlyBatch(b)
    /\ status[b] \in OpenStatuses /\ status'[b] = "CANCELLED"
    /\ reserved' \in [Line -> Nat]
    /\ \A l \in Line :
          /\ Held(b, l, "RESERVED")' = 0
          /\ Held(b, l, "FROZEN")' = 0
          /\ reserved'[l] = reserved[l] - Held(b, l, "RESERVED")
    /\ UNCHANGED <<boxes, packed, shipped, change>>

\* The boxes of a completed batch, none ever used, are replaced by a layout.
Replaced(b) ==
    /\ OnlyBatch(b)
    /\ version'[b] > version[b]
    /\ status[b] = "COMPLETED" /\ status'[b] = "COMPLETED"
    /\ AllUnused(boxes[b]) /\ AllUnused(boxes'[b]) /\ BoxSet(boxes'[b])
    /\ packed' \in [Line -> Nat]
    /\ \A l \in Line :
          /\ Held(b, l, "RESERVED")' = 0
          /\ Held(b, l, "FROZEN")' = Total(boxes'[b], l)
          /\ packed'[l] = IF Total(boxes[b], l) > 0
                          THEN packed[l] + Total(boxes'[b], l) - Total(boxes[b], l)
                          ELSE packed[l]
          /\ packed'[l] > packed[l] => reserved[l] + packed'[l] <= Produced[l]
    /\ UNCHANGED <<reserved, shipped>>

\* A consumer takes, commits or gives back one box of a completed batch.
Handed(b, n) ==
    /\ status[b] = "COMPLETED"
    /\ n \in DOMAIN boxes[b]
    /\ DOMAIN boxes' = Batch
    /\ \A d \in Batch : d # b => boxes'[d] = boxes[d]
    /\ DOMAIN boxes'[b] = DOMAIN boxes[b]
    /\ \A m \in DOMAIN boxes[b] :
          /\ boxes'[b][m] \in BoxRecord
          /\ boxes'[b][m].content = boxes[b][m].content
          /\ m # n => boxes'[b][m].slot = boxes[b][m].slot
    /\ UNCHANGED <<status, version, alloc, reserved, packed, change>>

\* A change is submitted or rejected: nothing else moves.
Requested == UNCHANGED <<status, version, boxes, alloc, reserved, packed, shipped>>

LEMMA CreateBatchCreates ==
    ASSUME Inv, NEW b \in Batch, CreateBatch(b) PROVE Created(b)
<1>1. /\ status' \in [Batch -> Statuses] /\ status'[b] = "DRAFT"
      /\ \A d \in Batch : d # b => status'[d] = status[d]
  BY DEF CreateBatch, Inv, TypeOK, Statuses
<1>2. /\ version' \in [Batch -> 0..MaxVersion] /\ version'[b] = 1 /\ version[b] \in Nat
      /\ \A d \in Batch : d # b => version'[d] = version[d]
  BY PackingAssumption DEF CreateBatch, Inv, TypeOK
<1>3. DOMAIN boxes' = Batch /\ alloc' \in [Batch -> [Line -> Rows]]
  BY DEF CreateBatch, Inv, TypeOK, Rows
<1>4. OnlyBatch(b)
  <2>1. version'[b] >= version[b]
    BY <1>2 DEF CreateBatch, Inv, Started
  <2> QED
    BY <1>1, <1>2, <1>3, <2>1 DEF OnlyBatch, CreateBatch
<1> QED
  BY <1>1, <1>4 DEF Created, CreateBatch

LEMMA Bumped ==
    ASSUME TypeOK, NEW b \in Batch, BumpVersion(b)
    PROVE  /\ version' \in [Batch -> 0..MaxVersion]
           /\ version'[b] > version[b] /\ version'[b] >= 1 /\ version'[b] >= version[b]
           /\ \A d \in Batch : d # b => version'[d] = version[d]
BY PackingAssumption DEF TypeOK, BumpVersion

LEMMA CompleteBatchCompletes ==
    ASSUME Inv, NEW b \in Batch, CompleteBatch(b) PROVE Completed(b)
<1> DEFINE rows == RefreshedAllocation(b, boxes[b])
           held == [l \in Line |-> IF rows[l].state = "RESERVED" THEN rows[l].quantity ELSE 0]
           left == [l \in Line |-> RefreshedReserved(b, boxes[b])[l] - held[l]]
           after == [l \in Line |-> IF held[l] > 0 THEN [state |-> "FROZEN", quantity |-> held[l]]
                                    ELSE rows[l]]
<1>0. TypeOK /\ status[b] \in OpenStatuses /\ BoxSet(boxes[b])
  BY OpenBoxes DEF Inv, CompleteBatch, OpenStatuses
<1>1. /\ RefreshAccepted(b, boxes[b])
      /\ \E l \in Line : held[l] > 0
      /\ \A l \in Line : left[l] >= 0 /\ (held[l] > 0 => left[l] + packed[l] + held[l] <= Produced[l])
      /\ alloc' = [alloc EXCEPT ![b] = after]
      /\ reserved' = left
      /\ packed' = [l \in Line |-> packed[l] + held[l]]
      /\ status' = [status EXCEPT ![b] = "COMPLETED"]
      /\ BumpVersion(b)
      /\ UNCHANGED <<boxes, shipped, change>>
  BY DEF CompleteBatch
<1>2. \A l \in Line : /\ rows[l] \in Rows
                      /\ held[l] = Total(boxes[b], l) /\ held[l] \in Nat
                      /\ HeldIn(rows[l], "FROZEN") = 0
  <2> SUFFICES ASSUME NEW l \in Line
               PROVE  /\ rows[l] \in Rows
                      /\ held[l] = Total(boxes[b], l) /\ held[l] \in Nat
                      /\ HeldIn(rows[l], "FROZEN") = 0
    OBVIOUS
  <2>1. Held(b, l, "FROZEN") = 0
    BY <1>0 DEF Inv, AllocationsMatchBoxes, OpenStatuses
  <2>2. held[l] = HeldIn(rows[l], "RESERVED")
    BY DEF HeldIn
  <2> HIDE DEF held
  <2> QED
    BY <1>0, <2>1, <2>2, RefreshedRow, TotalTyped
<1>3. \A l \in Line : /\ left[l] = reserved[l] - Held(b, l, "RESERVED")
                      /\ left[l] \in Nat
  <2> SUFFICES ASSUME NEW l \in Line
               PROVE  left[l] = reserved[l] - Held(b, l, "RESERVED") /\ left[l] \in Nat
    OBVIOUS
  <2>1. /\ RefreshedReserved(b, boxes[b])[l] = reserved[l] + Total(boxes[b], l) - Held(b, l, "RESERVED")
        /\ RefreshedReserved(b, boxes[b])[l] \in Nat
    BY <1>0, <1>1, RefreshedLine
  <2>2. left[l] = RefreshedReserved(b, boxes[b])[l] - held[l] /\ left[l] >= 0
    BY <1>1
  <2>3. reserved[l] \in Nat /\ Held(b, l, "RESERVED") \in Nat
    BY <1>0, HeldTyped, HeldIsHeldIn DEF TypeOK, Rows
  <2> HIDE DEF held, left, rows
  <2> QED
    BY <1>2, <2>1, <2>2, <2>3
<1>4. \A l \in Line : /\ after[l] \in Rows
                      /\ HeldIn(after[l], "RESERVED") = 0
                      /\ HeldIn(after[l], "FROZEN") = Total(boxes[b], l)
  <2> SUFFICES ASSUME NEW l \in Line
               PROVE  /\ after[l] \in Rows
                      /\ HeldIn(after[l], "RESERVED") = 0
                      /\ HeldIn(after[l], "FROZEN") = Total(boxes[b], l)
    OBVIOUS
  <2>1. after[l] = IF held[l] > 0 THEN [state |-> "FROZEN", quantity |-> held[l]] ELSE rows[l]
    OBVIOUS
  <2>2. held[l] = HeldIn(rows[l], "RESERVED")
    BY DEF HeldIn
  <2> HIDE DEF held, after, rows
  <2>3. CASE held[l] > 0
    BY <1>2, <2>1, <2>3 DEF Rows, HeldIn
  <2>4. CASE held[l] = 0
    BY <1>2, <2>1, <2>2, <2>4
  <2> QED
    BY <1>2, <2>3, <2>4
<1>5. after \in [Line -> Rows] /\ left \in [Line -> Nat]
  BY <1>3, <1>4
<1> HIDE DEF rows, held, left, after
<1>6. /\ alloc' \in [Batch -> [Line -> Rows]] /\ alloc'[b] = after
      /\ \A d \in Batch : d # b => alloc'[d] = alloc[d]
  BY <1>0, <1>1, <1>5 DEF TypeOK, Rows
<1>7. \A l \in Line : Held(b, l, "RESERVED")' = 0 /\ Held(b, l, "FROZEN")' = Total(boxes[b], l)
  BY <1>4, <1>6, HeldIsHeldIn
<1>8. /\ status' \in [Batch -> Statuses] /\ status'[b] = "COMPLETED"
      /\ \A d \in Batch : d # b => status'[d] = status[d]
  BY <1>0, <1>1 DEF TypeOK, Statuses
<1>9. OnlyBatch(b)
  BY <1>0, <1>1, <1>6, <1>8, Bumped DEF OnlyBatch, TypeOK
<1>10. /\ packed' \in [Line -> Nat]
       /\ \A l \in Line : /\ packed[l] \in Nat
                          /\ packed'[l] = packed[l] + Total(boxes[b], l)
                          /\ packed'[l] > packed[l] => reserved'[l] + packed'[l] <= Produced[l]
  <2>1. \A l \in Line : packed[l] \in Nat /\ packed'[l] = packed[l] + held[l]
    BY <1>0, <1>1 DEF TypeOK
  <2>2. \A l \in Line : packed'[l] \in Nat
    BY <1>2, <2>1
  <2>3. packed' \in [Line -> Nat]
    BY <1>1, <2>2
  <2> QED
    BY <1>1, <1>2, <1>3, <2>1, <2>3, PackingAssumption
<1>11. \E l \in Line : Total(boxes[b], l) > 0
  BY <1>1, <1>2
<1> QED
  BY <1>0, <1>1, <1>3, <1>5, <1>7, <1>8, <1>9, <1>10, <1>11 DEF Completed

LEMMA CancelBatchCancels ==
    ASSUME Inv, NEW b \in Batch, CancelBatch(b) PROVE Cancelled(b)
<1> DEFINE after == [l \in Line |-> IF alloc[b][l].state = "RESERVED"
                                    THEN [alloc[b][l] EXCEPT !.state = "RELEASED"]
                                    ELSE alloc[b][l]]
<1>0. TypeOK /\ status[b] \in OpenStatuses
  BY DEF Inv, CancelBatch, OpenStatuses
<1>1. /\ alloc' = [alloc EXCEPT ![b] = after]
      /\ status' = [status EXCEPT ![b] = "CANCELLED"]
  BY DEF CancelBatch
<1>2. \A l \in Line : alloc[b][l] \in Rows /\ HeldIn(alloc[b][l], "FROZEN") = 0
  BY <1>0, HeldIsHeldIn DEF Inv, TypeOK, Rows, AllocationsMatchBoxes, OpenStatuses
<1>3. \A l \in Line : /\ after[l] \in Rows
                      /\ HeldIn(after[l], "RESERVED") = 0 /\ HeldIn(after[l], "FROZEN") = 0
  <2> SUFFICES ASSUME NEW l \in Line
               PROVE  /\ after[l] \in Rows
                      /\ HeldIn(after[l], "RESERVED") = 0 /\ HeldIn(after[l], "FROZEN") = 0
    OBVIOUS
  <2>1. CASE alloc[b][l].state = "RESERVED"
    BY <1>2, <2>1 DEF Rows, HeldIn, NoAllocation
  <2>2. CASE alloc[b][l].state # "RESERVED"
    BY <1>2, <2>2 DEF HeldIn
  <2> QED
    BY <2>1, <2>2
<1>4. after \in [Line -> Rows]
  BY <1>3
<1> HIDE DEF after
<1>5. /\ alloc' \in [Batch -> [Line -> Rows]] /\ alloc'[b] = after
      /\ \A d \in Batch : d # b => alloc'[d] = alloc[d]
  BY <1>0, <1>1, <1>4 DEF TypeOK, Rows
<1>6. \A l \in Line : Held(b, l, "RESERVED")' = 0 /\ Held(b, l, "FROZEN")' = 0
  BY <1>3, <1>5, HeldIsHeldIn
<1>7. /\ status' \in [Batch -> Statuses] /\ status'[b] = "CANCELLED"
      /\ \A d \in Batch : d # b => status'[d] = status[d]
  BY <1>0, <1>1 DEF TypeOK, Statuses
<1>8. OnlyBatch(b)
  BY <1>0, <1>5, <1>7, Bumped DEF OnlyBatch, TypeOK, CancelBatch
<1>9. /\ reserved' \in [Line -> Nat]
      /\ \A l \in Line : reserved'[l] = reserved[l] - Held(b, l, "RESERVED")
  <2>1. \A l \in Line : /\ reserved[l] \in Nat /\ Held(b, l, "RESERVED") \in Nat
                        /\ reserved[l] >= Held(b, l, "RESERVED")
    <3>1. \A l \in Line : Held(b, l, "RESERVED") \in Nat
      BY <1>2, HeldTyped, HeldIsHeldIn
    <3>2. \A l \in Line : reserved[l] \in Nat /\ reserved[l] >= Held(b, l, "RESERVED")
      BY <1>0 DEF TypeOK, CancelBatch
    <3> QED
      BY <3>1, <3>2
  <2>2. reserved' = [l \in Line |-> reserved[l] - Held(b, l, "RESERVED")]
    BY DEF CancelBatch
  <2>3. \A l \in Line : reserved[l] - Held(b, l, "RESERVED") \in Nat
    BY <2>1
  <2> QED
    BY <2>2, <2>3
<1> QED
  BY <1>0, <1>6, <1>7, <1>8, <1>9 DEF Cancelled, CancelBatch

\* An approved change of a completed batch.
LEMMA ApproveChangeReplaces ==
    ASSUME Inv, NEW c \in Change, NEW a \in Actor, ApproveChange(c, a),
           NEW b, b = change[c].batch
    PROVE  b \in Batch /\ Replaced(b)
<1> DEFINE y == change[c].layout
           old(l) == Total(boxes[b], l)
           new(l) == LayoutTotal(y, l)
           bx == [n \in DOMAIN y |-> [content |-> y[n], slot |-> "UNUSED"]]
           after == [l \in Line |->
                        CASE new(l) > 0               -> [state |-> "FROZEN", quantity |-> new(l)]
                          [] new(l) = 0 /\ old(l) > 0 -> [alloc[b][l] EXCEPT !.state = "REVERSED"]
                          [] OTHER                    -> alloc[b][l]]
<1>0. TypeOK
  BY DEF Inv
<1>1. /\ b \in Batch /\ y \in Layout /\ status[b] = "COMPLETED"
  BY <1>0 DEF TypeOK, ApproveChange, NoChange
<1>2. /\ ReplaceLayout(b, y) /\ BumpVersion(b)
      /\ UNCHANGED <<status, reserved, shipped>>
  BY DEF ApproveChange
<1> HIDE DEF y
<1>3. /\ LayoutReplaceable(b)
      /\ \A l \in Line : new(l) > 0 => LayoutFits(b, l, new(l))
      /\ \A l \in Line : old(l) > 0 /\ new(l) # old(l) => PackedCovers(b, l)
      /\ packed' = Booked(b, y)
      /\ alloc' = [alloc EXCEPT ![b] = after]
      /\ boxes' = [boxes EXCEPT ![b] = bx]
  BY <1>2 DEF ReplaceLayout
<1>4. BoxSet(boxes[b]) /\ AllUnused(boxes[b])
  BY <1>0, <1>1, <1>3 DEF TypeOK, BoxSet, AllUnused, LayoutReplaceable
<1>5. BoxSet(bx) /\ AllUnused(bx)
  <2>1. PICK m \in 1..MaxBoxes : y \in [1..m -> Content]
    BY <1>1 DEF Layout
  <2>2. DOMAIN y \subseteq 1..MaxBoxes /\ \A n \in DOMAIN y : y[n] \in Content
    BY <2>1, PackingAssumption
  <2> QED
    BY <2>2, NewBox DEF BoxSet, AllUnused
<1>6. \A l \in Line : /\ old(l) \in Nat /\ new(l) \in Nat
                      /\ alloc[b][l] \in Rows
                      /\ HeldIn(alloc[b][l], "FROZEN") = old(l)
                      /\ HeldIn(alloc[b][l], "RESERVED") = 0
  <2>1. \A l \in Line : old(l) \in Nat /\ new(l) \in Nat
    BY <1>1, <1>4, TotalTyped, LayoutTotalTyped
  <2>2. \A l \in Line : alloc[b][l] \in Rows
    BY <1>0, <1>1 DEF TypeOK, Rows
  <2>3. \A l \in Line : HeldIn(alloc[b][l], "FROZEN") = old(l) /\ HeldIn(alloc[b][l], "RESERVED") = 0
    BY <1>1, HeldIsHeldIn DEF Inv, AllocationsMatchBoxes
  <2> QED
    BY <2>1, <2>2, <2>3
<1>7. \A l \in Line : Total(bx, l) = new(l)
  BY TotalOfLayout
<1>8. \A l \in Line : /\ after[l] \in Rows
                      /\ HeldIn(after[l], "RESERVED") = 0 /\ HeldIn(after[l], "FROZEN") = new(l)
  <2> SUFFICES ASSUME NEW l \in Line
               PROVE  /\ after[l] \in Rows
                      /\ HeldIn(after[l], "RESERVED") = 0 /\ HeldIn(after[l], "FROZEN") = new(l)
    OBVIOUS
  <2>0. /\ new(l) > 0 => after[l] = [state |-> "FROZEN", quantity |-> new(l)]
        /\ new(l) = 0 /\ old(l) > 0 => after[l] = [alloc[b][l] EXCEPT !.state = "REVERSED"]
        /\ ~(new(l) > 0) /\ ~(new(l) = 0 /\ old(l) > 0) => after[l] = alloc[b][l]
    OBVIOUS
  <2> HIDE DEF after, old, new
  <2>1. CASE new(l) > 0
    BY <1>6, <2>0, <2>1 DEF Rows, HeldIn
  <2>2. CASE new(l) = 0 /\ old(l) > 0
    BY <1>6, <2>0, <2>2 DEF Rows, HeldIn, NoAllocation
  <2>3. CASE new(l) = 0 /\ old(l) = 0
    BY <1>6, <2>0, <2>3
  <2> QED
    BY <1>6, <2>1, <2>2, <2>3
<1>9. after \in [Line -> Rows]
  BY <1>8
<1>10. \A l \in Line :
           /\ packed[l] \in Nat /\ reserved[l] \in Nat /\ Produced[l] \in Nat
           /\ packed'[l] = IF old(l) > 0 THEN packed[l] + new(l) - old(l) ELSE packed[l]
  BY <1>0, <1>3, PackingAssumption DEF TypeOK, Booked
<1>11. \A l \in Line : /\ packed'[l] \in Nat
                       /\ packed'[l] > packed[l] => reserved[l] + packed'[l] <= Produced[l]
  <2> SUFFICES ASSUME NEW l \in Line
               PROVE  /\ packed'[l] \in Nat
                      /\ packed'[l] > packed[l] => reserved[l] + packed'[l] <= Produced[l]
    OBVIOUS
  <2>1. new(l) > 0 => new(l) <= Produced[l] - reserved[l] - packed[l] + old(l)
    BY <1>3 DEF LayoutFits
  <2>2. old(l) > 0 /\ new(l) # old(l) => packed[l] >= old(l)
    BY <1>3 DEF PackedCovers
  <2> HIDE DEF old, new
  <2> QED
    BY <1>6, <1>10, <2>1, <2>2
<1>12. packed' \in [Line -> Nat]
  BY <1>3, <1>11 DEF Booked
<1> HIDE DEF after, bx
<1>13. /\ alloc' \in [Batch -> [Line -> Rows]] /\ alloc'[b] = after
       /\ \A d \in Batch : d # b => alloc'[d] = alloc[d]
  BY <1>0, <1>1, <1>3, <1>9 DEF TypeOK, Rows
<1>14. /\ DOMAIN boxes' = Batch /\ boxes'[b] = bx
       /\ \A d \in Batch : d # b => boxes'[d] = boxes[d]
  BY <1>0, <1>1, <1>3 DEF TypeOK
<1>15. OnlyBatch(b)
  <2>1. status' \in [Batch -> Statuses]
    BY <1>0, <1>2 DEF TypeOK, Statuses
  <2> QED
    <3>1. /\ version' \in [Batch -> 0..MaxVersion]
          /\ version'[b] >= version[b] /\ version'[b] >= 1
          /\ \A d \in Batch : d # b => version'[d] = version[d]
      BY <1>0, <1>1, <1>2, Bumped
    <3> QED
      BY <1>2, <1>13, <1>14, <2>1, <3>1 DEF OnlyBatch
<1>16. \A l \in Line : Held(b, l, "RESERVED")' = 0 /\ Held(b, l, "FROZEN")' = new(l)
  BY <1>8, <1>13, HeldIsHeldIn
<1>17. version'[b] > version[b]
  BY <1>0, <1>1, <1>2, Bumped
<1> QED
  BY <1>1, <1>2, <1>4, <1>5, <1>7, <1>10, <1>11, <1>12, <1>14, <1>15, <1>16, <1>17 DEF Replaced

LEMMA ConsumeBoxHands ==
    ASSUME Inv, NEW b \in Batch, NEW n \in 1..MaxBoxes, ConsumeBox(b, n) PROVE Handed(b, n)
<1>0. TypeOK
  BY DEF Inv
<1>1. /\ n \in DOMAIN boxes[b] /\ status[b] = "COMPLETED"
      /\ UNCHANGED <<status, version, alloc, reserved, packed, change>>
  BY DEF ConsumeBox, ReserveBox, CommitConsolidation, CommitShipment, ReleaseBox, TransferBox,
         Inv, ConsumedAreCompleted
<1>2. PICK s \in AnySlot : boxes' = [boxes EXCEPT ![b][n].slot = s]
  BY DEF ConsumeBox, ReserveBox, CommitConsolidation, CommitShipment, ReleaseBox, TransferBox,
         SetSlot, AnySlot, ActiveSlots
<1> DEFINE new == [boxes[b] EXCEPT ![n].slot = s]
<1>3. /\ DOMAIN boxes' = Batch /\ boxes'[b] = new
      /\ \A d \in Batch : d # b => boxes'[d] = boxes[d]
  BY <1>0, <1>2 DEF TypeOK
<1>4. /\ DOMAIN new = DOMAIN boxes[b]
      /\ \A m \in DOMAIN boxes[b] :
            /\ new[m] \in BoxRecord
            /\ new[m].content = boxes[b][m].content
            /\ m # n => new[m] = boxes[b][m]
  <2>1. \A m \in DOMAIN boxes[b] : boxes[b][m] \in BoxRecord
    BY <1>0 DEF TypeOK
  <2>2. \A m \in DOMAIN boxes[b] :
            new[m] = IF m = n THEN [boxes[b][m] EXCEPT !.slot = s] ELSE boxes[b][m]
    OBVIOUS
  <2>3. s \in ActiveSlots \cup {"UNUSED", "FREED"}
    BY DEF AnySlot
  <2>4. \A r \in BoxRecord : [r EXCEPT !.slot = s] \in BoxRecord
                             /\ [r EXCEPT !.slot = s].content = r.content
    BY <2>3 DEF BoxRecord
  <2>5. DOMAIN new = DOMAIN boxes[b]
    OBVIOUS
  <2> HIDE DEF new
  <2> QED
    BY <2>1, <2>2, <2>4, <2>5
<1> HIDE DEF new
<1> QED
  BY <1>1, <1>3, <1>4 DEF Handed

\* Every step is one of these.
LEMMA StepCases ==
    ASSUME Inv, Next
    PROVE  \/ \E b \in Batch : \/ Created(b) \/ Refilled(b) \/ Completed(b) \/ Cancelled(b)
           \/ \E c \in Change, a \in Actor, b \in Batch :
                 ApproveChange(c, a) /\ b = change[c].batch /\ Replaced(b)
           \/ Requested /\ (\/ \E c \in Change, b \in Batch, y \in Layout, a \in Actor :
                                  SubmitChange(c, b, y, a)
                            \/ \E c \in Change, a \in Actor : RejectChange(c, a))
           \/ \E b \in Batch, n \in 1..MaxBoxes : ConsumeBox(b, n) /\ Handed(b, n)
<1>1. ASSUME NEW b \in Batch, FillBatch(b)
      PROVE  Created(b) \/ Refilled(b) \/ Completed(b) \/ Cancelled(b)
  BY <1>1, CreateBatchCreates, AddBoxRefills, ReplaceBoxRefills, RemoveBoxRefills,
     CompleteBatchCompletes, CancelBatchCancels DEF FillBatch
<1>2. ASSUME NEW c \in Change, NEW b \in Batch, NEW y \in Layout, NEW a \in Actor,
             SubmitChange(c, b, y, a)
      PROVE  Requested
  BY <1>2 DEF SubmitChange, Requested
<1>3. ASSUME NEW c \in Change, NEW a \in Actor, RejectChange(c, a) PROVE Requested
  BY <1>3 DEF RejectChange, Requested
<1> QED
  BY <1>1, <1>2, <1>3, ApproveChangeReplaces, ConsumeBoxHands DEF Next

-----------------------------------------------------------------------------
(* The base invariant. *)

LEMMA InvInit == Init => Inv
<1> SUFFICES ASSUME Init PROVE Inv
  OBVIOUS
<1>1. TypeOK
  BY PackingAssumption DEF Init, TypeOK
<1>2. Started /\ ConsumedAreCompleted
  BY DEF Init, Started, ConsumedAreCompleted
<1>3. AllocationsMatchBoxes
  BY DEF Init, AllocationsMatchBoxes
<1> QED
  BY <1>1, <1>2, <1>3 DEF Inv

\* The change requests stay well formed.
LEMMA ChangesTyped ==
    ASSUME Inv, Next
    PROVE  /\ DOMAIN change' = Change
           /\ \A c \in Change : change'[c] = NoChange \/ change'[c] \in
                [status : {"PENDING", "APPROVED", "REJECTED"}, batch : Batch,
                 expected : 1..MaxVersion, layout : Layout, submitter : Actor]
<1> DEFINE Request == [status : {"PENDING", "APPROVED", "REJECTED"}, batch : Batch,
                       expected : 1..MaxVersion, layout : Layout, submitter : Actor]
<1>0. DOMAIN change = Change /\ \A c \in Change : change[c] = NoChange \/ change[c] \in Request
  BY DEF Inv, TypeOK
<1>1. ASSUME change' = change PROVE DOMAIN change' = Change
                                    /\ \A c \in Change : change'[c] = NoChange \/ change'[c] \in Request
  BY <1>0, <1>1
<1>2. ASSUME NEW c \in Change, NEW b \in Batch, NEW y \in Layout, NEW a \in Actor,
             SubmitChange(c, b, y, a)
      PROVE  DOMAIN change' = Change
             /\ \A d \in Change : change'[d] = NoChange \/ change'[d] \in Request
  <2>1. version[b] \in 1..MaxVersion
    BY <1>2, PackingAssumption DEF SubmitChange, Inv, Started, TypeOK
  <2>2. [status |-> "PENDING", batch |-> b, expected |-> version[b],
         layout |-> y, submitter |-> a] \in Request
    BY <2>1
  <2> HIDE DEF Request
  <2> QED
    BY <1>0, <1>2, <2>2 DEF SubmitChange
<1>3. ASSUME NEW c \in Change, NEW a \in Actor, ApproveChange(c, a) \/ RejectChange(c, a)
      PROVE  DOMAIN change' = Change
             /\ \A d \in Change : change'[d] = NoChange \/ change'[d] \in Request
  <2>1. change[c] \in Request
    BY <1>0, <1>3 DEF ApproveChange, RejectChange
  <2>2. [change[c] EXCEPT !.status = "APPROVED"] \in Request
        /\ [change[c] EXCEPT !.status = "REJECTED"] \in Request
    BY <2>1
  <2>3. \/ change' = [change EXCEPT ![c] = [change[c] EXCEPT !.status = "APPROVED"]]
        \/ change' = [change EXCEPT ![c] = [change[c] EXCEPT !.status = "REJECTED"]]
    BY <1>3 DEF ApproveChange, RejectChange
  <2> HIDE DEF Request
  <2> QED
    BY <1>0, <2>2, <2>3
<1>4. ASSUME NEW b \in Batch, \/ Created(b) \/ Refilled(b) \/ Completed(b) \/ Cancelled(b)
                              \/ \E n \in 1..MaxBoxes : Handed(b, n)
      PROVE  change' = change
  BY <1>4 DEF Created, Refilled, Completed, Cancelled, Handed
<1> QED
  BY <1>1, <1>2, <1>3, <1>4, StepCases

\* Batches that a step leaves alone keep what is said of them.
LEMMA OthersKeep ==
    ASSUME Inv, NEW b \in Batch, OnlyBatch(b), NEW d \in Batch, d # b
    PROVE  /\ DOMAIN boxes'[d] \subseteq 1..MaxBoxes
           /\ \A n \in DOMAIN boxes'[d] :
                 /\ boxes'[d][n] \in BoxRecord
                 /\ boxes'[d][n].slot # "UNUSED" => status'[d] = "COMPLETED"
           /\ status'[d] = "NONE" =>
                 /\ version'[d] = 0 /\ DOMAIN boxes'[d] = {}
                 /\ \A l \in Line : alloc'[d][l] = NoAllocation
           /\ status'[d] # "NONE" => version'[d] >= 1
           /\ \A l \in Line :
                 /\ Held(d, l, "RESERVED")' = Held(d, l, "RESERVED")
                 /\ Held(d, l, "FROZEN")' = Held(d, l, "FROZEN")
                 /\ Total(boxes'[d], l) = Total(boxes[d], l)
BY HeldIsHeldIn DEF OnlyBatch, Inv, TypeOK, Started, ConsumedAreCompleted

\* The batch that changes is well formed and its rows match its boxes.
BatchOK(b) ==
    /\ BoxSet(boxes'[b])
    /\ \A n \in DOMAIN boxes'[b] : boxes'[b][n].slot # "UNUSED" => status'[b] = "COMPLETED"
    /\ status'[b] # "NONE"
    /\ \A l \in Line :
          /\ status'[b] \in OpenStatuses =>
                Held(b, l, "RESERVED")' = Total(boxes'[b], l) /\ Held(b, l, "FROZEN")' = 0
          /\ status'[b] = "COMPLETED" =>
                Held(b, l, "FROZEN")' = Total(boxes'[b], l) /\ Held(b, l, "RESERVED")' = 0
          /\ status'[b] = "CANCELLED" =>
                Held(b, l, "FROZEN")' = 0 /\ Held(b, l, "RESERVED")' = 0

LEMMA OneBatchStep ==
    ASSUME Inv, Next, NEW b \in Batch, OnlyBatch(b), BatchOK(b),
           reserved' \in [Line -> Nat], packed' \in [Line -> Nat], shipped' \in [Line -> Nat]
    PROVE  Inv'
<1>1. TypeOK'
  <2>1. \A d \in Batch : /\ DOMAIN boxes'[d] \subseteq 1..MaxBoxes
                         /\ \A n \in DOMAIN boxes'[d] : boxes'[d][n] \in BoxRecord
    BY OthersKeep DEF BatchOK, BoxSet
  <2> QED
    BY <2>1, ChangesTyped DEF TypeOK, OnlyBatch, Statuses, Rows
<1>2. Started'
  BY OthersKeep DEF Started, OnlyBatch, BatchOK
<1>3. ConsumedAreCompleted'
  BY OthersKeep DEF ConsumedAreCompleted, BatchOK
<1>4. AllocationsMatchBoxes'
  <2> SUFFICES ASSUME NEW d \in Batch, NEW l \in Line
               PROVE  /\ status'[d] \in {"DRAFT", "IN_PROGRESS"} =>
                            Held(d, l, "RESERVED")' = Total(boxes'[d], l) /\ Held(d, l, "FROZEN")' = 0
                      /\ status'[d] = "COMPLETED" =>
                            Held(d, l, "FROZEN")' = Total(boxes'[d], l) /\ Held(d, l, "RESERVED")' = 0
                      /\ status'[d] = "CANCELLED" =>
                            Held(d, l, "FROZEN")' = 0 /\ Held(d, l, "RESERVED")' = 0
    BY DEF AllocationsMatchBoxes
  <2>1. CASE d = b
    BY <2>1 DEF BatchOK, OpenStatuses
  <2>2. CASE d # b
    <3>1. /\ status'[d] = status[d]
          /\ Held(d, l, "RESERVED")' = Held(d, l, "RESERVED")
          /\ Held(d, l, "FROZEN")' = Held(d, l, "FROZEN")
          /\ Total(boxes'[d], l) = Total(boxes[d], l)
      BY <2>2, OthersKeep DEF OnlyBatch
    <3> QED
      BY <3>1 DEF Inv, AllocationsMatchBoxes
  <2> QED
    BY <2>1, <2>2
<1> QED
  BY <1>1, <1>2, <1>3, <1>4 DEF Inv

LEMMA ShippedTyped ==
    ASSUME Inv, NEW b \in Batch, NEW n \in 1..MaxBoxes, ConsumeBox(b, n)
    PROVE  shipped' \in [Line -> Nat]
<1>1. \A l \in Line : shipped[l] \in Nat
  BY DEF Inv, TypeOK
<1>2. CASE CommitShipment(b, n)
  <2>1. \A l \in Line : boxes[b][n].content[l] \in Nat
    BY <1>2, ContentTyped DEF CommitShipment, Inv, TypeOK, BoxRecord
  <2>2. \A l \in Line : shipped[l] + boxes[b][n].content[l] \in Nat
    BY <1>1, <2>1
  <2> QED
    BY <1>2, <2>2 DEF CommitShipment
<1>3. CASE UNCHANGED shipped
  BY <1>3 DEF Inv, TypeOK
<1> QED
  BY <1>2, <1>3 DEF ConsumeBox, ReserveBox, CommitConsolidation, ReleaseBox, TransferBox

LEMMA CreatedKeeps == ASSUME Inv, Next, NEW b \in Batch, Created(b) PROVE Inv'
<1>1. /\ DOMAIN boxes[b] = {} /\ boxes'[b] = boxes[b] /\ alloc' = alloc
      /\ \A l \in Line : alloc[b][l] = NoAllocation
  BY DEF Created, Inv, Started
<1>2. \A l \in Line : /\ Held(b, l, "RESERVED")' = 0 /\ Held(b, l, "FROZEN")' = 0
                      /\ Total(boxes'[b], l) = 0
  <2>1. HeldIn(NoAllocation, "RESERVED") = 0 /\ HeldIn(NoAllocation, "FROZEN") = 0
    BY DEF HeldIn, NoAllocation
  <2>2. \A l \in Line : Held(b, l, "RESERVED")' = 0 /\ Held(b, l, "FROZEN")' = 0
    BY <1>1, <2>1, HeldIsHeldIn
  <2> QED
    BY <1>1, <2>2, TotalOfNone
<1>3. BatchOK(b)
  BY <1>1, <1>2 DEF BatchOK, BoxSet, Created
<1> QED
  BY <1>3, OneBatchStep DEF Created, Inv, TypeOK

LEMMA RefilledKeeps == ASSUME Inv, Next, NEW b \in Batch, Refilled(b) PROVE Inv'
<1>1. BatchOK(b)
  BY DEF BatchOK, Refilled, AllUnused, OpenStatuses
<1> QED
  BY <1>1, OneBatchStep DEF Refilled, Inv, TypeOK

LEMMA CompletedKeeps == ASSUME Inv, Next, NEW b \in Batch, Completed(b) PROVE Inv'
<1>1. BoxSet(boxes[b]) /\ boxes' = boxes
  BY OpenBoxes DEF Completed
<1>2. BatchOK(b)
  BY <1>1 DEF BatchOK, Completed, OpenStatuses
<1> QED
  BY <1>2, OneBatchStep DEF Completed, Inv, TypeOK

LEMMA CancelledKeeps == ASSUME Inv, Next, NEW b \in Batch, Cancelled(b) PROVE Inv'
<1>1. BoxSet(boxes[b]) /\ AllUnused(boxes[b]) /\ boxes' = boxes
  BY OpenBoxes DEF Cancelled
<1>2. BatchOK(b)
  BY <1>1 DEF BatchOK, Cancelled, OpenStatuses, AllUnused
<1> QED
  BY <1>2, OneBatchStep DEF Cancelled, Inv, TypeOK

LEMMA ReplacedKeeps == ASSUME Inv, Next, NEW b \in Batch, Replaced(b) PROVE Inv'
<1>1. BatchOK(b)
  BY DEF BatchOK, Replaced, OpenStatuses, AllUnused
<1> QED
  BY <1>1, OneBatchStep DEF Replaced, Inv, TypeOK

\* Handing a box over changes its slot only.
LEMMA HandedTotals ==
    ASSUME NEW b \in Batch, NEW n, Handed(b, n), NEW d \in Batch
    PROVE  /\ DOMAIN boxes'[d] = DOMAIN boxes[d]
           /\ \A m \in DOMAIN boxes[d] : boxes'[d][m].content = boxes[d][m].content
           /\ \A l \in Line : Total(boxes'[d], l) = Total(boxes[d], l)
<1>1. /\ DOMAIN boxes'[d] = DOMAIN boxes[d]
      /\ \A m \in DOMAIN boxes[d] : boxes'[d][m].content = boxes[d][m].content
  BY DEF Handed
<1> QED
  BY <1>1, TotalSame

LEMMA HandedKeeps ==
    ASSUME Inv, Next, NEW b \in Batch, NEW n \in 1..MaxBoxes, ConsumeBox(b, n), Handed(b, n)
    PROVE  Inv'
<1>1. TypeOK'
  <2>1. /\ DOMAIN boxes' = Batch
        /\ \A d \in Batch : /\ DOMAIN boxes'[d] \subseteq 1..MaxBoxes
                            /\ \A m \in DOMAIN boxes'[d] : boxes'[d][m] \in BoxRecord
    BY DEF Handed, Inv, TypeOK
  <2>2. UNCHANGED <<status, version, alloc, reserved, packed, change>>
    BY DEF Handed
  <2> QED
    BY <2>1, <2>2, ShippedTyped DEF Inv, TypeOK
<1>2. Started' /\ ConsumedAreCompleted'
  BY DEF Handed, Inv, Started, ConsumedAreCompleted
<1>3. AllocationsMatchBoxes'
  <2>1. \A d \in Batch, l \in Line :
            /\ status'[d] = status[d]
            /\ Held(d, l, "RESERVED")' = Held(d, l, "RESERVED")
            /\ Held(d, l, "FROZEN")' = Held(d, l, "FROZEN")
            /\ Total(boxes'[d], l) = Total(boxes[d], l)
    BY HandedTotals, HeldIsHeldIn DEF Handed
  <2> QED
    BY <2>1 DEF Inv, AllocationsMatchBoxes
<1> QED
  BY <1>1, <1>2, <1>3 DEF Inv

LEMMA RequestedKeeps == ASSUME Inv, Next, Requested PROVE Inv'
<1>1. UNCHANGED <<status, version, boxes, alloc, reserved, packed, shipped>>
  BY DEF Requested
<1>2. TypeOK'
  BY <1>1, ChangesTyped DEF Inv, TypeOK
<1>3. Started' /\ ConsumedAreCompleted' /\ AllocationsMatchBoxes'
  BY <1>1 DEF Inv, Started, ConsumedAreCompleted, AllocationsMatchBoxes, Held
<1> QED
  BY <1>2, <1>3 DEF Inv

LEMMA InvStep == Inv /\ [Next]_vars => Inv'
<1>1. ASSUME Inv, Next PROVE Inv'
  BY <1>1, StepCases, CreatedKeeps, RefilledKeeps, CompletedKeeps, CancelledKeeps,
     ReplacedKeeps, HandedKeeps, RequestedKeeps
<1>2. ASSUME Inv, UNCHANGED vars PROVE Inv'
  BY <1>2 DEF vars, Inv, TypeOK, Started, ConsumedAreCompleted, AllocationsMatchBoxes, Held
<1> QED
  BY <1>1, <1>2

LEMMA BaseInvariant == Spec => []Inv
  BY InvInit, InvStep, PTL DEF Spec

\* Every reachable state is well formed.
THEOREM TypeCorrect == Spec => []TypeOK
<1>1. Inv => TypeOK
  BY DEF Inv
<1> QED
  BY <1>1, BaseInvariant, PTL

\* The allocation rows of a batch say what is in its boxes, while it is open,
\* once it is completed and through every correction (_refresh_batch_-
\* reservations, _freeze_batch_allocations, _replace_completed_layout).
THEOREM AllocationsMatchBoxesHolds == Spec => []AllocationsMatchBoxes
<1>1. Inv => AllocationsMatchBoxes
  BY DEF Inv
<1> QED
  BY <1>1, BaseInvariant, PTL

-----------------------------------------------------------------------------
(* The counters of the order lines. *)

\* One batch at most changes what the batches hold of a line.
LEMMA HeldByAllStep ==
    ASSUME Inv, Inv', NEW b \in Batch, OnlyBatch(b), NEW l \in Line,
           NEW st \in {"RESERVED", "FROZEN"}
    PROVE  /\ HeldByAll(l, st) \in Nat /\ HeldByAll(l, st)' \in Nat
           /\ Held(b, l, st) \in Nat /\ Held(b, l, st)' \in Nat
           /\ HeldByAll(l, st)' = HeldByAll(l, st) - Held(b, l, st) + Held(b, l, st)'
<1> DEFINE f == [d \in Batch |-> HeldIn(alloc[d][l], st)]
           g == [d \in Batch |-> HeldIn(alloc'[d][l], st)]
<1>1. alloc \in [Batch -> [Line -> Rows]] /\ alloc' \in [Batch -> [Line -> Rows]]
  BY DEF Inv, TypeOK, Rows
<1>2. f \in [Batch -> Nat] /\ g \in [Batch -> Nat]
  BY <1>1, HeldTyped
<1>3. \A d \in Batch : d # b => g[d] = f[d]
  BY DEF OnlyBatch
<1>4. /\ HeldByAll(l, st) = Sum(f) /\ HeldByAll(l, st)' = Sum(g)
      /\ Held(b, l, st) = f[b] /\ Held(b, l, st)' = g[b]
  BY DEF HeldByAll, Held, HeldIn
<1> HIDE DEF f, g
<1> QED
  BY <1>2, <1>3, <1>4, HeldByAllChange

\* Steps that leave the rows alone leave what is held.
LEMMA HeldByAllSame ==
    ASSUME alloc' = alloc, NEW l, NEW st
    PROVE  HeldByAll(l, st)' = HeldByAll(l, st)
BY DEF HeldByAll, Held

LEMMA ReservationsStep ==
    ASSUME Inv, Inv', ReservationsBacked, [Next]_vars PROVE ReservationsBacked'
<1> SUFFICES ASSUME NEW l \in Line PROVE reserved'[l] = HeldByAll(l, "RESERVED")'
  BY DEF ReservationsBacked
<1>0. reserved[l] = HeldByAll(l, "RESERVED") /\ reserved[l] \in Nat
  BY DEF ReservationsBacked, Inv, TypeOK
<1>1. ASSUME alloc' = alloc, reserved' = reserved
      PROVE  reserved'[l] = HeldByAll(l, "RESERVED")'
  BY <1>0, <1>1, HeldByAllSame
<1>2. ASSUME NEW b \in Batch, OnlyBatch(b),
             reserved'[l] = reserved[l] + Held(b, l, "RESERVED")' - Held(b, l, "RESERVED")
      PROVE  reserved'[l] = HeldByAll(l, "RESERVED")'
  BY <1>0, <1>2, HeldByAllStep
<1>3. ASSUME NEW b \in Batch, Refilled(b) \/ Completed(b) \/ Cancelled(b) \/ Replaced(b)
      PROVE  reserved'[l] = HeldByAll(l, "RESERVED")'
  <2>1. OnlyBatch(b)
    BY <1>3 DEF Refilled, Completed, Cancelled, Replaced
  <2>2. Held(b, l, "RESERVED") \in Nat /\ Held(b, l, "RESERVED")' \in Nat
    BY <2>1, HeldByAllStep
  <2>3. Replaced(b) => Held(b, l, "RESERVED") = 0
    BY DEF Replaced, Inv, AllocationsMatchBoxes
  <2>4. reserved'[l] = reserved[l] + Held(b, l, "RESERVED")' - Held(b, l, "RESERVED")
    BY <1>0, <1>3, <2>2, <2>3 DEF Refilled, Completed, Cancelled, Replaced
  <2> QED
    BY <1>2, <2>1, <2>4
<1>4. CASE Next
  BY <1>1, <1>3, <1>4, StepCases DEF Created, Handed, Requested
<1>5. CASE UNCHANGED vars
  BY <1>1, <1>5 DEF vars
<1> QED
  BY <1>4, <1>5

LEMMA HeldByNone ==
    ASSUME Init, NEW l \in Line, NEW st \in {"RESERVED", "FROZEN"}
    PROVE  HeldByAll(l, st) = 0
<1>1. \A b \in Batch : [d \in Batch |-> Held(d, l, st)][b] = 0
  BY DEF Init, Held, NoAllocation
<1>2. HeldByAll(l, st) = SumOver([d \in Batch |-> Held(d, l, st)], Batch)
  BY DEF HeldByAll, Sum
<1> QED
  BY <1>1, <1>2, SumZero

\* The reserved quantity of a line is what the open batches hold of it, whatever
\* the order of their edits, completions and cancellations: the counter that is
\* kept by differences does not drift (_refresh_batch_reservations).
THEOREM ReservationsBackedHolds == Spec => []ReservationsBacked
<1>1. Init => ReservationsBacked
  BY HeldByNone DEF Init, ReservationsBacked
<1> QED
  BY <1>1, ReservationsStep, BaseInvariant, PTL DEF Spec

\* What a step does to the packed quantity of a line and to what is frozen of it.
LEMMA PackedStep ==
    ASSUME Inv, Inv', [Next]_vars, NEW l \in Line
    PROVE  /\ packed[l] \in Nat /\ packed'[l] \in Nat
           /\ HeldByAll(l, "FROZEN") \in Nat /\ HeldByAll(l, "FROZEN")' \in Nat
           /\ \/ packed'[l] - packed[l] = HeldByAll(l, "FROZEN")' - HeldByAll(l, "FROZEN")
              \/ /\ packed'[l] = packed[l]
                 /\ HeldByAll(l, "FROZEN")' > HeldByAll(l, "FROZEN")
                 /\ \E c \in Change, a \in Actor, b \in Batch :
                       /\ ApproveChange(c, a) /\ b = change[c].batch /\ Replaced(b)
                       /\ Total(boxes[b], l) = 0 /\ Total(boxes'[b], l) > 0
<1>0. packed[l] \in Nat /\ packed'[l] \in Nat
  BY DEF Inv, TypeOK
<1>1. HeldByAll(l, "FROZEN") \in Nat /\ HeldByAll(l, "FROZEN")' \in Nat
  <2>1. /\ alloc \in [Batch -> [Line -> Rows]] /\ alloc' \in [Batch -> [Line -> Rows]]
    BY DEF Inv, TypeOK, Rows
  <2> DEFINE f == [d \in Batch |-> HeldIn(alloc[d][l], "FROZEN")]
             g == [d \in Batch |-> HeldIn(alloc'[d][l], "FROZEN")]
  <2>2. Summable(f, Batch) /\ Summable(g, Batch)
    BY <2>1, HeldTyped, PackingAssumption DEF Summable
  <2>3. HeldByAll(l, "FROZEN") = SumOver(f, Batch) /\ HeldByAll(l, "FROZEN")' = SumOver(g, Batch)
    BY DEF HeldByAll, Held, HeldIn, Sum
  <2> HIDE DEF f, g
  <2> QED
    BY <2>2, <2>3, SumType
<1>2. ASSUME alloc' = alloc, packed' = packed
      PROVE  packed'[l] - packed[l] = HeldByAll(l, "FROZEN")' - HeldByAll(l, "FROZEN")
  BY <1>0, <1>1, <1>2, HeldByAllSame
<1>3. ASSUME NEW b \in Batch, Refilled(b) \/ Completed(b) \/ Cancelled(b)
      PROVE  packed'[l] - packed[l] = HeldByAll(l, "FROZEN")' - HeldByAll(l, "FROZEN")
  <2>1. OnlyBatch(b) /\ status[b] \in OpenStatuses
    BY <1>3 DEF Refilled, Completed, Cancelled
  <2>2. Held(b, l, "FROZEN") = 0
    BY <2>1 DEF Inv, AllocationsMatchBoxes, OpenStatuses
  <2>3. /\ Held(b, l, "FROZEN")' \in Nat
        /\ HeldByAll(l, "FROZEN")' = HeldByAll(l, "FROZEN") - Held(b, l, "FROZEN") + Held(b, l, "FROZEN")'
    BY <2>1, HeldByAllStep
  <2>4. packed'[l] = packed[l] + Held(b, l, "FROZEN")'
    <3>1. CASE Refilled(b) \/ Cancelled(b)
      BY <1>0, <3>1 DEF Refilled, Cancelled
    <3>2. CASE Completed(b)
      BY <3>2 DEF Completed
    <3> QED
      BY <1>3, <3>1, <3>2
  <2> QED
    BY <1>0, <1>1, <2>2, <2>3, <2>4
<1>4. ASSUME NEW c \in Change, NEW a \in Actor, NEW b \in Batch,
             ApproveChange(c, a), b = change[c].batch, Replaced(b)
      PROVE  \/ packed'[l] - packed[l] = HeldByAll(l, "FROZEN")' - HeldByAll(l, "FROZEN")
             \/ /\ packed'[l] = packed[l]
                /\ HeldByAll(l, "FROZEN")' > HeldByAll(l, "FROZEN")
                /\ Total(boxes[b], l) = 0 /\ Total(boxes'[b], l) > 0
  <2>1. OnlyBatch(b) /\ status[b] = "COMPLETED"
    BY <1>4 DEF Replaced
  <2>2. Held(b, l, "FROZEN") = Total(boxes[b], l)
    BY <2>1 DEF Inv, AllocationsMatchBoxes
  <2>3. /\ Held(b, l, "FROZEN") \in Nat /\ Held(b, l, "FROZEN")' \in Nat
        /\ HeldByAll(l, "FROZEN")' = HeldByAll(l, "FROZEN") - Held(b, l, "FROZEN") + Held(b, l, "FROZEN")'
    BY <2>1, HeldByAllStep
  <2>4. /\ Held(b, l, "FROZEN")' = Total(boxes'[b], l)
        /\ packed'[l] = IF Total(boxes[b], l) > 0
                        THEN packed[l] + Total(boxes'[b], l) - Total(boxes[b], l)
                        ELSE packed[l]
    BY <1>4 DEF Replaced
  <2> QED
    BY <1>0, <1>1, <2>2, <2>3, <2>4
<1>5. CASE Next
  <2>1. ASSUME NEW b \in Batch, Created(b) PROVE alloc' = alloc /\ packed' = packed
    BY <2>1 DEF Created
  <2>2. ASSUME NEW b \in Batch, NEW n \in 1..MaxBoxes, Handed(b, n)
        PROVE  alloc' = alloc /\ packed' = packed
    BY <2>2 DEF Handed
  <2>3. ASSUME Requested PROVE alloc' = alloc /\ packed' = packed
    BY <2>3 DEF Requested
  <2> QED
    BY <1>0, <1>1, <1>2, <1>3, <1>4, <1>5, <2>1, <2>2, <2>3, StepCases
<1>6. CASE UNCHANGED vars
  BY <1>0, <1>1, <1>2, <1>6 DEF vars
<1> QED
  BY <1>5, <1>6

\* The packed quantity of a line never counts a unit that no completed batch has
\* frozen (_freeze_batch_allocations, _replace_completed_layout).
THEOREM PackedNeverOverstatedHolds == Spec => []PackedNeverOverstated
<1>1. Init => PackedNeverOverstated
  BY HeldByNone DEF Init, PackedNeverOverstated
<1>2. ASSUME Inv, Inv', PackedNeverOverstated, [Next]_vars PROVE PackedNeverOverstated'
  <2> SUFFICES ASSUME NEW l \in Line PROVE packed'[l] <= HeldByAll(l, "FROZEN")'
    BY DEF PackedNeverOverstated
  <2>1. packed[l] <= HeldByAll(l, "FROZEN")
    BY <1>2 DEF PackedNeverOverstated
  <2> QED
    BY <1>2, <2>1, PackedStep
<1> QED
  BY <1>1, <1>2, BaseInvariant, PTL DEF Spec

\* The corrections that the ledger follows: they bring in no line that the batch
\* did not hold before.
KeepsLines ==
    \A c \in Change, a \in Actor :
        ApproveChange(c, a) =>
            \A l \in Line : LayoutTotal(change[c].layout, l) > 0 =>
                               Total(boxes[change[c].batch], l) > 0

LEMMA LinesKept ==
    ASSUME Inv, NEW c \in Change, NEW a \in Actor, ApproveChange(c, a),
           NEW b \in Batch, b = change[c].batch, KeepsLines, NEW l \in Line,
           Total(boxes'[b], l) > 0
    PROVE  Total(boxes[b], l) > 0
<1>1. boxes'[b] = [n \in DOMAIN change[c].layout |->
                      [content |-> change[c].layout[n], slot |-> "UNUSED"]]
  BY DEF ApproveChange, ReplaceLayout, Inv, TypeOK
<1>2. Total(boxes'[b], l) = LayoutTotal(change[c].layout, l)
  BY <1>1, TotalOfLayout
<1> QED
  BY <1>2 DEF KeepsLines

\* As long as no correction brings a new line into a batch, the packed quantity is
\* exactly what the completed batches have frozen.
THEOREM PackedMatchesFrozenHolds == Spec /\ [][KeepsLines]_vars => []PackedMatchesFrozen
<1>1. Init => PackedMatchesFrozen
  BY HeldByNone DEF Init, PackedMatchesFrozen
<1>2. ASSUME Inv, Inv', PackedMatchesFrozen, [Next]_vars, [KeepsLines]_vars
      PROVE  PackedMatchesFrozen'
  <2> SUFFICES ASSUME NEW l \in Line PROVE packed'[l] = HeldByAll(l, "FROZEN")'
    BY DEF PackedMatchesFrozen
  <2>1. packed[l] = HeldByAll(l, "FROZEN")
    BY <1>2 DEF PackedMatchesFrozen
  <2>2. /\ packed[l] \in Nat /\ packed'[l] \in Nat
        /\ HeldByAll(l, "FROZEN") \in Nat /\ HeldByAll(l, "FROZEN")' \in Nat
    BY <1>2, PackedStep
  <2>3. CASE KeepsLines
    <3>1. \A c \in Change, a \in Actor, b \in Batch :
              ApproveChange(c, a) /\ b = change[c].batch /\ Total(boxes'[b], l) > 0
                  => ~(Total(boxes[b], l) = 0)
      BY <1>2, <2>3, LinesKept
    <3>2. packed'[l] - packed[l] = HeldByAll(l, "FROZEN")' - HeldByAll(l, "FROZEN")
      BY <1>2, <3>1, PackedStep
    <3> QED
      BY <2>1, <2>2, <3>2
  <2>4. CASE UNCHANGED vars
    BY <2>1, <2>4, HeldByAllSame DEF vars
  <2> QED
    BY <1>2, <2>3, <2>4
<1> QED
  BY <1>1, <1>2, BaseInvariant, PTL DEF Spec

\* Reserved and packed together stay within what was produced.
WithinProduced == \A l \in Line : reserved[l] + packed[l] <= Produced[l]

LEMMA WithinProducedStep ==
    ASSUME Inv, Inv', WithinProduced, [Next]_vars PROVE WithinProduced'
<1> SUFFICES ASSUME NEW l \in Line PROVE reserved'[l] + packed'[l] <= Produced[l]
  BY DEF WithinProduced
<1>0. /\ reserved[l] + packed[l] <= Produced[l] /\ Produced[l] \in Nat
      /\ reserved[l] \in Nat /\ packed[l] \in Nat /\ reserved'[l] \in Nat /\ packed'[l] \in Nat
  BY PackingAssumption DEF WithinProduced, Inv, TypeOK
<1>1. ASSUME reserved' = reserved, packed' = packed
      PROVE  reserved'[l] + packed'[l] <= Produced[l]
  BY <1>0, <1>1
<1>2. ASSUME NEW b \in Batch, Refilled(b) PROVE reserved'[l] + packed'[l] <= Produced[l]
  <2>1. packed'[l] = packed[l] /\ (reserved'[l] > reserved[l] => reserved'[l] + packed[l] <= Produced[l])
    BY <1>2 DEF Refilled
  <2> QED
    BY <1>0, <2>1
<1>3. ASSUME NEW b \in Batch, Completed(b) \/ Cancelled(b)
      PROVE  reserved'[l] + packed'[l] <= Produced[l]
  <2>1. OnlyBatch(b)
    BY <1>3 DEF Completed, Cancelled
  <2>2. Held(b, l, "RESERVED") \in Nat
    BY <2>1, HeldByAllStep
  <2>3. reserved'[l] = reserved[l] - Held(b, l, "RESERVED")
    BY <1>3 DEF Completed, Cancelled
  <2>4. packed'[l] > packed[l] => reserved'[l] + packed'[l] <= Produced[l]
    BY <1>0, <1>3 DEF Completed, Cancelled
  <2> QED
    BY <1>0, <2>2, <2>3, <2>4
<1>4. ASSUME NEW b \in Batch, Replaced(b) PROVE reserved'[l] + packed'[l] <= Produced[l]
  <2>1. reserved'[l] = reserved[l] /\ (packed'[l] > packed[l] => reserved[l] + packed'[l] <= Produced[l])
    BY <1>4 DEF Replaced
  <2> QED
    BY <1>0, <2>1
<1>5. CASE Next
  BY <1>1, <1>2, <1>3, <1>4, <1>5, StepCases DEF Created, Handed, Requested
<1>6. CASE UNCHANGED vars
  BY <1>1, <1>6 DEF vars
<1> QED
  BY <1>5, <1>6

LEMMA WithinProducedHolds == Spec => []WithinProduced
<1>1. Init => WithinProduced
  BY PackingAssumption DEF Init, WithinProduced
<1> QED
  BY <1>1, WithinProducedStep, BaseInvariant, PTL DEF Spec

-----------------------------------------------------------------------------
(* Boxes and what is shipped of them. *)

\* A box while a consumer holds it is neither changed nor deleted
\* (_replace_completed_layout, and the guards of the filling operations).
THEOREM ConsumedBoxKeptHolds == Spec => ConsumedBoxKept
<1>1. ASSUME Inv, [Next]_vars, NEW b \in Batch, NEW n \in DOMAIN boxes[b],
             boxes[b][n].slot \in ActiveSlots
      PROVE  n \in DOMAIN boxes'[b] /\ boxes'[b][n].content = boxes[b][n].content
  <2>1. boxes[b][n].slot # "UNUSED"
    BY <1>1 DEF ActiveSlots
  <2>2. ASSUME NEW d \in Batch, Created(d) \/ Refilled(d) \/ Completed(d) \/ Cancelled(d) \/ Replaced(d)
        PROVE  boxes'[b] = boxes[b]
    <3>1. OnlyBatch(d)
      BY <2>2 DEF Created, Refilled, Completed, Cancelled, Replaced
    <3>2. CASE d # b
      BY <3>1, <3>2 DEF OnlyBatch
    <3>3. CASE d = b
      <4>1. ~AllUnused(boxes[b])
        BY <2>1 DEF AllUnused
      <4>2. Refilled(d) => AllUnused(boxes[d])
        BY <1>1, OpenBoxes DEF Refilled
      <4>3. ~Refilled(d) /\ ~Replaced(d)
        BY <3>3, <4>1, <4>2 DEF Replaced
      <4> QED
        BY <2>2, <4>3 DEF Created, Completed, Cancelled
    <3> QED
      BY <3>2, <3>3
  <2>3. ASSUME NEW d \in Batch, NEW m \in 1..MaxBoxes, Handed(d, m)
        PROVE  n \in DOMAIN boxes'[b] /\ boxes'[b][n].content = boxes[b][n].content
    BY <2>3, HandedTotals
  <2>4. CASE Next
    BY <1>1, <2>2, <2>3, <2>4, StepCases DEF Requested
  <2>5. CASE UNCHANGED vars
    BY <2>5 DEF vars
  <2> QED
    BY <1>1, <2>4, <2>5
<1>2. Inv /\ [Next]_vars =>
          [\A b \in Batch : \A n \in DOMAIN boxes[b] :
              boxes[b][n].slot \in ActiveSlots =>
                  /\ n \in DOMAIN boxes'[b]
                  /\ boxes'[b][n].content = boxes[b][n].content]_vars
  BY <1>1
<1> QED
  BY <1>2, BaseInvariant, PTL DEF Spec, ConsumedBoxKept

\* The share of box p[2] of batch p[1] in what the boxes bs hold of a line.
Part(bs, p, l, slots) ==
    IF p[2] \in DOMAIN bs[p[1]] /\ bs[p[1]][p[2]].slot \in slots
    THEN bs[p[1]][p[2]].content[l] ELSE 0

Parts(bs, batches, l, slots) == [p \in batches \X (1..MaxBoxes) |-> Part(bs, p, l, slots)]

LEMMA BoxedIsParts ==
    ASSUME NEW l, NEW B, NEW slots
    PROVE  /\ Boxed(l, B, slots) = SumOver(Parts(boxes, B, l, slots), B \X (1..MaxBoxes))
           /\ Boxed(l, B, slots)' = SumOver(Parts(boxes', B, l, slots), B \X (1..MaxBoxes))
BY DEF Boxed, Sum, Parts, Part

BoxesTyped(bs) ==
    \A b \in Batch : DOMAIN bs[b] \subseteq 1..MaxBoxes /\ \A n \in DOMAIN bs[b] : bs[b][n] \in BoxRecord

LEMMA PartsTyped ==
    ASSUME NEW bs, BoxesTyped(bs), NEW l \in Line, NEW B \in SUBSET Batch, NEW slots
    PROVE  Summable(Parts(bs, B, l, slots), B \X (1..MaxBoxes))
<1>1. \A p \in B \X (1..MaxBoxes) : Parts(bs, B, l, slots)[p] \in Nat
  <2> SUFFICES ASSUME NEW p \in B \X (1..MaxBoxes) PROVE Part(bs, p, l, slots) \in Nat
    BY DEF Parts
  <2>1. p[1] \in Batch
    OBVIOUS
  <2>2. CASE p[2] \in DOMAIN bs[p[1]]
    <3>1. bs[p[1]][p[2]].content \in Content
      BY <2>1, <2>2 DEF BoxesTyped, BoxRecord
    <3> QED
      BY <3>1, ContentTyped DEF Part
  <2>3. CASE p[2] \notin DOMAIN bs[p[1]]
    BY <2>3 DEF Part
  <2> QED
    BY <2>2, <2>3
<1>2. IsFiniteSet(B \X (1..MaxBoxes))
  <2>1. IsFiniteSet(B)
    BY PackingAssumption, FS_Subset, Zenon
  <2>2. IsFiniteSet(1..MaxBoxes)
    BY PackingAssumption, FS_Interval
  <2> QED
    BY <2>1, <2>2, FS_Product, Zenon
<1> QED
  BY <1>1, <1>2 DEF Summable

Sent == {"SHIP_COMMITTED"}

\* Boxes none of which a shipment has committed, before and after, ship nothing.
LEMMA UnsentSame ==
    ASSUME Inv, NEW l \in Line,
           \A d \in Batch : \/ boxes'[d] = boxes[d]
                            \/ AllUnused(boxes[d]) /\ AllUnused(boxes'[d])
    PROVE  Boxed(l, Batch, Sent)' = Boxed(l, Batch, Sent)
<1> DEFINE S == Batch \X (1..MaxBoxes)
<1>1. \A p \in S : Part(boxes', p, l, Sent) = Part(boxes, p, l, Sent)
  <2> SUFFICES ASSUME NEW d \in Batch, NEW n \in 1..MaxBoxes
               PROVE  Part(boxes', <<d, n>>, l, Sent) = Part(boxes, <<d, n>>, l, Sent)
    OBVIOUS
  <2>1. CASE boxes'[d] = boxes[d]
    BY <2>1 DEF Part
  <2>2. CASE AllUnused(boxes[d]) /\ AllUnused(boxes'[d])
    BY <2>2 DEF Part, AllUnused, Sent
  <2> QED
    BY <2>1, <2>2
<1>2. Parts(boxes', Batch, l, Sent) = Parts(boxes, Batch, l, Sent)
  BY <1>1 DEF Parts
<1>3. /\ Boxed(l, Batch, Sent) = SumOver(Parts(boxes, Batch, l, Sent), S)
      /\ Boxed(l, Batch, Sent)' = SumOver(Parts(boxes', Batch, l, Sent), S)
  BY BoxedIsParts
<1> QED
  BY <1>2, <1>3

\* Handing a box over ships it when a shipment commits it, and then only.
LEMMA HandedShips ==
    ASSUME Inv, Inv', NEW b \in Batch, NEW n \in 1..MaxBoxes, ConsumeBox(b, n), NEW l \in Line,
           shipped[l] = Boxed(l, Batch, Sent)
    PROVE  shipped'[l] = Boxed(l, Batch, Sent)'
<1> DEFINE S == Batch \X (1..MaxBoxes)
           f == Parts(boxes, Batch, l, Sent)
           g == Parts(boxes', Batch, l, Sent)
           i == <<b, n>>
<1>0. i \in S /\ BoxesTyped(boxes) /\ BoxesTyped(boxes')
  BY DEF Inv, TypeOK, BoxesTyped
<1>1. Summable(f, S) /\ Summable(g, S)
  BY <1>0, PartsTyped
<1>2. SumOver(f, S) = shipped[l] /\ SumOver(g, S) = Boxed(l, Batch, Sent)'
  BY BoxedIsParts
<1>3. Handed(b, n)
  BY ConsumeBoxHands
<1>4. \A p \in S \ {i} : g[p] = f[p]
  <2> SUFFICES ASSUME NEW d \in Batch, NEW m \in 1..MaxBoxes, <<d, m>> # i
               PROVE  Part(boxes', <<d, m>>, l, Sent) = Part(boxes, <<d, m>>, l, Sent)
    BY DEF Parts
  <2>1. CASE d # b
    BY <1>3, <2>1 DEF Handed, Part
  <2>2. CASE d = b /\ m # n
    BY <1>3, <2>2 DEF Handed, Part
  <2> QED
    BY <2>1, <2>2
<1>5. f[i] = Part(boxes, i, l, Sent) /\ g[i] = Part(boxes', i, l, Sent)
  BY <1>0 DEF Parts
<1>6. SumOver(g, S) = SumOver(f, S) - f[i] + g[i]
  BY <1>0, <1>1, <1>4, SumChange
<1>7. f[i] \in Nat /\ g[i] \in Nat /\ shipped[l] \in Nat
  BY <1>0, <1>1 DEF Summable, Inv, TypeOK
<1> HIDE DEF f, g, S
<1>8. n \in DOMAIN boxes[b] /\ boxes'[b][n].content = boxes[b][n].content
  BY <1>3 DEF Handed
<1>9. CASE CommitShipment(b, n)
  <2>1. /\ boxes[b][n].slot = "SHIP_RESERVED"
        /\ shipped'[l] = shipped[l] + boxes[b][n].content[l]
    BY <1>9 DEF CommitShipment
  <2>2. boxes'[b][n].slot = "SHIP_COMMITTED" /\ n \in DOMAIN boxes'[b]
    BY <1>8, <1>9 DEF CommitShipment, SetSlot, Inv, TypeOK
  <2>3. Part(boxes, i, l, Sent) = 0 /\ Part(boxes', i, l, Sent) = boxes[b][n].content[l]
    BY <1>8, <2>1, <2>2 DEF Part, Sent
  <2> QED
    BY <1>2, <1>5, <1>6, <1>7, <2>1, <2>3
<1>10. CASE ~CommitShipment(b, n)
  <2>1. shipped' = shipped
    BY <1>10 DEF ConsumeBox, ReserveBox, CommitConsolidation, ReleaseBox, TransferBox
  <2>2. boxes[b][n].slot # "SHIP_COMMITTED"
    BY <1>10 DEF ConsumeBox, ReserveBox, CommitConsolidation, ReleaseBox, TransferBox
  <2>3. PICK s \in AnySlot : s # "SHIP_COMMITTED" /\ SetSlot(b, n, s)
    BY <1>10 DEF ConsumeBox, ReserveBox, CommitConsolidation, ReleaseBox, TransferBox,
                 AnySlot, ActiveSlots
  <2>4. boxes'[b][n].slot # "SHIP_COMMITTED"
    BY <1>8, <2>3 DEF SetSlot, Inv, TypeOK, BoxRecord
  <2>5. Part(boxes, i, l, Sent) = 0 /\ Part(boxes', i, l, Sent) = 0
    BY <2>2, <2>4 DEF Part, Sent
  <2> QED
    BY <1>2, <1>5, <1>6, <1>7, <2>1, <2>5
<1> QED
  BY <1>9, <1>10

\* A unit is shipped once, with the box that a shipment has committed
\* (commit_box_consumption).
THEOREM ShippedMatchesBoxesHolds == Spec => []ShippedMatchesBoxes
<1>1. Init => ShippedMatchesBoxes
  <2> SUFFICES ASSUME Init, NEW l \in Line PROVE shipped[l] = Boxed(l, Batch, Sent)
    BY DEF ShippedMatchesBoxes, Sent
  <2>1. \A p \in Batch \X (1..MaxBoxes) : Parts(boxes, Batch, l, Sent)[p] = 0
    BY DEF Init, Parts, Part
  <2>3. SumOver(Parts(boxes, Batch, l, Sent), Batch \X (1..MaxBoxes)) = 0
    BY <2>1, SumZero, Zenon
  <2>2. Boxed(l, Batch, Sent) = 0
    BY <2>3, BoxedIsParts
  <2> QED
    BY <2>2 DEF Init
<1>2. ASSUME Inv, Inv', ShippedMatchesBoxes, [Next]_vars PROVE ShippedMatchesBoxes'
  <2> SUFFICES ASSUME NEW l \in Line PROVE shipped'[l] = Boxed(l, Batch, Sent)'
    BY DEF ShippedMatchesBoxes, Sent
  <2>0. shipped[l] = Boxed(l, Batch, Sent)
    BY <1>2 DEF ShippedMatchesBoxes, Sent
  <2>1. ASSUME NEW d \in Batch, Created(d) \/ Refilled(d) \/ Completed(d) \/ Cancelled(d) \/ Replaced(d)
        PROVE  shipped'[l] = Boxed(l, Batch, Sent)'
    <3>1. OnlyBatch(d) /\ shipped' = shipped
      BY <2>1 DEF Created, Refilled, Completed, Cancelled, Replaced
    <3>2. \/ boxes'[d] = boxes[d]
          \/ AllUnused(boxes[d]) /\ AllUnused(boxes'[d])
      <4>1. CASE Refilled(d)
        BY <1>2, <4>1, OpenBoxes DEF Refilled
      <4>2. CASE Replaced(d)
        BY <4>2 DEF Replaced
      <4>3. CASE Created(d) \/ Completed(d) \/ Cancelled(d)
        BY <4>3 DEF Created, Completed, Cancelled
      <4> QED
        BY <2>1, <4>1, <4>2, <4>3
    <3>3. \A e \in Batch : \/ boxes'[e] = boxes[e]
                           \/ AllUnused(boxes[e]) /\ AllUnused(boxes'[e])
      BY <3>1, <3>2 DEF OnlyBatch
    <3> QED
      BY <1>2, <2>0, <3>1, <3>3, UnsentSame
  <2>2. ASSUME NEW b \in Batch, NEW n \in 1..MaxBoxes, ConsumeBox(b, n)
        PROVE  shipped'[l] = Boxed(l, Batch, Sent)'
    BY <1>2, <2>0, <2>2, HandedShips
  <2>3. ASSUME boxes' = boxes, shipped' = shipped PROVE shipped'[l] = Boxed(l, Batch, Sent)'
    BY <1>2, <2>0, <2>3, UnsentSame
  <2>4. CASE Next
    BY <1>2, <2>1, <2>2, <2>3, <2>4, StepCases DEF Requested
  <2>5. CASE UNCHANGED vars
    BY <2>3, <2>5 DEF vars
  <2> QED
    BY <1>2, <2>4, <2>5
<1> QED
  BY <1>1, <1>2, BaseInvariant, PTL DEF Spec

-----------------------------------------------------------------------------
(* Changes and versions. *)

\* A pending change was submitted no later than the batch's version, and an
\* approved one has left the version it was submitted against behind.
ChangesBehind ==
    \A c \in Change :
        /\ change[c].status = "APPROVED" => change[c].expected < version[change[c].batch]
        /\ change[c].status = "PENDING" => change[c].expected <= version[change[c].batch]

\* The versions of batches only grow.
LEMMA VersionsGrow ==
    ASSUME Inv, [Next]_vars, NEW b \in Batch
    PROVE  version[b] \in Nat /\ version'[b] \in Nat /\ version'[b] >= version[b]
<1>0. version[b] \in Nat
  BY PackingAssumption DEF Inv, TypeOK
<1>1. ASSUME NEW d \in Batch, OnlyBatch(d)
      PROVE  version'[b] \in Nat /\ version'[b] >= version[b]
  <2>1. version' \in [Batch -> 0..MaxVersion] /\ version'[d] >= version[d]
    BY <1>1 DEF OnlyBatch
  <2>2. version'[b] \in Nat
    BY <2>1, PackingAssumption
  <2>3. d # b => version'[b] = version[b]
    BY <1>1 DEF OnlyBatch
  <2> QED
    BY <1>0, <2>1, <2>2, <2>3
<1>2. ASSUME version' = version PROVE version'[b] \in Nat /\ version'[b] >= version[b]
  BY <1>0, <1>2
<1>3. CASE Next
  <2>1. ASSUME NEW d \in Batch, Created(d) \/ Refilled(d) \/ Completed(d) \/ Cancelled(d) \/ Replaced(d)
        PROVE  OnlyBatch(d)
    BY <2>1 DEF Created, Refilled, Completed, Cancelled, Replaced
  <2> QED
    BY <1>0, <1>1, <1>2, <1>3, <2>1, StepCases DEF Handed, Requested
<1>4. CASE UNCHANGED vars
  BY <1>2, <1>4 DEF vars
<1> QED
  BY <1>0, <1>1, <1>2, <1>3, <1>4

\* A change gets its status as the version of its batch moves on.
LEMMA ChangeSteps ==
    ASSUME Inv, [Next]_vars, NEW c \in Change
    PROVE  \/ change'[c] = change[c]
           \/ /\ change'[c].status = "PENDING" /\ change'[c].batch \in Batch
              /\ change'[c].expected = version[change'[c].batch]
           \/ /\ change[c].status = "PENDING" /\ change'[c].status = "APPROVED"
              /\ change'[c].batch = change[c].batch /\ change[c].batch \in Batch
              /\ change'[c].expected = change[c].expected
              /\ change[c].expected = version[change[c].batch]
              /\ version'[change[c].batch] > version[change[c].batch]
           \/ change'[c].status = "REJECTED"
<1> DEFINE Request == [status : {"PENDING", "APPROVED", "REJECTED"}, batch : Batch,
                       expected : 1..MaxVersion, layout : Layout, submitter : Actor]
<1>0. DOMAIN change = Change /\ \A d \in Change : change[d] = NoChange \/ change[d] \in Request
  BY DEF Inv, TypeOK
<1>1. ASSUME NEW d \in Change, NEW b \in Batch, NEW y \in Layout, NEW a \in Actor,
             SubmitChange(d, b, y, a)
      PROVE  \/ change'[c] = change[c]
             \/ /\ change'[c].status = "PENDING" /\ change'[c].batch \in Batch
                /\ change'[c].expected = version[change'[c].batch]
  BY <1>0, <1>1 DEF SubmitChange
<1>2. ASSUME NEW d \in Change, NEW a \in Actor, RejectChange(d, a)
      PROVE  change'[c] = change[c] \/ change'[c].status = "REJECTED"
  <2>1. change[d] \in Request
    BY <1>0, <1>2 DEF RejectChange
  <2> QED
    BY <1>0, <1>2, <2>1 DEF RejectChange
<1>3. ASSUME NEW d \in Change, NEW a \in Actor, ApproveChange(d, a),
             Replaced(change[d].batch)
      PROVE  \/ change'[c] = change[c]
             \/ /\ change[c].status = "PENDING" /\ change'[c].status = "APPROVED"
                /\ change'[c].batch = change[c].batch /\ change[c].batch \in Batch
                /\ change'[c].expected = change[c].expected
                /\ change[c].expected = version[change[c].batch]
                /\ version'[change[c].batch] > version[change[c].batch]
  <2>1. change[d] \in Request
    BY <1>0, <1>3 DEF ApproveChange
  <2>2. change' = [change EXCEPT ![d].status = "APPROVED"]
    BY <1>3 DEF ApproveChange
  <2>3. CASE c # d
    BY <1>0, <2>2, <2>3
  <2>4. CASE c = d
    <3>1. change'[d] = [change[d] EXCEPT !.status = "APPROVED"]
      BY <1>0, <2>2
    <3>2. /\ change'[d].status = "APPROVED" /\ change'[d].batch = change[d].batch
          /\ change'[d].expected = change[d].expected /\ change[d].batch \in Batch
      BY <2>1, <3>1
    <3>3. change[d].status = "PENDING" /\ change[d].expected = version[change[d].batch]
      BY <1>3 DEF ApproveChange, ChangeIsCurrent
    <3>4. version'[change[d].batch] > version[change[d].batch]
      BY <1>3 DEF Replaced
    <3> QED
      BY <2>4, <3>2, <3>3, <3>4
  <2> QED
    BY <2>3, <2>4
<1>4. ASSUME change' = change PROVE change'[c] = change[c]
  BY <1>4
<1>5. CASE Next
  <2>1. ASSUME NEW d \in Batch, \/ Created(d) \/ Refilled(d) \/ Completed(d) \/ Cancelled(d)
                                \/ \E n \in 1..MaxBoxes : Handed(d, n)
        PROVE  change' = change
    BY <2>1 DEF Created, Refilled, Completed, Cancelled, Handed
  <2> QED
    BY <1>1, <1>2, <1>3, <1>4, <1>5, <2>1, StepCases
<1>6. CASE UNCHANGED vars
  BY <1>4, <1>6 DEF vars
<1> QED
  BY <1>5, <1>6

LEMMA ChangesBehindStep ==
    ASSUME Inv, ChangesBehind, [Next]_vars PROVE ChangesBehind'
<1> DEFINE Request == [status : {"PENDING", "APPROVED", "REJECTED"}, batch : Batch,
                       expected : 1..MaxVersion, layout : Layout, submitter : Actor]
<1> SUFFICES ASSUME NEW c \in Change
             PROVE  /\ change'[c].status = "APPROVED" =>
                           change'[c].expected < version'[change'[c].batch]
                    /\ change'[c].status = "PENDING" =>
                           change'[c].expected <= version'[change'[c].batch]
  BY DEF ChangesBehind
<1>0. /\ change[c].status = "APPROVED" => change[c].expected < version[change[c].batch]
      /\ change[c].status = "PENDING" => change[c].expected <= version[change[c].batch]
      /\ change[c] = NoChange \/ change[c] \in Request
  BY DEF ChangesBehind, Inv, TypeOK
<1>1. CASE change'[c] = change[c] /\ change[c] = NoChange
  BY <1>1 DEF NoChange
<1>2. CASE change'[c] = change[c] /\ change[c] \in Request
  <2>1. change[c].batch \in Batch /\ change[c].expected \in Nat
    BY <1>2, PackingAssumption
  <2>2. /\ version[change[c].batch] \in Nat /\ version'[change[c].batch] \in Nat
        /\ version'[change[c].batch] >= version[change[c].batch]
    BY <2>1, VersionsGrow
  <2> QED
    BY <1>0, <1>2, <2>1, <2>2
<1>3. CASE /\ change'[c].status = "PENDING" /\ change'[c].batch \in Batch
           /\ change'[c].expected = version[change'[c].batch]
  BY <1>3, VersionsGrow
<1>4. CASE /\ change[c].status = "PENDING" /\ change'[c].status = "APPROVED"
           /\ change'[c].batch = change[c].batch /\ change[c].batch \in Batch
           /\ change'[c].expected = change[c].expected
           /\ change[c].expected = version[change[c].batch]
           /\ version'[change[c].batch] > version[change[c].batch]
  BY <1>4, VersionsGrow
<1>5. CASE change'[c].status = "REJECTED"
  BY <1>5
<1> QED
  BY <1>0, <1>1, <1>2, <1>3, <1>4, <1>5, ChangeSteps

\* A step approves one change at most.
LEMMA OneChange ==
    ASSUME Inv, [Next]_vars, NEW c \in Change, NEW d \in Change, c # d
    PROVE  change'[c] = change[c] \/ change'[d] = change[d]
<1>0. DOMAIN change = Change
  BY DEF Inv, TypeOK
<1>1. ASSUME NEW e \in Change, NEW v, change' = [change EXCEPT ![e] = v]
      PROVE  change'[c] = change[c] \/ change'[d] = change[d]
  BY <1>0, <1>1
<1>2. ASSUME change' = change PROVE change'[c] = change[c]
  BY <1>2
<1>3. CASE Next
  <2>1. ASSUME NEW b \in Batch, \/ Created(b) \/ Refilled(b) \/ Completed(b) \/ Cancelled(b)
                                \/ \E n \in 1..MaxBoxes : Handed(b, n)
        PROVE  change' = change
    BY <2>1 DEF Created, Refilled, Completed, Cancelled, Handed
  <2>2. ASSUME NEW e \in Change, NEW b \in Batch, NEW y \in Layout, NEW a \in Actor,
               SubmitChange(e, b, y, a)
        PROVE  \E v : change' = [change EXCEPT ![e] = v]
    BY <2>2 DEF SubmitChange
  <2>3. ASSUME NEW e \in Change, NEW a \in Actor, ApproveChange(e, a) \/ RejectChange(e, a)
        PROVE  \E v : change' = [change EXCEPT ![e] = v]
    BY <2>3 DEF ApproveChange, RejectChange
  <2> QED
    BY <1>1, <1>2, <1>3, <2>1, <2>2, <2>3, StepCases
<1>4. CASE UNCHANGED vars
  BY <1>2, <1>4 DEF vars
<1> QED
  BY <1>3, <1>4

\* An approval moves the version on, so a change that was submitted against the
\* same version as an approved one can only be rejected.
LEMMA AppliesOnceStep ==
    ASSUME Inv, ChangesBehind, ChangeAppliesOnce, [Next]_vars PROVE ChangeAppliesOnce'
<1> SUFFICES ASSUME NEW c \in Change, NEW d \in Change, c # d,
                    change'[c].status = "APPROVED", change'[d].status = "APPROVED",
                    change'[c].batch = change'[d].batch,
                    change'[c].expected = change'[d].expected
             PROVE  FALSE
  BY DEF ChangeAppliesOnce
<1> DEFINE Same(e) == change'[e] = change[e]
           Applied(e) ==
               /\ change[e].status = "PENDING" /\ change[e].batch \in Batch
               /\ change'[e].batch = change[e].batch /\ change'[e].expected = change[e].expected
               /\ change[e].expected = version[change[e].batch]
<1>1. \A e \in {c, d} : Same(e) \/ Applied(e)
  BY ChangeSteps
<1>2. \A e \in {c, d} : change[e].status = "APPROVED" => change[e].expected < version[change[e].batch]
  BY DEF ChangesBehind
<1>3. \A e \in {c, d} : Applied(e) => version[change[e].batch] \in Nat
  BY VersionsGrow
<1>4. ~(Same(c) /\ Same(d))
  BY DEF ChangeAppliesOnce
<1>5. ~(Applied(c) /\ Same(d))
  BY <1>2, <1>3
<1>6. ~(Same(c) /\ Applied(d))
  BY <1>2, <1>3
<1>7. ~(Applied(c) /\ Applied(d))
  <2>1. ASSUME change[c].status = "PENDING", change[d].status = "PENDING",
               change'[c].status = "APPROVED", change'[d].status = "APPROVED"
        PROVE  FALSE
    BY <2>1, OneChange
  <2> QED
    BY <2>1
<1> QED
  BY <1>1, <1>4, <1>5, <1>6, <1>7

\* Of the changes submitted against the same state of a batch one is applied at
\* most (approve_change_request and its version check).
THEOREM ChangeAppliesOnceHolds == Spec => []ChangeAppliesOnce
<1>1. Init => ChangesBehind /\ ChangeAppliesOnce
  BY DEF Init, ChangesBehind, ChangeAppliesOnce, NoChange
<1> QED
  BY <1>1, ChangesBehindStep, AppliesOnceStep, BaseInvariant, PTL DEF Spec

-----------------------------------------------------------------------------
(* Boxes of batches, and what the batches hold. *)

\* What the boxes of one batch hold is its share of a sum over boxes.
LEMMA BatchShare ==
    ASSUME BoxesTyped(boxes), NEW l \in Line, NEW B \in SUBSET Batch, NEW b \in B
    PROVE  SumOver(Parts(boxes, B, l, AnySlot), {b} \X (1..MaxBoxes)) = Total(boxes[b], l)
<1> DEFINE q == Parts(boxes, B, l, AnySlot)
           D == DOMAIN boxes[b]
           r == [n \in D |-> boxes[b][n].content[l]]
           h == [n \in D |-> <<b, n>>]
           R == {b} \X (1..MaxBoxes)
           T == {b} \X D
<1>1. D \subseteq 1..MaxBoxes /\ \A n \in D : boxes[b][n] \in BoxRecord
  BY DEF BoxesTyped
<1>2. \A n \in D : q[<<b, n>>] = r[n] /\ r[n] \in Nat
  <2> SUFFICES ASSUME NEW n \in D PROVE q[<<b, n>>] = r[n] /\ r[n] \in Nat
    OBVIOUS
  <2>1. boxes[b][n].slot \in AnySlot /\ boxes[b][n].content \in Content
    BY <1>1 DEF BoxRecord, AnySlot
  <2>2. q[<<b, n>>] = Part(boxes, <<b, n>>, l, AnySlot)
    BY <1>1 DEF Parts
  <2> QED
    BY <2>1, <2>2, ContentTyped DEF Part
<1>3. \A p \in R \ T : q[p] = 0
  <2> SUFFICES ASSUME NEW n \in 1..MaxBoxes, n \notin D PROVE q[<<b, n>>] = 0
    OBVIOUS
  <2> QED
    BY DEF Parts, Part
<1>4. Summable(q, R)
  <2>1. R \in SUBSET (B \X (1..MaxBoxes)) /\ Summable(q, B \X (1..MaxBoxes))
    BY PartsTyped
  <2>2. IsFiniteSet(R)
    BY <2>1, FS_Subset, Zenon DEF Summable
  <2> QED
    BY <2>1, <2>2 DEF Summable
<1>5. T \subseteq R
  BY <1>1
<1>6. Summable(r, D)
  <2>1. IsFiniteSet(1..MaxBoxes) /\ D \in SUBSET (1..MaxBoxes)
    BY <1>1, PackingAssumption, FS_Interval
  <2>2. IsFiniteSet(D)
    BY <2>1, FS_Subset, Zenon
  <2> QED
    BY <1>2, <2>2 DEF Summable
<1>7. /\ h \in [D -> T] /\ \A i, j \in D : h[i] = h[j] => i = j
      /\ \A t \in T : \E i \in D : h[i] = t
      /\ \A i \in D : q[h[i]] = r[i]
  <2>1. \A i \in D : h[i] = <<b, i>>
    OBVIOUS
  <2> HIDE DEF q, r
  <2> QED
    BY <1>2, <2>1
<1>8. Total(boxes[b], l) = SumOver(r, D)
  BY DEF Total, Sum
<1> HIDE DEF q, r, h, R, T, D
<1>9. SumOver(q, T) = SumOver(r, D)
  BY <1>6, <1>7, SumReindexed
<1>10. SumOver(q, R) = SumOver(q, T)
  BY <1>3, <1>4, <1>5, SumSupport
<1> QED
  BY <1>8, <1>9, <1>10 DEF q, R

\* The units in the boxes of some batches, batch by batch.
LEMMA BoxedByBatch ==
    ASSUME BoxesTyped(boxes), NEW l \in Line, NEW B \in SUBSET Batch
    PROVE  Boxed(l, B, AnySlot) = SumOver([b \in B |-> Total(boxes[b], l)], B)
<1> DEFINE q == Parts(boxes, B, l, AnySlot)
           S == B \X (1..MaxBoxes)
           g == [p \in S |-> p[1]]
           group == [b \in B |-> {b} \X (1..MaxBoxes)]
           t == [b \in B |-> Total(boxes[b], l)]
<1>1. Summable(q, S) /\ g \in [S -> B]
  BY PartsTyped
<1>2. \A b \in B : t[b] = SumOver(q, group[b])
  BY BatchShare
<1>3. Boxed(l, B, AnySlot) = SumOver(q, S)
  BY BoxedIsParts
<1>4. \A b \in B : \A p : p \in group[b] <=> p \in S /\ g[p] = b
  OBVIOUS
<1> HIDE DEF q, S, g, t, group
<1>5. SumOver(t, B) = SumOver(q, S)
  BY <1>1, <1>2, <1>4, SumByGroups
<1> QED
  BY <1>3, <1>5 DEF t

\* What some batches hold of a line is part of what all of them hold.
LEMMA HeldBySome ==
    ASSUME TypeOK, NEW l \in Line, NEW st \in {"RESERVED", "FROZEN"}, NEW B \in SUBSET Batch,
           NEW t, \A b \in B : t[b] = Held(b, l, st)
    PROVE  Summable(t, B) /\ SumOver(t, B) <= HeldByAll(l, st)
<1> DEFINE f == [b \in Batch |-> Held(b, l, st)]
<1>1. alloc \in [Batch -> [Line -> Rows]]
  BY DEF TypeOK, Rows
<1>2. \A b \in Batch : f[b] \in Nat
  BY <1>1, HeldTyped, HeldIsHeldIn
<1>3. Summable(f, Batch)
  BY <1>2, PackingAssumption DEF Summable
<1>4. IsFiniteSet(B)
  BY PackingAssumption, FS_Subset, Zenon
<1>5. Summable(t, B) /\ \A b \in B : t[b] <= f[b]
  BY <1>2, <1>4 DEF Summable
<1>6. HeldByAll(l, st) = SumOver(f, Batch)
  BY DEF HeldByAll, Sum
<1> HIDE DEF f
<1>7. SumOver(t, B) <= SumOver(f, Batch)
  BY <1>3, <1>5, SumMonotone
<1> QED
  BY <1>5, <1>6, <1>7

LEMMA BoxedTyped ==
    ASSUME BoxesTyped(boxes), NEW l \in Line, NEW B \in SUBSET Batch, NEW slots
    PROVE  Boxed(l, B, slots) \in Nat
<1>1. Summable(Parts(boxes, B, l, slots), B \X (1..MaxBoxes))
  BY PartsTyped
<1>2. Boxed(l, B, slots) = SumOver(Parts(boxes, B, l, slots), B \X (1..MaxBoxes))
  BY BoxedIsParts
<1> QED
  BY <1>1, <1>2, SumType

LEMMA HeldByAllTyped ==
    ASSUME Inv, NEW l \in Line, NEW st \in {"RESERVED", "FROZEN"}
    PROVE  HeldByAll(l, st) \in Nat
<1>1. alloc \in [Batch -> [Line -> Rows]]
  BY DEF Inv, TypeOK, Rows
<1> DEFINE f == [d \in Batch |-> Held(d, l, st)]
<1>2. Summable(f, Batch)
  BY <1>1, HeldTyped, HeldIsHeldIn, PackingAssumption DEF Summable
<1>3. HeldByAll(l, st) = SumOver(f, Batch)
  BY DEF HeldByAll, Sum
<1> HIDE DEF f
<1> QED
  BY <1>2, <1>3, SumType

\* What the boxes of some batches hold, when they hold what is reserved or frozen.
LEMMA BoxedIsHeld ==
    ASSUME Inv, NEW l \in Line, NEW st \in {"RESERVED", "FROZEN"}, NEW B \in SUBSET Batch,
           \A b \in B : Total(boxes[b], l) = Held(b, l, st)
    PROVE  /\ Summable([b \in B |-> Total(boxes[b], l)], B)
           /\ SumOver([b \in B |-> Total(boxes[b], l)], B) <= HeldByAll(l, st)
<1> DEFINE t == [b \in B |-> Total(boxes[b], l)]
<1>1. \A b \in B : t[b] = Held(b, l, st)
  OBVIOUS
<1>2. TypeOK
  BY DEF Inv
<1> HIDE DEF t
<1>3. Summable(t, B) /\ SumOver(t, B) <= HeldByAll(l, st)
  BY <1>1, <1>2, HeldBySome
<1> QED
  BY <1>3 DEF t

\* The boxes of the batches that are not cancelled hold what is reserved or frozen.
LEMMA LiveBoxes ==
    ASSUME Inv, NEW l \in Line, NEW B, B = {b \in Batch : status[b] # "CANCELLED"}
    PROVE  Boxed(l, B, AnySlot) <= HeldByAll(l, "RESERVED") + HeldByAll(l, "FROZEN")
<1> DEFINE Open == {b \in Batch : status[b] \in OpenStatuses}
           Closed == {b \in Batch : status[b] = "COMPLETED"}
           t == [b \in B |-> Total(boxes[b], l)]
           o == [b \in Open |-> Total(boxes[b], l)]
           c == [b \in Closed |-> Total(boxes[b], l)]
<1>1. BoxesTyped(boxes) /\ B \in SUBSET Batch
  BY DEF Inv, TypeOK, BoxesTyped
<1>2. Boxed(l, B, AnySlot) = SumOver(t, B)
  BY <1>1, BoxedByBatch
<1>3. Summable(t, B)
  <2>1. \A b \in B : t[b] \in Nat
    BY <1>1, TotalTyped DEF BoxesTyped, BoxSet
  <2>2. IsFiniteSet(B)
    BY <1>1, PackingAssumption, FS_Subset, Zenon
  <2> QED
    BY <2>1, <2>2 DEF Summable
<1>4. Open \cap Closed = {} /\ Open \cup Closed \subseteq B
  BY DEF OpenStatuses
<1>5. \A b \in B \ (Open \cup Closed) : t[b] = 0
  <2> SUFFICES ASSUME NEW b \in B, b \notin Open \cup Closed PROVE Total(boxes[b], l) = 0
    OBVIOUS
  <2>1. status[b] = "NONE"
    BY DEF Inv, TypeOK, OpenStatuses
  <2>2. DOMAIN boxes[b] = {}
    BY <2>1 DEF Inv, Started
  <2> QED
    BY <2>2, TotalOfNone
<1>6. Summable(o, Open) /\ SumOver(o, Open) <= HeldByAll(l, "RESERVED")
  <2>1. \A b \in Open : Total(boxes[b], l) = Held(b, l, "RESERVED")
    BY DEF Inv, AllocationsMatchBoxes, OpenStatuses
  <2> QED
    BY <2>1, BoxedIsHeld
<1>7. Summable(c, Closed) /\ SumOver(c, Closed) <= HeldByAll(l, "FROZEN")
  <2>1. \A b \in Closed : Total(boxes[b], l) = Held(b, l, "FROZEN")
    BY DEF Inv, AllocationsMatchBoxes
  <2> QED
    BY <2>1, BoxedIsHeld
<1>8. (\A b \in Open : t[b] = o[b]) /\ (\A b \in Closed : t[b] = c[b])
  BY <1>4
<1>9. HeldByAll(l, "RESERVED") \in Nat /\ HeldByAll(l, "FROZEN") \in Nat
  BY HeldByAllTyped
<1> HIDE DEF t, o, c, Open, Closed
<1>10. SumOver(t, B) = SumOver(t, Open \cup Closed)
  BY <1>3, <1>4, <1>5, SumSupport
<1>11. SumOver(t, Open) = SumOver(o, Open) /\ SumOver(t, Closed) = SumOver(c, Closed)
  BY <1>8, SumSame
<1>12. Summable(t, Open) /\ Summable(t, Closed)
  BY <1>6, <1>7, <1>8 DEF Summable
<1>13. SumOver(t, Open \cup Closed) = SumOver(t, Open) + SumOver(t, Closed)
  BY <1>4, <1>12, SumDisjoint
<1>14. SumOver(o, Open) \in Nat /\ SumOver(c, Closed) \in Nat
  BY <1>6, <1>7, SumType
<1>15. SumOver(t, B) = SumOver(o, Open) + SumOver(c, Closed)
  BY <1>10, <1>11, <1>13
<1> QED
  BY <1>2, <1>6, <1>7, <1>9, <1>14, <1>15

\* Batches that compete for a line never box more units than were produced, as
\* long as no correction brings a new line into a batch (_validate_quantities,
\* _refresh_batch_reservations, _replace_completed_layout).
THEOREM NeverBoxedTwiceHolds == Spec /\ [][KeepsLines]_vars => []NeverBoxedTwice
<1>1. ASSUME Inv, ReservationsBacked, PackedMatchesFrozen, WithinProduced
      PROVE  NeverBoxedTwice
  <2> DEFINE live == {b \in Batch : status[b] # "CANCELLED"}
  <2> SUFFICES ASSUME NEW l \in Line PROVE Boxed(l, live, AnySlot) <= Produced[l]
    BY DEF NeverBoxedTwice
  <2>1. Boxed(l, live, AnySlot) <= HeldByAll(l, "RESERVED") + HeldByAll(l, "FROZEN")
    BY <1>1, LiveBoxes
  <2>2. reserved[l] = HeldByAll(l, "RESERVED") /\ packed[l] = HeldByAll(l, "FROZEN")
    BY <1>1 DEF ReservationsBacked, PackedMatchesFrozen
  <2>3. reserved[l] + packed[l] <= Produced[l]
    BY <1>1 DEF WithinProduced
  <2>4. reserved[l] \in Nat /\ packed[l] \in Nat /\ Produced[l] \in Nat
    BY <1>1, PackingAssumption DEF Inv, TypeOK
  <2>5. Boxed(l, live, AnySlot) \in Nat
    <3>1. BoxesTyped(boxes) /\ live \in SUBSET Batch
      BY <1>1 DEF Inv, TypeOK, BoxesTyped
    <3> QED
      BY <3>1, BoxedTyped
  <2> QED
    BY <2>1, <2>2, <2>3, <2>4, <2>5
<1> QED
  BY <1>1, BaseInvariant, ReservationsBackedHolds, PackedMatchesFrozenHolds, WithinProducedHolds, PTL

\* What a shipment has committed, with one more box that it holds, is part of what
\* the completed batches have frozen.
LEMMA DispatchFits ==
    ASSUME Inv, NEW l \in Line, shipped[l] = Boxed(l, Batch, Sent),
           NEW b \in Batch, NEW n \in DOMAIN boxes[b], boxes[b][n].slot = "SHIP_RESERVED"
    PROVE  shipped[l] + boxes[b][n].content[l] <= HeldByAll(l, "FROZEN")
<1> DEFINE Closed == {d \in Batch : status[d] = "COMPLETED"}
           S == Batch \X (1..MaxBoxes)
           C == Closed \X (1..MaxBoxes)
           i == <<b, n>>
           f == Parts(boxes, Batch, l, Sent)
           g == Parts(boxes, Closed, l, AnySlot)
           e == [p \in C |-> IF p = i THEN boxes[b][n].content[l] ELSE f[p]]
<1>1. BoxesTyped(boxes) /\ Closed \in SUBSET Batch /\ Batch \in SUBSET Batch
  BY DEF Inv, TypeOK, BoxesTyped
<1>2. /\ b \in Closed /\ n \in 1..MaxBoxes /\ boxes[b][n].content[l] \in Nat
  <2>1. boxes[b][n] \in BoxRecord /\ n \in 1..MaxBoxes
    BY <1>1 DEF BoxesTyped
  <2>2. boxes[b][n].content \in Content
    BY <2>1 DEF BoxRecord
  <2> QED
    BY <2>1, <2>2, ContentTyped DEF Inv, ConsumedAreCompleted
<1>3. i \in C /\ C \subseteq S
  BY <1>1, <1>2
<1>4. Summable(f, S) /\ Summable(g, C)
  BY <1>1, PartsTyped
<1>5. Summable(f, C) /\ Summable(e, C)
  <2>1. Summable(f, C)
    BY <1>3, <1>4 DEF Summable
  <2> QED
    BY <1>2, <2>1 DEF Summable
<1>6. \A p \in S \ C : f[p] = 0
  <2> SUFFICES ASSUME NEW d \in Batch, NEW m \in 1..MaxBoxes, d \notin Closed
               PROVE  Part(boxes, <<d, m>>, l, Sent) = 0
    BY DEF Parts
  <2>1. m \in DOMAIN boxes[d] => boxes[d][m].slot = "UNUSED"
    BY DEF Inv, ConsumedAreCompleted
  <2> QED
    BY <2>1 DEF Part, Sent
<1>7. f[i] = 0 /\ e[i] = boxes[b][n].content[l]
  <2>1. f[i] = Part(boxes, i, l, Sent)
    BY <1>3 DEF Parts
  <2> QED
    BY <1>3, <2>1 DEF Part, Sent
<1>8. \A p \in C \ {i} : e[p] = f[p]
  OBVIOUS
<1>9. \A p \in C : e[p] <= g[p]
  <2> SUFFICES ASSUME NEW d \in Closed, NEW m \in 1..MaxBoxes
               PROVE  e[<<d, m>>] <= Part(boxes, <<d, m>>, l, AnySlot)
    BY DEF Parts
  <2>1. m \in DOMAIN boxes[d] => boxes[d][m].slot \in AnySlot /\ boxes[d][m].content[l] \in Nat
    BY <1>1, ContentTyped DEF BoxesTyped, BoxRecord, AnySlot
  <2>2. CASE <<d, m>> = i
    BY <1>2, <1>3, <1>7, <2>1, <2>2 DEF Part
  <2>3. CASE <<d, m>> # i
    <3>1. e[<<d, m>>] = Part(boxes, <<d, m>>, l, Sent)
      BY <2>3 DEF Parts
    <3> QED
      BY <2>1, <3>1 DEF Part
  <2> QED
    BY <2>2, <2>3
<1>10. shipped[l] = SumOver(f, S)
  BY BoxedIsParts
<1>11. SumOver(g, C) <= HeldByAll(l, "FROZEN")
  <2>1. \A d \in Closed : Total(boxes[d], l) = Held(d, l, "FROZEN")
    BY DEF Inv, AllocationsMatchBoxes
  <2>2. SumOver([d \in Closed |-> Total(boxes[d], l)], Closed) <= HeldByAll(l, "FROZEN")
    BY <1>1, <2>1, BoxedIsHeld
  <2>3. Boxed(l, Closed, AnySlot) = SumOver([d \in Closed |-> Total(boxes[d], l)], Closed)
    BY <1>1, BoxedByBatch
  <2>4. Boxed(l, Closed, AnySlot) = SumOver(g, C)
    BY BoxedIsParts
  <2> QED
    BY <2>2, <2>3, <2>4
<1>12. HeldByAll(l, "FROZEN") \in Nat
  BY HeldByAllTyped
<1> HIDE DEF f, g, e, C, S, i
<1>13. SumOver(f, S) = SumOver(f, C)
  BY <1>3, <1>4, <1>6, SumSupport
<1>14. SumOver(e, C) = SumOver(f, C) - f[i] + e[i]
  BY <1>3, <1>5, <1>8, SumChange
<1>15. SumOver(e, C) <= SumOver(g, C)
  BY <1>4, <1>5, <1>9, SumMonotone
<1>16. /\ SumOver(f, C) \in Nat /\ SumOver(e, C) \in Nat /\ SumOver(g, C) \in Nat
  BY <1>4, <1>5, SumType
<1>17. shipped[l] + boxes[b][n].content[l] = SumOver(e, C)
  BY <1>2, <1>7, <1>10, <1>13, <1>14, <1>16
<1> QED
  BY <1>11, <1>12, <1>15, <1>16, <1>17

\* A box that a shipment holds can be dispatched, as long as no correction brings
\* a new line into a batch: the packed quantity covers it (commit_box_consumption).
THEOREM DispatchNeverBlockedHolds == Spec /\ [][KeepsLines]_vars => []DispatchNeverBlocked
<1>1. ASSUME Inv, ShippedMatchesBoxes, PackedMatchesFrozen PROVE DispatchNeverBlocked
  <2> SUFFICES ASSUME NEW b \in Batch, NEW n \in DOMAIN boxes[b],
                      boxes[b][n].slot = "SHIP_RESERVED", NEW l \in Line
               PROVE  shipped[l] + boxes[b][n].content[l] <= packed[l]
    BY DEF DispatchNeverBlocked
  <2>1. shipped[l] = Boxed(l, Batch, Sent) /\ packed[l] = HeldByAll(l, "FROZEN")
    BY <1>1 DEF ShippedMatchesBoxes, PackedMatchesFrozen, Sent
  <2> QED
    BY <1>1, <2>1, DispatchFits
<1> QED
  BY <1>1, BaseInvariant, ShippedMatchesBoxesHolds, PackedMatchesFrozenHolds, PTL

-----------------------------------------------------------------------------
(* Batches that are linked to one line only. *)

\* Boxes hold lines that the batch is linked to, and a completed batch has boxes.
LinkedContents ==
    \A b \in Batch :
        /\ \A n \in DOMAIN boxes[b], l \in Line : boxes[b][n].content[l] > 0 => l \in Linked[b]
        /\ status[b] = "COMPLETED" => DOMAIN boxes[b] # {}

OnlyLinked(bx, b) == \A n \in DOMAIN bx, l \in Line : bx[n].content[l] > 0 => l \in Linked[b]

\* What a box adds to the total of its batch.
LEMMA TotalCovers ==
    ASSUME NEW bx, BoxSet(bx), NEW n \in DOMAIN bx, NEW l \in Line
    PROVE  bx[n].content[l] \in Nat /\ bx[n].content[l] <= Total(bx, l) /\ Total(bx, l) \in Nat
<1> DEFINE q == [m \in DOMAIN bx |-> bx[m].content[l]]
<1>1. \A m \in DOMAIN bx : q[m] \in Nat
  BY ContentTyped DEF BoxSet, BoxRecord
<1>2. IsFiniteSet(DOMAIN bx)
  <2>1. IsFiniteSet(1..MaxBoxes) /\ DOMAIN bx \in SUBSET (1..MaxBoxes)
    BY PackingAssumption, FS_Interval DEF BoxSet
  <2> QED
    BY <2>1, FS_Subset, Zenon
<1>3. Summable(q, DOMAIN bx) /\ DOMAIN q = DOMAIN bx
  BY <1>1, <1>2 DEF Summable
<1>4. Total(bx, l) = SumOver(q, DOMAIN bx) /\ q[n] = bx[n].content[l]
  BY DEF Total, Sum
<1> HIDE DEF q
<1>5. q[n] <= SumOver(q, DOMAIN bx) /\ SumOver(q, DOMAIN bx) \in Nat
  BY <1>3, SumBounds, SumType
<1> QED
  BY <1>1, <1>4, <1>5

\* A batch's new boxes hold linked lines only.
LEMMA LinkedFill ==
    ASSUME Inv, LinkedContents, NEW b \in Batch, FillBatch(b)
    PROVE  /\ OnlyLinked(boxes'[b], b)
           /\ status'[b] = "COMPLETED" => DOMAIN boxes'[b] # {}
<1>0. OnlyLinked(boxes[b], b)
  BY DEF LinkedContents, OnlyLinked
<1>1. b \in DOMAIN boxes /\ b \in DOMAIN status
  BY DEF Inv, TypeOK
<1>2. CASE CreateBatch(b)
  BY <1>0, <1>1, <1>2 DEF CreateBatch
<1>3. ASSUME NEW k \in Content, AddBox(b, k)
      PROVE  OnlyLinked(boxes'[b], b) /\ status'[b] # "COMPLETED"
  <2>1. \A l \in Line : k[l] > 0 => l \in Linked[b]
    BY <1>3 DEF AddBox, Fits
  <2>2. boxes'[b] = [n \in DOMAIN boxes[b] \cup {NextSequence(b)} |->
                        IF n \in DOMAIN boxes[b] THEN boxes[b][n]
                        ELSE [content |-> k, slot |-> "UNUSED"]]
    BY <1>1, <1>3 DEF AddBox
  <2>3. status'[b] # "COMPLETED"
    BY <1>1, <1>3 DEF AddBox
  <2> QED
    BY <1>0, <2>1, <2>2, <2>3 DEF OnlyLinked
<1>4. ASSUME NEW n \in 1..MaxBoxes, NEW k \in Content, ReplaceBox(b, n, k)
      PROVE  OnlyLinked(boxes'[b], b) /\ status'[b] # "COMPLETED"
  <2>1. \A l \in Line : k[l] > 0 => l \in Linked[b]
    BY <1>4 DEF ReplaceBox, Fits
  <2> DEFINE bx == [boxes[b] EXCEPT ![n].content = k]
  <2>2. boxes'[b] = bx /\ status'[b] # "COMPLETED" /\ n \in DOMAIN boxes[b]
    BY <1>1, <1>4 DEF ReplaceBox
  <2>3. boxes[b][n] \in BoxRecord
    BY <2>2 DEF Inv, TypeOK
  <2>4. DOMAIN bx = DOMAIN boxes[b] /\ \A m \in DOMAIN boxes[b] : m # n => bx[m] = boxes[b][m]
    OBVIOUS
  <2>5. bx[n].content = k
    BY <2>2, <2>3 DEF BoxRecord
  <2> HIDE DEF bx
  <2> QED
    BY <1>0, <2>1, <2>2, <2>4, <2>5 DEF OnlyLinked
<1>5. ASSUME NEW n \in 1..MaxBoxes, RemoveBox(b, n)
      PROVE  OnlyLinked(boxes'[b], b) /\ status'[b] # "COMPLETED"
  <2>1. boxes'[b] = [m \in DOMAIN boxes[b] \ {n} |-> boxes[b][m]] /\ status'[b] # "COMPLETED"
    BY <1>1, <1>5 DEF RemoveBox
  <2> QED
    BY <1>0, <2>1 DEF OnlyLinked
<1>6. CASE CompleteBatch(b)
  BY <1>0, <1>6 DEF CompleteBatch
<1>7. CASE CancelBatch(b)
  <2>1. boxes' = boxes /\ status'[b] = "CANCELLED"
    BY <1>1, <1>7 DEF CancelBatch
  <2> QED
    BY <1>0, <2>1
<1> QED
  BY <1>2, <1>3, <1>4, <1>5, <1>6, <1>7 DEF FillBatch

LEMMA LinkedCorrection ==
    ASSUME Inv, NEW c \in Change, NEW a \in Actor, ApproveChange(c, a),
           NEW b, b = change[c].batch
    PROVE  /\ b \in Batch /\ OnlyLinked(boxes'[b], b) /\ DOMAIN boxes'[b] # {}
           /\ status[b] = "COMPLETED"
           /\ \A l \in Line : LayoutTotal(change[c].layout, l) > 0 => l \in Linked[b]
<1> DEFINE y == change[c].layout
<1>1. b \in Batch /\ y \in Layout /\ Replaced(b)
  BY ApproveChangeReplaces DEF ApproveChange, Inv, TypeOK, NoChange
<1>2. \A l \in Line : LayoutTotal(y, l) > 0 => l \in Linked[b]
  BY DEF ApproveChange, ReplaceLayout
<1>3. boxes'[b] = [n \in DOMAIN y |-> [content |-> y[n], slot |-> "UNUSED"]]
  BY <1>1 DEF ApproveChange, ReplaceLayout, Inv, TypeOK
<1>4. DOMAIN y # {}
  <2>1. PICK m \in 1..MaxBoxes : y \in [1..m -> Content]
    BY <1>1 DEF Layout
  <2>2. 1 \in 1..m
    BY <2>1, PackingAssumption
  <2> QED
    BY <2>1, <2>2
<1> HIDE DEF y
<1>5. \A l \in Line : Total(boxes'[b], l) = LayoutTotal(y, l)
  BY <1>3, TotalOfLayout
<1>6. OnlyLinked(boxes'[b], b)
  <2> SUFFICES ASSUME NEW n \in DOMAIN boxes'[b], NEW l \in Line, boxes'[b][n].content[l] > 0
               PROVE  l \in Linked[b]
    BY DEF OnlyLinked
  <2>1. BoxSet(boxes'[b])
    BY <1>1 DEF Replaced
  <2>2. Total(boxes'[b], l) > 0
    BY <2>1, TotalCovers
  <2> QED
    BY <1>2, <1>5, <2>2
<1> QED
  BY <1>1, <1>2, <1>3, <1>4, <1>6 DEF Replaced, y

LEMMA LinkedStep ==
    ASSUME Inv, LinkedContents, [Next]_vars PROVE LinkedContents'
<1> SUFFICES ASSUME NEW b \in Batch
             PROVE  /\ OnlyLinked(boxes'[b], b)
                    /\ status'[b] = "COMPLETED" => DOMAIN boxes'[b] # {}
  BY DEF LinkedContents, OnlyLinked
<1>0. OnlyLinked(boxes[b], b) /\ (status[b] = "COMPLETED" => DOMAIN boxes[b] # {})
  BY DEF LinkedContents, OnlyLinked
<1>1. ASSUME boxes'[b] = boxes[b], status'[b] = status[b]
      PROVE  OnlyLinked(boxes'[b], b) /\ (status'[b] = "COMPLETED" => DOMAIN boxes'[b] # {})
  BY <1>0, <1>1
<1>2. ASSUME NEW d \in Batch, FillBatch(d)
      PROVE  OnlyLinked(boxes'[b], b) /\ (status'[b] = "COMPLETED" => DOMAIN boxes'[b] # {})
  <2>1. Created(d) \/ Refilled(d) \/ Completed(d) \/ Cancelled(d)
    BY <1>2, CreateBatchCreates, AddBoxRefills, ReplaceBoxRefills, RemoveBoxRefills,
       CompleteBatchCompletes, CancelBatchCancels DEF FillBatch
  <2>2. OnlyBatch(d)
    BY <2>1 DEF Created, Refilled, Completed, Cancelled
  <2>3. CASE d = b
    BY <1>2, <2>3, LinkedFill
  <2>4. CASE d # b
    BY <1>1, <2>2, <2>4 DEF OnlyBatch
  <2> QED
    BY <2>3, <2>4
<1>3. ASSUME NEW c \in Change, NEW a \in Actor, ApproveChange(c, a)
      PROVE  OnlyLinked(boxes'[b], b) /\ (status'[b] = "COMPLETED" => DOMAIN boxes'[b] # {})
  <2>1. CASE change[c].batch = b
    BY <1>3, <2>1, LinkedCorrection
  <2>2. CASE change[c].batch # b
    <3>1. boxes'[b] = boxes[b] /\ status'[b] = status[b]
      BY <1>3, <2>2, ApproveChangeReplaces DEF Replaced, OnlyBatch
    <3> QED
      BY <1>1, <3>1
  <2> QED
    BY <2>1, <2>2
<1>4. ASSUME NEW d \in Batch, NEW n \in 1..MaxBoxes, Handed(d, n)
      PROVE  OnlyLinked(boxes'[b], b) /\ (status'[b] = "COMPLETED" => DOMAIN boxes'[b] # {})
  <2>1. /\ DOMAIN boxes'[b] = DOMAIN boxes[b]
        /\ \A m \in DOMAIN boxes[b] : boxes'[b][m].content = boxes[b][m].content
    BY <1>4, HandedTotals
  <2>2. status' = status
    BY <1>4 DEF Handed
  <2> QED
    BY <1>0, <2>1, <2>2 DEF OnlyLinked
<1>5. CASE Next
  <2>1. ASSUME NEW c \in Change, NEW d \in Batch, NEW y \in Layout, NEW a \in Actor,
               SubmitChange(c, d, y, a)
        PROVE  boxes' = boxes /\ status' = status
    BY <2>1 DEF SubmitChange
  <2>2. ASSUME NEW c \in Change, NEW a \in Actor, RejectChange(c, a)
        PROVE  boxes' = boxes /\ status' = status
    BY <2>2 DEF RejectChange
  <2> QED
    BY <1>1, <1>2, <1>3, <1>4, <1>5, <2>1, <2>2, ConsumeBoxHands DEF Next
<1>6. CASE UNCHANGED vars
  BY <1>1, <1>6 DEF vars
<1> QED
  BY <1>5, <1>6

LEMMA LinkedContentsHolds == Spec => []LinkedContents
<1>1. Init => LinkedContents
  BY DEF Init, LinkedContents
<1> QED
  BY <1>1, LinkedStep, BaseInvariant, PTL DEF Spec

\* A batch that is linked to one line has boxes of that line only, so no correction
\* of it can bring in another.
LEMMA OneLineKept ==
    ASSUME \A b \in Batch : \A l, m \in Linked[b] : l = m
    PROVE  Spec => [][KeepsLines]_vars
<1>1. ASSUME Inv, LinkedContents PROVE KeepsLines
  <2> SUFFICES ASSUME NEW c \in Change, NEW a \in Actor, ApproveChange(c, a), NEW l \in Line,
                      LayoutTotal(change[c].layout, l) > 0
               PROVE  Total(boxes[change[c].batch], l) > 0
    BY DEF KeepsLines
  <2> DEFINE b == change[c].batch
  <2>1. b \in Batch /\ l \in Linked[b] /\ status[b] = "COMPLETED"
    BY <1>1, LinkedCorrection
  <2>2. PICK n \in DOMAIN boxes[b] : TRUE
    BY <1>1, <2>1 DEF LinkedContents
  <2>3. BoxSet(boxes[b])
    BY <1>1, <2>1 DEF Inv, TypeOK, BoxSet
  <2> HIDE DEF b
  <2>4. PICK m \in Line : boxes[b][n].content[m] > 0
    <3>1. boxes[b][n].content \in Content
      BY <2>2, <2>3 DEF BoxSet, BoxRecord
    <3> QED
      BY <3>1, PackingAssumption
  <2>5. m = l
    BY <1>1, <2>1, <2>2, <2>4 DEF LinkedContents
  <2>6. Total(boxes[b], l) > 0
    BY <2>2, <2>3, <2>4, <2>5, TotalCovers
  <2> QED
    BY <2>6 DEF b
<1> QED
  BY <1>1, BaseInvariant, LinkedContentsHolds, PTL DEF Spec

\* For batches of single-line orders the ledger is exact and no unit is boxed twice
\* or blocked at dispatch, without any condition on the corrections.
THEOREM OneLineLedger ==
    ASSUME \A b \in Batch : \A l, m \in Linked[b] : l = m
    PROVE  Spec => [](PackedMatchesFrozen /\ NeverBoxedTwice /\ DispatchNeverBlocked)
<1>1. Spec => [][KeepsLines]_vars
  BY OneLineKept
<1> QED
  BY <1>1, PackedMatchesFrozenHolds, NeverBoxedTwiceHolds, DispatchNeverBlockedHolds, PTL

=============================================================================
