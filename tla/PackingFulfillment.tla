------------------------- MODULE PackingFulfillment -------------------------
(***************************************************************************)
(* Packing batches and the quantity ledger of the purchase-order lines     *)
(* they pack (backend/apps/packing/services.py).                           *)
(*                                                                         *)
(* Every public function of the service is one database transaction that   *)
(* locks the batch, then the linked order lines and their projections, so  *)
(* each is one action here.  A call that the service refuses rolls back    *)
(* and is a stuttering step.  A client's expected_version only decides     *)
(* between acceptance and refusal, so it is not a parameter; the version a *)
(* change request captured at submission is, because it outlives the call. *)
(***************************************************************************)
EXTENDS QuantitySums, Sequences

CONSTANTS
    Batch,      \* packing batches
    Line,       \* purchase-order lines
    Change,     \* identities of packing change requests
    Actor,      \* internal users who submit and review change requests
    Linked,     \* Linked[b]: the lines of the orders batch b is created for
    Produced,   \* Produced[l]: production-completed quantity of line l
    Content,    \* what one box may hold: line -> quantity, not all zero
    MaxBoxes,   \* bound on a box's sequence number
    MaxVersion  \* bound on a batch's version

ASSUME PackingAssumption ==
    /\ IsFiniteSet(Batch)
    /\ Linked \in [Batch -> SUBSET Line]
    /\ Produced \in [Line -> Nat]
    /\ Content \subseteq [Line -> Nat]
    /\ \A k \in Content : \E l \in Line : k[l] > 0
    /\ MaxBoxes \in Nat \ {0}
    /\ MaxVersion \in Nat \ {0}

VARIABLES
    status,     \* PackingBatch.status; "NONE" before the batch exists
    version,    \* PackingBatch.version
    boxes,      \* boxes[b][n]: box number n of batch b (content and consumer slot)
    alloc,      \* alloc[b][l]: PackingBatchLineAllocation; "NONE" is no row
    reserved,   \* SupplyOrderLineFulfillment.packing_reserved_quantity
    packed,     \* SupplyOrderLineFulfillment.packed_quantity
    shipped,    \* SupplyOrderLineFulfillment.shipped_quantity
    change      \* change[c]: PackingChangeRequest

vars == <<status, version, boxes, alloc, reserved, packed, shipped, change>>

(***************************************************************************)
(* The slot of a box summarises its PackingBoxConsumption rows: UNUSED has *)
(* none, FREED has only released ones, the others name the type and state  *)
(* of the one active row.                                                  *)
(***************************************************************************)
ActiveSlots == {"CON_RESERVED", "CON_COMMITTED", "SHIP_RESERVED", "SHIP_COMMITTED"}
BoxRecord == [content : Content, slot : ActiveSlots \cup {"UNUSED", "FREED"}]

Layout == UNION {[1..n -> Content] : n \in 1..MaxBoxes}

NoAllocation == [state |-> "NONE", quantity |-> 0]
NoChange == [status |-> "NONE"]

\* _allocation_totals: the quantity of line l in the boxes bx.
Total(bx, l) == Sum([n \in DOMAIN bx |-> bx[n].content[l]])

LayoutTotal(layout, l) == Sum([n \in DOMAIN layout |-> layout[n][l]])

\* The quantity of line l that batch b holds in the allocation state st.
Held(b, l, st) == IF alloc[b][l].state = st THEN alloc[b][l].quantity ELSE 0

HeldByAll(l, st) == Sum([b \in Batch |-> Held(b, l, st)])

-----------------------------------------------------------------------------

TypeOK ==
    /\ status \in [Batch -> {"NONE", "DRAFT", "IN_PROGRESS", "COMPLETED", "CANCELLED"}]
    /\ version \in [Batch -> 0..MaxVersion]
    /\ DOMAIN boxes = Batch
    /\ \A b \in Batch : /\ DOMAIN boxes[b] \subseteq 1..MaxBoxes
                        /\ \A n \in DOMAIN boxes[b] : boxes[b][n] \in BoxRecord
    /\ alloc \in [Batch -> [Line -> {NoAllocation} \cup
          [state : {"RESERVED", "FROZEN", "RELEASED", "REVERSED"}, quantity : Nat \ {0}]]]
    /\ reserved \in [Line -> Nat]
    /\ packed \in [Line -> Nat]
    /\ shipped \in [Line -> Nat]
    /\ DOMAIN change = Change
    /\ \A c \in Change : change[c] = NoChange \/ change[c] \in
          [status : {"PENDING", "APPROVED", "REJECTED"}, batch : Batch,
           expected : 1..MaxVersion, layout : Layout, submitter : Actor]

Init ==
    /\ status = [b \in Batch |-> "NONE"]
    /\ version = [b \in Batch |-> 0]
    /\ boxes = [b \in Batch |-> << >>]
    /\ alloc = [b \in Batch |-> [l \in Line |-> NoAllocation]]
    /\ reserved = [l \in Line |-> 0]
    /\ packed = [l \in Line |-> 0]
    /\ shipped = [l \in Line |-> 0]
    /\ change = [c \in Change |-> NoChange]

BumpVersion(b) ==
    /\ version[b] < MaxVersion
    /\ version' = [version EXCEPT ![b] = @ + 1]

-----------------------------------------------------------------------------
(* Filling a batch. *)

\* _validate_quantities: the lines are linked and the new box fits in what is
\* produced; `without` is what a replaced box gives back.
Fits(b, content, without) ==
    \A l \in Line : content[l] > 0 =>
        /\ l \in Linked[b]
        /\ reserved[l] - without[l] + packed[l] + content[l] <= Produced[l]

Nothing == [l \in Line |-> 0]

\* Wrong: a line that left the batch keeps an empty row.
RefreshedAllocation_KeepsZero(b, bx) ==
    [l \in Line |-> IF Total(bx, l) > 0 \/ alloc[b][l].state = "RESERVED"
                    THEN [state |-> "RESERVED", quantity |-> Total(bx, l)]
                    ELSE alloc[b][l]]

\* Wrong: a line that left the batch keeps its row.
RefreshedAllocation_KeepsRow(b, bx) ==
    [l \in Line |-> IF Total(bx, l) > 0 THEN [state |-> "RESERVED", quantity |-> Total(bx, l)]
                    ELSE alloc[b][l]]

\* Wrong: the batch's earlier reservation is not replaced but added to.
RefreshedReserved_Adds(b, bx) == [l \in Line |-> reserved[l] + Total(bx, l)]

\* _refresh_batch_reservations: the allocation rows and the reserved quantities
\* follow the boxes bx.
RefreshedAllocation(b, bx) ==
    [l \in Line |->
        CASE Total(bx, l) > 0                -> [state |-> "RESERVED", quantity |-> Total(bx, l)]
          [] Total(bx, l) = 0 /\ alloc[b][l].state = "RESERVED" -> NoAllocation
          [] OTHER                           -> alloc[b][l]]

RefreshedReserved(b, bx) ==
    [l \in Line |-> reserved[l] + Total(bx, l) - Held(b, l, "RESERVED")]

RefreshAccepted(b, bx) ==
    \A l \in Line :
        /\ Total(bx, l) > 0 => alloc[b][l].state \in {"NONE", "RESERVED"}
        /\ Total(bx, l) \notin {0, Held(b, l, "RESERVED")}
              => RefreshedReserved(b, bx)[l] + packed[l] <= Produced[l]
        /\ RefreshedReserved(b, bx)[l] >= 0

RefreshReservations(b, bx) ==
    /\ RefreshAccepted(b, bx)
    /\ alloc' = [alloc EXCEPT ![b] = RefreshedAllocation(b, bx)]
    /\ reserved' = RefreshedReserved(b, bx)

CreateBatch(b) ==
    /\ status[b] = "NONE"
    /\ status' = [status EXCEPT ![b] = "DRAFT"]
    /\ version' = [version EXCEPT ![b] = 1]
    /\ UNCHANGED <<boxes, alloc, reserved, packed, shipped, change>>

NextSequence(b) ==
    1 + CHOOSE m \in 0..MaxBoxes :
            /\ m \in DOMAIN boxes[b] \cup {0}
            /\ \A n \in DOMAIN boxes[b] : n <= m

AddBox(b, content) ==
    LET bx == [n \in DOMAIN boxes[b] \cup {NextSequence(b)} |->
                  IF n \in DOMAIN boxes[b] THEN boxes[b][n]
                  ELSE [content |-> content, slot |-> "UNUSED"]]
    IN  /\ status[b] \in {"DRAFT", "IN_PROGRESS"}
        /\ NextSequence(b) <= MaxBoxes
        /\ Fits(b, content, Nothing)
        /\ boxes' = [boxes EXCEPT ![b] = bx]
        /\ RefreshReservations(b, bx)
        /\ status' = [status EXCEPT ![b] = "IN_PROGRESS"]
        /\ BumpVersion(b)
        /\ UNCHANGED <<packed, shipped, change>>

ReplaceBox(b, n, content) ==
    LET bx == [boxes[b] EXCEPT ![n].content = content]
    IN  /\ status[b] = "IN_PROGRESS"
        /\ n \in DOMAIN boxes[b]
        /\ Fits(b, content, boxes[b][n].content)
        /\ boxes' = [boxes EXCEPT ![b] = bx]
        /\ RefreshReservations(b, bx)
        /\ BumpVersion(b)
        /\ UNCHANGED <<status, packed, shipped, change>>

RemoveBox(b, n) ==
    LET bx == [m \in DOMAIN boxes[b] \ {n} |-> boxes[b][m]]
    IN  /\ status[b] = "IN_PROGRESS"
        /\ n \in DOMAIN boxes[b]
        /\ boxes' = [boxes EXCEPT ![b] = bx]
        /\ RefreshReservations(b, bx)
        /\ status' = [status EXCEPT ![b] = IF DOMAIN bx = {} THEN "DRAFT" ELSE "IN_PROGRESS"]
        /\ BumpVersion(b)
        /\ UNCHANGED <<packed, shipped, change>>

-----------------------------------------------------------------------------
(* Ending a batch. *)

\* _freeze_batch_allocations, applied to the refreshed rows.
CompleteBatch(b) ==
    LET rows == RefreshedAllocation(b, boxes[b])
        held == [l \in Line |-> IF rows[l].state = "RESERVED" THEN rows[l].quantity ELSE 0]
        left == [l \in Line |-> RefreshedReserved(b, boxes[b])[l] - held[l]]
    IN  /\ status[b] \in {"DRAFT", "IN_PROGRESS"}
        /\ DOMAIN boxes[b] # {}
        /\ RefreshAccepted(b, boxes[b])
        /\ \E l \in Line : held[l] > 0
        /\ \A l \in Line : /\ left[l] >= 0
                           /\ held[l] > 0 => left[l] + packed[l] + held[l] <= Produced[l]
        /\ alloc' = [alloc EXCEPT ![b] =
              [l \in Line |-> IF held[l] > 0 THEN [state |-> "FROZEN", quantity |-> held[l]]
                              ELSE rows[l]]]
        /\ reserved' = left
        /\ packed' = [l \in Line |-> packed[l] + held[l]]
        /\ status' = [status EXCEPT ![b] = "COMPLETED"]
        /\ BumpVersion(b)
        /\ UNCHANGED <<boxes, shipped, change>>

\* The boxes stay; only the reservations are given back.
CancelBatch(b) ==
    /\ status[b] \in {"DRAFT", "IN_PROGRESS"}
    /\ \A l \in Line : reserved[l] >= Held(b, l, "RESERVED")
    /\ reserved' = [l \in Line |-> reserved[l] - Held(b, l, "RESERVED")]
    /\ alloc' = [alloc EXCEPT ![b] =
          [l \in Line |-> IF @[l].state = "RESERVED" THEN [@[l] EXCEPT !.state = "RELEASED"]
                          ELSE @[l]]]
    /\ status' = [status EXCEPT ![b] = "CANCELLED"]
    /\ BumpVersion(b)
    /\ UNCHANGED <<boxes, packed, shipped, change>>

-----------------------------------------------------------------------------
(* Correcting a completed batch. *)

SubmitChange(c, b, layout, submitter) ==
    /\ change[c] = NoChange
    /\ status[b] = "COMPLETED"
    /\ change' = [change EXCEPT ![c] =
          [status |-> "PENDING", batch |-> b, expected |-> version[b],
           layout |-> layout, submitter |-> submitter]]
    /\ UNCHANGED <<status, version, boxes, alloc, reserved, packed, shipped>>

\* Wrong: only a committed consumer protects its box.
LayoutReplaceable_Reserved(b) ==
    \A n \in DOMAIN boxes[b] : boxes[b][n].slot \notin {"CON_COMMITTED", "SHIP_COMMITTED"}

\* A box with an active consumer refuses the change.  A box that any
\* consumption row references, released ones included, cannot be deleted
\* (PackingBoxConsumption.box is PROTECT), and the approval deletes every box.
LayoutReplaceable(b) == \A n \in DOMAIN boxes[b] : boxes[b][n].slot = "UNUSED"

\* Wrong: what other batches hold in reservation is forgotten.
LayoutFits_IgnoresReserved(b, l, quantity) ==
    quantity <= Produced[l] - packed[l] + Total(boxes[b], l)

LayoutFits(b, l, quantity) ==
    quantity <= Produced[l] - reserved[l] - packed[l] + Total(boxes[b], l)

PackedCovers(b, l) == packed[l] >= Total(boxes[b], l)

\* Wrong: a line that the new layout omits stays packed.
Booked_KeepsOmitted(b, layout) ==
    [l \in Line |-> IF Total(boxes[b], l) > 0 /\ LayoutTotal(layout, l) > 0
                    THEN packed[l] + LayoutTotal(layout, l) - Total(boxes[b], l)
                    ELSE packed[l]]

\* Wrong: a larger layout is not booked.
Booked_OnlyLess(b, layout) ==
    [l \in Line |-> IF LayoutTotal(layout, l) < Total(boxes[b], l)
                    THEN packed[l] + LayoutTotal(layout, l) - Total(boxes[b], l)
                    ELSE packed[l]]

\* The packed quantities once the layout replaces the boxes.  The code books
\* the lines of the old totals only: a line the old boxes did not hold gets a
\* frozen allocation below, and nothing is added here.
Booked(b, layout) ==
    [l \in Line |-> IF Total(boxes[b], l) > 0
                    THEN packed[l] + LayoutTotal(layout, l) - Total(boxes[b], l)
                    ELSE packed[l]]

\* _replace_completed_layout
ReplaceLayout(b, layout) ==
    LET old(l) == Total(boxes[b], l)
        new(l) == LayoutTotal(layout, l)
    IN  /\ LayoutReplaceable(b)
        /\ \A l \in Line : new(l) > 0 =>
              /\ l \in Linked[b]
              /\ LayoutFits(b, l, new(l))
              /\ old(l) = 0 => alloc[b][l].state = "NONE"
        /\ \A l \in Line : old(l) > 0 /\ new(l) # old(l) =>
              /\ PackedCovers(b, l)
              /\ shipped[l] <= Booked(b, layout)[l]
        /\ packed' = Booked(b, layout)
        /\ alloc' = [alloc EXCEPT ![b] = [l \in Line |->
              CASE new(l) > 0               -> [state |-> "FROZEN", quantity |-> new(l)]
                [] new(l) = 0 /\ old(l) > 0 -> [@[l] EXCEPT !.state = "REVERSED"]
                [] OTHER                    -> @[l]]]
        /\ boxes' = [boxes EXCEPT ![b] =
              [n \in DOMAIN layout |-> [content |-> layout[n], slot |-> "UNUSED"]]]

\* Wrong: the version the change was submitted against is not compared.
ChangeIsCurrent_AnyVersion(c) == TRUE

ChangeIsCurrent(c) == version[change[c].batch] = change[c].expected

ApproveChange(c, reviewer) ==
    /\ change[c] # NoChange
    /\ change[c].status = "PENDING"
    /\ change[c].submitter # reviewer
    /\ status[change[c].batch] = "COMPLETED"
    /\ ChangeIsCurrent(c)
    /\ ReplaceLayout(change[c].batch, change[c].layout)
    /\ BumpVersion(change[c].batch)
    /\ change' = [change EXCEPT ![c].status = "APPROVED"]
    /\ UNCHANGED <<status, reserved, shipped>>

RejectChange(c, reviewer) ==
    /\ change[c] # NoChange
    /\ change[c].status = "PENDING"
    /\ change[c].submitter # reviewer
    /\ change' = [change EXCEPT ![c].status = "REJECTED"]
    /\ UNCHANGED <<status, version, boxes, alloc, reserved, packed, shipped>>

-----------------------------------------------------------------------------
(* Downstream consumption of a completed box. *)

SetSlot(b, n, slot) == boxes' = [boxes EXCEPT ![b][n].slot = slot]

ReserveBox(b, n, slot) ==
    /\ status[b] = "COMPLETED"
    /\ n \in DOMAIN boxes[b]
    /\ boxes[b][n].slot \in {"UNUSED", "FREED"}
    /\ slot \in {"CON_RESERVED", "SHIP_RESERVED"}
    /\ SetSlot(b, n, slot)
    /\ UNCHANGED <<status, version, alloc, reserved, packed, shipped, change>>

CommitConsolidation(b, n) ==
    /\ n \in DOMAIN boxes[b]
    /\ boxes[b][n].slot = "CON_RESERVED"
    /\ SetSlot(b, n, "CON_COMMITTED")
    /\ UNCHANGED <<status, version, alloc, reserved, packed, shipped, change>>

\* Wrong: a box already shipped can be committed again.
CommitShipment_Again(b, n) ==
    /\ n \in DOMAIN boxes[b]
    /\ boxes[b][n].slot \in {"SHIP_RESERVED", "SHIP_COMMITTED"}
    /\ \A l \in Line : shipped[l] + boxes[b][n].content[l] <= packed[l]
    /\ shipped' = [l \in Line |-> shipped[l] + boxes[b][n].content[l]]
    /\ SetSlot(b, n, "SHIP_COMMITTED")
    /\ UNCHANGED <<status, version, alloc, reserved, packed, change>>

\* Only a shipment's commit advances the shipped quantity of the box's lines.
CommitShipment(b, n) ==
    /\ n \in DOMAIN boxes[b]
    /\ boxes[b][n].slot = "SHIP_RESERVED"
    /\ \A l \in Line : boxes[b][n].content[l] > 0
          => shipped[l] + boxes[b][n].content[l] <= packed[l]
    /\ shipped' = [l \in Line |-> shipped[l] + boxes[b][n].content[l]]
    /\ SetSlot(b, n, "SHIP_COMMITTED")
    /\ UNCHANGED <<status, version, alloc, reserved, packed, change>>

ReleaseBox(b, n) ==
    /\ n \in DOMAIN boxes[b]
    /\ boxes[b][n].slot \in {"CON_RESERVED", "SHIP_RESERVED"}
    /\ SetSlot(b, n, "FREED")
    /\ UNCHANGED <<status, version, alloc, reserved, packed, shipped, change>>

TransferBox(b, n) ==
    /\ n \in DOMAIN boxes[b]
    /\ boxes[b][n].slot \in {"CON_RESERVED", "CON_COMMITTED"}
    /\ SetSlot(b, n, "SHIP_RESERVED")
    /\ UNCHANGED <<status, version, alloc, reserved, packed, shipped, change>>

-----------------------------------------------------------------------------

FillBatch(b) ==
    \/ CreateBatch(b)
    \/ \E k \in Content : AddBox(b, k)
    \/ \E n \in 1..MaxBoxes, k \in Content : ReplaceBox(b, n, k)
    \/ \E n \in 1..MaxBoxes : RemoveBox(b, n)
    \/ CompleteBatch(b)
    \/ CancelBatch(b)

ConsumeBox(b, n) ==
    \/ \E slot \in {"CON_RESERVED", "SHIP_RESERVED"} : ReserveBox(b, n, slot)
    \/ CommitConsolidation(b, n)
    \/ CommitShipment(b, n)
    \/ ReleaseBox(b, n)
    \/ TransferBox(b, n)

Next ==
    \/ \E b \in Batch : FillBatch(b)
    \/ \E c \in Change, b \in Batch, y \in Layout, a \in Actor : SubmitChange(c, b, y, a)
    \/ \E c \in Change, a \in Actor : ApproveChange(c, a) \/ RejectChange(c, a)
    \/ \E b \in Batch, n \in 1..MaxBoxes : ConsumeBox(b, n)

Spec == Init /\ [][Next]_vars

-----------------------------------------------------------------------------
(* Properties. *)

\* The units of line l in the boxes whose batch and slot satisfy the choice.
Boxed(l, batches, slots) ==
    Sum([p \in batches \X (1..MaxBoxes) |->
            IF p[2] \in DOMAIN boxes[p[1]] /\ boxes[p[1]][p[2]].slot \in slots
            THEN boxes[p[1]][p[2]].content[l] ELSE 0])

AnySlot == ActiveSlots \cup {"UNUSED", "FREED"}

\* The reserved quantity of a line is what the open batches that share the line
\* hold, whatever the order of their box edits, completions and cancellations
\* (the projection is a counter updated by differences).
ReservationsBacked ==
    \A l \in Line : reserved[l] = HeldByAll(l, "RESERVED")

\* A batch's allocation rows say what is in its boxes: reserved while it is
\* open, frozen once it is completed, through every approved correction; a
\* cancelled batch holds nothing.
AllocationsMatchBoxes ==
    \A b \in Batch, l \in Line :
        /\ status[b] \in {"DRAFT", "IN_PROGRESS"} =>
              Held(b, l, "RESERVED") = Total(boxes[b], l) /\ Held(b, l, "FROZEN") = 0
        /\ status[b] = "COMPLETED" =>
              Held(b, l, "FROZEN") = Total(boxes[b], l) /\ Held(b, l, "RESERVED") = 0
        /\ status[b] = "CANCELLED" =>
              Held(b, l, "FROZEN") = 0 /\ Held(b, l, "RESERVED") = 0

\* The packed quantity never counts a unit that no completed batch has frozen.
PackedNeverOverstated ==
    \A l \in Line : packed[l] <= HeldByAll(l, "FROZEN")

\* The packed quantity is exactly what the completed batches have frozen, also
\* after their layouts were corrected.
PackedMatchesFrozen ==
    \A l \in Line : packed[l] = HeldByAll(l, "FROZEN")

\* A unit is shipped once: the shipped quantity is the content of the boxes a
\* shipment has committed, whatever happened to the batch since.
ShippedMatchesBoxes ==
    \A l \in Line : shipped[l] = Boxed(l, Batch, {"SHIP_COMMITTED"})

\* Batches that compete for a line never box more units than were produced.
NeverBoxedTwice ==
    LET live == {b \in Batch : status[b] # "CANCELLED"}
    IN  \A l \in Line : Boxed(l, live, AnySlot) <= Produced[l]

\* A box that a shipment holds can always be dispatched: committing it passes
\* the shipped-within-packed check.
DispatchNeverBlocked ==
    \A b \in Batch : \A n \in DOMAIN boxes[b] :
        boxes[b][n].slot = "SHIP_RESERVED" =>
            \A l \in Line : shipped[l] + boxes[b][n].content[l] <= packed[l]

\* Two changes submitted against the same state of a batch are never both
\* applied.
ChangeAppliesOnce ==
    \A c, d \in Change :
        /\ change[c].status = "APPROVED"
        /\ change[d].status = "APPROVED"
        /\ c # d
        /\ change[c].batch = change[d].batch
        => change[c].expected # change[d].expected

\* While a downstream consumer holds a box, no step changes what is in it or
\* deletes it.
ConsumedBoxKept ==
    [][\A b \in Batch : \A n \in DOMAIN boxes[b] :
          boxes[b][n].slot \in ActiveSlots =>
              /\ n \in DOMAIN boxes'[b]
              /\ boxes'[b][n].content = boxes[b][n].content]_vars

\* Boxes whose consumers were all released can be re-packed through a change.
ReleasedBoxesRepackable ==
    \A b \in Batch :
        /\ status[b] = "COMPLETED"
        /\ \A n \in DOMAIN boxes[b] : boxes[b][n].slot \notin ActiveSlots
        => LayoutReplaceable(b)

=============================================================================
